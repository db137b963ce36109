SPECIFICATION Spec
CONSTANTS
  Reals = {0, 3}
  Handles = {1, 9}
  StackSize = 8
  Fuel = 40
  Enums <- MCEnums
  Records <- MCRecords
  Analyze <- analyze
  Generate <- generate
  Mean <- Meaning
  Programs <- RecursivePrograms
PROPERTIES ReturnsWhereCalled
