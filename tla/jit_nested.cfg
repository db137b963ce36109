SPECIFICATION Spec
CONSTANTS
  Stores <- MCStores
  Programs <- MCNested
  Fault = Fault
  Hot = 2
  MaxLoads = 1
PROPERTY AgreesWithInterpreter
CHECK_DEADLOCK FALSE
