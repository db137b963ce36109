SPECIFICATION Spec
CONSTANTS
  Reals = {0, 3}
  Handles = {1, 9}
  StackSize = 2
  Signatures <- MCSignatures
  Inputs <- MCInputs
  Objects <- MCObjects
INVARIANTS FaultsForeseen CallsMean
PROPERTY Terminates
