SPECIFICATION Spec
CONSTANTS
  Stores <- MCStores
  Programs <- MCPrograms
  Fault = Fault
  Hot = 2
  MaxLoads = 3
INVARIANTS StraysOnlyWhenCut
PROPERTIES AgreesWhileFaithful Stopping
CONSTRAINT MCBufferBound
CHECK_DEADLOCK FALSE
