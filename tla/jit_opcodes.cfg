CONSTANTS
  Width = 5
  Fixed = {0}
  CodeSize = 2
  StackSize = 2
  HeapSize = 5
  Pooled <- MCPooled
  Tokens <- MCTokens
  MaxStack = 1
  MaxTensors = 3
  MaxElements = 10
  PrintDepth = 1
  MaxNesting = 3
  MaxReflections = 1
  MaxRefinements = 2
  Registers = {0, 1, 2, 3}
  Insns <- MCInsns
  Starts <- MCStarts
  Length = 4
SPECIFICATION Spec
INVARIANT TracesAgree
INVARIANT HandlesLive
 
CHECK_DEADLOCK FALSE
