SPECIFICATION Spec
CONSTANTS
  r1 = r1
  r2 = r2
  Regs = {r1, r2}
  c1 = c1
  Cells = {c1}
  Ints = {0}
  Pool <- MCPool
  Sizes = {1}
  MaxTensors = 2
  MaxElements = 3
  WordModulus = 16
  HeapStart = 4
  HeapLimit = 8
  HeapSizes = {}
  Block = 2
  GcInterval = 3
  MaxReflections = 0
  MaxOptions = 2
  NoTensor = NoTensor
  NoBlock = NoBlock
INVARIANTS FreeListExact NoDangling AccountingOffset
PROPERTY ReachableUntouched
SYMMETRY RegSymmetry
