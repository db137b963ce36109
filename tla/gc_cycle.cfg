SPECIFICATION Spec
CONSTANTS
  r1 = r1
  r2 = r2
  Regs = {r1, r2}
  Cells = {}
  Ints = {0}
  Pool <- MCPool
  Sizes = {1}
  MaxTensors = 2
  MaxElements = 3
  WordModulus = 16
  HeapStart = 4
  HeapLimit = 8
  HeapSizes = {1}
  Block = 2
  GcInterval = 3
  MaxReflections = 1
  MaxOptions = 0
  NoTensor = NoTensor
  NoBlock = NoBlock
INVARIANTS TypeOK HeapTiling FreshBlocksDisjoint
SYMMETRY RegSymmetry
