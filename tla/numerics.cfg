SPECIFICATION Spec
CONSTANTS
  WordTrits = 2
  WordBits = 4
  ChunkTrits = 2
  ChunksPerLimb = 2
  Schoolbook = 2
  Decimal = 5
  Base81 = 7
  PlusDigit = 4
  FractionTrits = 2
  Pt5Trits = 3
  B81Trits = 2
  ByteValues = 32
  Base243 = 7
  Alphabet <- MCAlphabet
  ByteTrits = 2
  WordBytes = 2
  OpcodeTrits = 2
  OperandTrits = 2
  OperandBits = 4
  M = 3
  E = 2
  TryteTrits = 2
  Tasks <- MCTasks
INVARIANTS FixedWidthExact BigsExact  CodecsExact
CHECK_DEADLOCK FALSE
