SPECIFICATION GovernedSpec
CONSTANTS
  StackStart = 2
  StackBase = 5
  MaxStack = 2
  Block = 2
  FrameSizes = {1}
  RecLimit <- MCRecLimit
  StableSteps = 2
  Loads <- MCLoads
  HeapUses = {0}
  Entropies = {1}
  Unset = Unset
  Infinite = Infinite
  Unreadable = Unreadable
  Texts <- MCTextSet
  Within <- MCWithin
  Word = 64
  WarnDepth = 1
  Ceiling = 3
  Programs = {"audited", "limited", "unreadable"}
  PolicyText <- MCText
  EngineOf <- MCEngineOf
  Guards <- MCGuards
  OtherReasons <- MCReasons
  Hashes = {"h", "other"}
  MaxReflections = 1
INVARIANTS PolicyBound DepthWithinTier EntropyDescends WithinPolicy HaltEarned FormsAgree
CONSTRAINT MCFrameBound
CHECK_DEADLOCK FALSE
