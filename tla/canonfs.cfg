SPECIFICATION Spec
CONSTANTS
  Drivers = {d1, d2}
  Objects = {o1, o2}
  Chunks <- MCChunks
  Masks = {{"read"}}
  CacheSize = 1
  ReadVerify = TRUE
  NoFile = NoFile
  Blank = Blank
  NoMask = NoMask
  NoResult = NoResult
INVARIANTS OneWriter CacheExact CapsFollowed
PROPERTY StoreSpec
SYMMETRY MCSymmetry
