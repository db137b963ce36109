SPECIFICATION Spec
CONSTANTS
  Records <- MCRecords
  Enums <- MCEnums
  Capitalised <- MCCapitalised
  Segments <- MCSegments
  Spare <- MCSpare
  Sources <- MCSources
  Damaged <- Broad
  MaxEdits = 1
INVARIANT RoundTrip
INVARIANT Binds
INVARIANT Accounted
CHECK_DEADLOCK FALSE
