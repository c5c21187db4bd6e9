CONSTANTS
  MaxRecords = 3
  MaxHash = 3
  MaxSeq = 3
SPECIFICATION Spec
INVARIANTS
  ViewsAreTheReference
  ForkShowsOnlyInSequences
  ShortPageIsNotSilent
CHECK_DEADLOCK FALSE
