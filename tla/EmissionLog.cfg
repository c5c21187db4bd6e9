CONSTANTS
  Readings = {r1, r2}
  NoReading = none
  RuntimeChoices = {"process"}
  FaultChoices = {"lossy", "redeliver", "unlogged"}
  BootOutlastsEmission = FALSE
SPECIFICATION FairSystemSpec
INVARIANTS
  MirrorIsPrefix
  Continuity
  ViewsNameTheCause
PROPERTIES
  ImplementsLossAccounting
  MirrorCatchesUp
  TakenIsRecorded
