CONSTANTS
  MaxAttempts = 2
  FaultChoices = {"none", "omit", "short", "silent", "unverified"}
SPECIFICATION FairSpec
INVARIANTS
  PassIsEarned
  NoFalseAlarm
PROPERTIES
  ComesToAVerdict
