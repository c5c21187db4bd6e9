SPECIFICATION FairSpec
CONSTANTS
  Chain <- MCChain
  MaxRestarts = 2
INVARIANTS
  EveryAddressServes
  ScenarioFindsItsNode
  PipelineMeetsItsNetwork
  CallsAreVerified
  DownMeansDrained
PROPERTIES
  HandsOver
  EndsClean
CHECK_DEADLOCK FALSE
