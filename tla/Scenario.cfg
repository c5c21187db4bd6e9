SPECIFICATION FairSpec
CONSTANTS
  Topology <- AllTopologies
  Body <- AllBodies
  Faults = {"none", "misroute", "unbound", "leak", "forget"}
INVARIANTS
  EveryStimulusAccountedFor
  ArrivesInPublishOrder
  GatesSuffice
  NoFalseAlarm
  PassIsEarned
PROPERTIES
  ComesToAVerdict
