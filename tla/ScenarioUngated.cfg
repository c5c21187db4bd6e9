SPECIFICATION Spec
CONSTANTS
  Topology <- UngatedTopologies
  Body <- UngatedBodies
  Faults = {"none"}
INVARIANTS
  StimulusMeetsEveryLoop
