CONSTANTS
  Readings = {1, 2, 3, 4, 5}
  NoReading = 0
  Script <- ScenarioScript
  RuntimeChoices = {"process", "compose"}
  FaultChoices = {"none", "fork", "lossy", "redeliver", "unlogged"}
  BootOutlastsEmission = TRUE
SPECIFICATION Spec
INVARIANTS LateDeliveryIsNotMisreported
