CONSTANTS
  None = None
  Models <- MCModels
  Contents <- MCContents
  Expanded <- MCExpanded
  Including = {"with_extra"}
  Port <- MCPort
  Configs <- Lively
  Commands = {"apply", "apply --restart-model"}
  Faults = {"stop", "compose", "health", "probe"}
  MaxEdits = 2
SPECIFICATION LiveSpec
PROPERTIES StateConverges NodeConverges
