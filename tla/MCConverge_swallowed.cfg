CONSTANTS
  None = None
  Models <- MCModels
  Contents <- MCContents
  Expanded <- MCExpanded
  Including = {"with_extra"}
  Port <- MCPort
  Configs <- Switching
  Commands = {"apply --restart-model"}
  Faults = {"restart"}
  MaxEdits = 1
SPECIFICATION Spec
INVARIANT NeverServesOldList
