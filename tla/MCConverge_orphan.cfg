CONSTANTS
  None = None
  Models <- MCModels
  Contents <- MCContents
  Expanded <- MCExpanded
  Including = {"with_extra"}
  Port <- MCPort
  Configs <- Switching
  Commands = {"apply"}
  Faults = {}
  MaxEdits = 2
SPECIFICATION Spec
INVARIANT LeavesNoOrphans
