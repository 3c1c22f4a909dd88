CONSTANTS
  None = None
  Models <- MCModels
  Contents <- MCContents
  Expanded <- MCExpanded
  Including = {"with_extra"}
  Port <- MCPort
  Configs <- Placing
  Commands = {"apply", "apply --restart-model", "apply --no-model", "adopt", "litellm restart"}
  Faults = {"write", "mesh", "stop", "crash"}
  MaxEdits = 1
SPECIFICATION Spec
INVARIANTS NoSilentDrift StopFindsItsRecipe
PROPERTY ImplementsNode
