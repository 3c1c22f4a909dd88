CONSTANTS
  None = None
  Models <- MCModels
  Contents <- MCContents
  Expanded <- MCExpanded
  Including = {"with_extra"}
  Port <- MCPort
  Configs <- Three
  Commands = {"apply", "apply --restart-model", "apply --no-model", "model stop", "teardown", "adopt", "litellm restart"}
  Faults = {"restart", "down", "crash", "torn", "stop"}
  MaxEdits = 1
SPECIFICATION Spec
INVARIANTS TypeOK NoSilentDrift GatewayFresh
