CONSTANTS
  None = None
  Models <- MCModels
  Contents <- MCContents
  Expanded <- MCExpanded
  Including = {"with_extra"}
  Port <- MCPort
  Configs <- Wide
  Commands = {"apply", "apply --restart-model"}
  Faults = {"stop", "compose", "reload", "restart", "health", "probe", "delete", "crash", "exit", "reboot", "edit"}
  MaxEdits = 2
SPECIFICATION Spec
INVARIANTS NoSilentDrift GatewayFresh PrometheusFresh
PROPERTIES RoutineApplyNeverStops PendingIsRemembered
