CONSTANTS
  None = None
  Unset = Unset
  Unknown = Unknown
  Elsewhere = Elsewhere
  Hosts <- MCHosts
  HostOrder <- MCHostOrder
  Models <- MCModels
  MinNodes <- MCMinNodes
  FromRecipe = {"wide"}
  Explicit = {"side"}
  ServedAs <- MCServedAs
  Gateways = {"h1", "h2"}
  Role <- MCRole
  Initial <- Startable
  Repaired <- Idle
SPECIFICATION Spec
INVARIANTS TypeOK RoutesLeadToLaunchers ScalingIsExact
PROPERTY OnlyParkedHostsClash
