CONSTANTS
  None = None
  Unset = Unset
  Unknown = Unknown
  Elsewhere = Elsewhere
  Hosts <- MCHosts
  HostOrder <- MCHostOrder
  Models <- MCModels
  MinNodes <- MCMinNodes
  FromRecipe = {}
  Explicit = {}
  ServedAs <- MCServedAs
  Gateways = {"h1"}
  Role <- MCRole
  Initial <- Wide
  Faults = {"step", "lost", "restart"}
  MaxScalings = 2
  Selections = {{}, {"h1"}, {"h2"}, {Unknown}}
SPECIFICATION Spec
INVARIANTS TypeOK SettledClusterServes
PROPERTY ImplementsNodes SettledDownStops
