CONSTANTS
  None = None
  Unset = Unset
  Unknown = Unknown
  Elsewhere = Elsewhere
  Hosts <- MCHosts
  HostOrder <- MCHostOrder
  Models <- MCModels
  MinNodes <- MCMinNodes
  FromRecipe = {}
  Explicit = {}
  ServedAs <- MCServedAs
  Gateways = {"h1"}
  Role <- MCRole
  Initial <- Wide
  Faults = {"step"}
  MaxScalings = 2
  Selections = {{}}
SPECIFICATION Spec
PROPERTY DownStops
