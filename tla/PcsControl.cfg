SPECIFICATION Spec
CONSTANTS
  Powers <- MCPowers
  Limits <- MCLimits
  MaxReqs = 2
PROPERTY NoStalePower
PROPERTY ZeroPlanStops
