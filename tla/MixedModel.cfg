CONSTANTS
  None = None
  v1 = v1
  v2 = v2
  v3 = v3
  a = a
  x = x
  y = y
  sa = sa
  sx = sx
  sc = sc
  finance = finance
  literature = literature
  u1 = u1
  u2 = u2
  Versions = {v1, v2}
  Unparseable = {}
  Names = {a, x}
  Uploadable = {a}
  Sidecars = {sa, sx, sc}
  FullSidecar <- MCFullSidecar
  StemSidecar <- MCStemSidecar
  Domains = {finance, literature}
  DomainOf <- MCDomainOf
  DefaultDomain = finance
  Users = {u1}
  StabilityChecks = 2
  MaxCrashes = 0
  MaxFaults = 0
  MaxRequeues = 0
SPECIFICATION Spec
INVARIANT ModelMatchesPartition
