CONSTANTS
  None = None
  v1 = v1
  v2 = v2
  a = a
  x = x
  sa = sa
  sx = sx
  finance = finance
  literature = literature
  u1 = u1
  Versions = {v1, v2}
  Unparseable = {}
  Names = {a, x}
  Uploadable = {a}
  Sidecars = {sa, sx}
  FullSidecar <- MCSidecar
  StemSidecar <- MCSidecar
  Domains = {finance, literature}
  DomainOf <- MCDomainOf
  DefaultDomain = finance
  Users = {u1}
  StabilityChecks = 1
  MaxCrashes = 0
  MaxFaults = 0
  MaxRequeues = 0
SPECIFICATION SearchSpec
INVARIANT AllDomainsAnswer
