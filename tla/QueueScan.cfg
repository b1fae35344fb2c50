CONSTANTS
  None = None
  v1 = v1
  v2 = v2
  a = a
  x = x
  sa = sa
  sx = sx
  finance = finance
  u1 = u1
  Versions = {v1, v2}
  Unparseable = {v2}
  Names = {a, x}
  Uploadable = {a}
  Sidecars = {sa, sx}
  FullSidecar <- MCSidecar
  StemSidecar <- MCSidecar
  Domains = {finance}
  DomainOf <- MCDomainOf
  DefaultDomain = finance
  Users = {u1}
  StabilityChecks = 1
  MaxCrashes = 0
  MaxFaults = 0
  MaxRequeues = 1
SPECIFICATION ScanSpec
INVARIANTS
  NothingMissed
  ResolvedOnce
