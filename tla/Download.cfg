CONSTANTS
  None = None
  v1 = v1
  v2 = v2
  a = a
  x = x
  sa = sa
  sx = sx
  finance = finance
  u1 = u1
  f1 = f1
  f2 = f2
  Versions = {v1, v2}
  Unparseable = {v1}
  Names = {a, x}
  Uploadable = {a}
  Sidecars = {sa, sx}
  FullSidecar <- MCSidecar
  StemSidecar <- MCSidecar
  Domains = {finance}
  DomainOf <- MCDomainOf
  DefaultDomain = finance
  Users = {u1}
  StabilityChecks = 1
  MaxCrashes = 0
  MaxFaults = 0
  MaxRequeues = 1
  Fetchers = {f1, f2}
  MaxAttempts = 2
SPECIFICATION DownloadSpec
INVARIANTS
  ProcessedWasIndexed
  OnlySpoiltSuffer
PROPERTY EveryDownloadEnds
