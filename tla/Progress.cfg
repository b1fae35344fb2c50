CONSTANTS
  None = None
  v1 = v1
  v2 = v2
  v3 = v3
  a = a
  x = x
  y = y
  sa = sa
  sx = sx
  sc = sc
  finance = finance
  literature = literature
  u1 = u1
  u2 = u2
  Versions = {v1, v2, v3}
  Unparseable = {v2, v3}
  Names = {a, x, y}
  Uploadable = {a}
  Sidecars = {sa, sx, sc}
  FullSidecar <- MCFullSidecar
  StemSidecar <- MCStemSidecar
  Domains = {finance, literature}
  DomainOf <- MCDomainOf
  DefaultDomain = finance
  Users = {u1}
  StabilityChecks = 1
  MaxCrashes = 1
  MaxFaults = 0
  MaxRequeues = 0
SPECIFICATION FairSpec
INVARIANT FailedHasDeadLetter
PROPERTIES
  EveryFileLeavesIncoming
  ImplementsLedger
