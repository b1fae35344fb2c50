CONSTANTS
  None = None
  v1 = v1
  v2 = v2
  v3 = v3
  a = a
  x = x
  y = y
  sa = sa
  sx = sx
  sc = sc
  finance = finance
  literature = literature
  u1 = u1
  u2 = u2
  Versions = {v1, v2}
  Unparseable = {v2}
  Names = {a, x}
  Uploadable = {a}
  Sidecars = {sa, sx, sc}
  FullSidecar <- MCFullSidecar
  StemSidecar <- MCStemSidecar
  Domains = {finance, literature}
  DomainOf <- MCDomainOf
  DefaultDomain = finance
  Users = {u1, u2}
  StabilityChecks = 2
  MaxCrashes = 1
  MaxFaults = 1
  MaxRequeues = 1
SPECIFICATION Spec
INVARIANTS
  Conservation
  ProcessedWasIndexed
  FailedWasRefused
  DuplicatesAreAccounted
  TornFilesAreAccounted
  PipelineInv
PROPERTY MovesFollowLedger
