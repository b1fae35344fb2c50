CONSTANTS
  None = None
  t1 = t1
  t2 = t2
  finance = finance
  literature = literature
  manual = manual
  Threads = {t1, t2}
  Domains = {literature, manual}
  Ingested = {literature}
  Profiles = {finance, literature}
  ProfileOf <- MCProfileOf
  MaxFailures = 1
SYMMETRY MCSymmetry
SPECIFICATION Spec
INVARIANTS
  RightProfile
  WarmStaysWarm
  WarmAnswersAlike
  ComparedAlike
  EmbeddersInv
