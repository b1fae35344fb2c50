CONSTANTS
  MaxSignals = 3
  MaxFailures = 2
SPECIFICATION FairSpec
INVARIANTS
  RunningIsObserved
  NoObserverLost
  CleanUnlessLate
  RunnerInv
PROPERTY StopIsObeyed
