SPECIFICATION FairSpec
CONSTANTS
  l1 = l1  l2 = l2  p1 = p1  p2 = p2  d1 = d1  d2 = d2
  Launches = {l1, l2}
  Procs = {p1, p2}
  Dests = {d1}
  Inside = {}
  Requested <- OneDestination
INVARIANTS ExclusiveDestination ArtifactsOnRecord RecoveryUntilComplete
  ChangeWithholdsPrompt NoChildLeft FailedIsDefinite
PROPERTY EveryLaunchEnds
CHECK_DEADLOCK FALSE
