SPECIFICATION FairSpec
CONSTANTS
  Ops = {o1, o2}
  Tasks = {t1, t2}
  Cancelers = {c1}
  NoOp = NoOp
  NoTask = NoTask
  NoLedger = NoLedger
  MaxSubmitHistory = 6
  MaxLifecycleHistory = 4
INVARIANTS
  FailedMeansNotSpawned
  RestartRepairs
  LowerSettledFirst
  RefinementInv
PROPERTIES
  OpenSubmitNeverReplaced
  CallsReturn
  ImplementsContract
