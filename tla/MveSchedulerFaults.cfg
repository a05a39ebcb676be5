CONSTANTS
  s1 = s1
  s2 = s2
  s3 = s3
  a1 = a1
  a2 = a2
  Worker = Worker
  Pm = Pm
  None = None
  Session = {s1}
  App = {a1, a2}
  NLsid = 1
  JobQueueSize = 1
  MaxInstances = 2
  QueueSize = 3
  Frozen <- App
  MaySuspend = TRUE
  MayResume = FALSE
  MayDestroy = TRUE
  Races = TRUE
  Signals = TRUE
  Timeouts = TRUE
SPECIFICATION Spec
INVARIANT NoLeak
SYMMETRY Sym
CHECK_DEADLOCK FALSE
