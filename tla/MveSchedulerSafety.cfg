CONSTANTS
  s1 = s1
  s2 = s2
  s3 = s3
  a1 = a1
  a2 = a2
  Worker = Worker
  Pm = Pm
  None = None
  Session = {s1, s2}
  App = {a1, a2}
  NLsid = 1
  JobQueueSize = 2
  MaxInstances = 2
  QueueSize = 3
  Frozen <- Everybody
  MaySuspend = TRUE
  MayResume = TRUE
  MayDestroy = TRUE
  Races = FALSE
  Signals = FALSE
  Timeouts = FALSE
SPECIFICATION Spec
INVARIANT OneAtATime
INVARIANT LsidsAgree
INVARIANT OnlyOwnersRun
INVARIANT ScheduledIsMapped
PROPERTY SlotsKept
SYMMETRY Sym
INVARIANT FreedIsUnused
INVARIANT StoppedStaysOut
CHECK_DEADLOCK FALSE
