CONSTANTS
  s1 = s1
  s2 = s2
  s3 = s3
  a1 = a1
  a2 = a2
  Worker = Worker
  Pm = Pm
  None = None
  Session = {s1, s2}
  App = {a1}
  NLsid = 1
  JobQueueSize = 1
  MaxInstances = 2
  QueueSize = 3
  Frozen <- Nobody
  MaySuspend = FALSE
  MayResume = FALSE
  MayDestroy = FALSE
  Races = FALSE
  Signals = FALSE
  Timeouts = FALSE
SPECIFICATION FairSpec
PROPERTY QueuedGetsTurn
