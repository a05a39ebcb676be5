SPECIFICATION FairSpec
CONSTANTS
  p1 = p1  q1 = q1  p2 = p2  P1 = P1  P2 = P2  P3 = P3
  Pid = {p1, q1, p2}
  Tgid = {P1, P2, P3}
  TgidOf <- MCTgidOf
  None = None
  NTfacc = 1
  MaxRecords = 1
  File = {f1, f2}
  Sleeps <- OnceOrTwice
  Monitors = {p2}
  MultiOpen = FALSE
  Forks <- ChildOfP2
INVARIANTS TypeOK  GrantIsHeld NoOrphanHold
PROPERTIES LockPromise LockCallReturns OrphanSwept
