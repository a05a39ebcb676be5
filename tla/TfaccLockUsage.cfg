SPECIFICATION Spec
CONSTANTS
  p1 = p1  q1 = q1  p2 = p2  P1 = P1  P2 = P2  P3 = P3
  Pid = {p1, p2}
  Tgid = {P1, P2}
  TgidOf <- MCTgidOf
  None = None
  NTfacc = 1
  MaxRecords = 2
  File = {f1, f2}
  Sleeps = {10}
  Monitors = {p2}
  MultiOpen = FALSE
  Forks <- NoForks
INVARIANTS UsageTracksHolder
