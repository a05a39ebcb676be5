CONSTANTS
  p1 = p1  p2 = p2  P1 = P1  P2 = P2  empty = empty  short = short  long = long
  Pid = {p1, p2}  Tgid = {P1, P2}  TgidOf <- PartsTgidOf  None = None  File = {f1, f2}
  NTfacc = 2  MaxRecords = 2  Sleeps = {0}  Monitors = {}  MultiOpen = FALSE  Forks <- PartsForks
  Second = 2  MaxSeconds = 3  QueueLen = 4  Half = 24  Start <- PartsStart  Span = 14
  Proc = {p1, p2}  Nobody = Nobody  NBlocks = 2  BlockLen = 2  Lengths = {1, 2}
  Reserved = {3, 4}  MaxFiles = 1  MaxBuffers = 4  Races = FALSE  MayClear = FALSE
  Page = {g1, g2}  UserPage = {u1, u2}  Reservation = Reservation  Zero = Zero  Nil = Nil
  NAddr = 3  MaxPages = 2  Align = {1, 2}
  Null = Null  Words <- PartsWords
  Reader = {r1, r2}  Writer = {w1, w2}  Event = {empty, short, long}
  QueueSize = 4  Wrap = 8  Signals = {}
  Message = {empty, short, long}  Size = 5  Uint = 32  MaxLooks = 3  LateWrap = FALSE  Room = 2
SPECIFICATION PartsSpec
INVARIANTS RecordsFollowHolders  MmapFindsOwn UseIsTrue 
PROPERTIES EventsInOrder MessagesInOrder
CHECK_DEADLOCK FALSE
