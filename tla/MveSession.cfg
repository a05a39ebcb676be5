CONSTANTS
  a1 = a1  a2 = a2
  Worker = Worker  None = None
  App = {a1}
  RingSize = 1
  NBuffers = 2
  MaxMessages = 2
  MayShare = TRUE
SPECIFICATION Spec
INVARIANTS IdleMeansDone  ResponsesCounted SeenWhenOut
CHECK_DEADLOCK FALSE
