SPECIFICATION Spec
CONSTANTS
  Bottom = Bottom  Free = Free
  Waiter = {w1}
  Bit = {0, 1, 20}
  MaxTimes = 2
INVARIANTS  CancelIsAsked
 
