SPECIFICATION Spec
SYMMETRY Symmetry
CONSTANTS
  a1 = a1  a2 = a2  irq = irq  dog = dog  dvfs = dvfs  s1 = s1  s2 = s2
  None = None
  Session = {s1, s2}
  App = {a1, a2}
  Irq = {irq}
  Dog = {dog}
  Dvfs = {}
  MayRace = {"enqueue", "map", "param", "event"}
  MayHang = FALSE
INVARIANTS NoDeadlock NoUseAfterFree IdleHoldsNothing RegisteredIsAlive
