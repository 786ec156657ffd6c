SPECIFICATION Spec
CONSTANTS
  Timer = {t1, t2}
  Ticks = {0, 2, 3}
  MaxAlarms = 4
INVARIANTS
  TicksAccounted
  NeverEarlierThanPending
PROPERTY
  ImplementsService
