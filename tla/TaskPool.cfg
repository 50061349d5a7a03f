CONSTANTS
  Task = {t1, t2, t3}
  Worker = {w1, w2}
  NoTask = NoTask
  NoOne = NoOne
  MaxTime = 2
  MayDelay = FALSE
SPECIFICATION Spec
CHECK_DEADLOCK FALSE
SYMMETRY Symmetry
INVARIANTS TypeOK NoOversleep DrainedAtExit
PROPERTY ImplementsBoard
