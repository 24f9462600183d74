SPECIFICATION Spec
CONSTANTS
  t1 = t1  t2 = t2
  w1 = w1  w2 = w2
  Tasks = {t1, t2}
  Workers = {w1, w2}
  Main = Main
  NoTask = NoTask
  TaskOps = {"spawn", "cancel", "resolve", "preempt", "block", "io", "wait"}
  MainOps = {"spawn", "cancel", "resolve"}
  Spinners = {}
  MaxOps = 2
INVARIANTS RunningExclusive TakenOnce
PROPERTIES CancelWins
SYMMETRY TaskAndWorkerSymmetry
CHECK_DEADLOCK FALSE
