SPECIFICATION FairSpec
CONSTANTS
  t1 = t1  t2 = t2
  w1 = w1  w2 = w2
  Tasks = {t1, t2}
  Workers = {w1, w2}
  Main = Main
  NoTask = NoTask
  TaskOps = {"spawn", "cancel", "preempt"}
  MainOps = {"spawn", "cancel", "resolve"}
  Spinners = {}
  MaxOps = 2
INVARIANTS TypeOK OnePlace ExecutingOwnsStack
PROPERTIES ImplementsLifecycle MainResolveReturns
