SPECIFICATION Spec
CONSTANTS
  NumTasks = 2
  Main = Main
  NoTask = NoTask
  Passing = FALSE
  WaitLists = {"parked"}
  MainOps = 2
  TaskOps = 2
INVARIANTS NoOrphans
CHECK_DEADLOCK FALSE
