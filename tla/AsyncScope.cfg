SPECIFICATION Spec
CONSTANTS
  NumTasks = 2
  Main = Main
  NoTask = NoTask
  Passing = TRUE
  WaitLists = {"parked", "job", "fd"}
  MainOps = 3
  TaskOps = 1
INVARIANTS TypeOK CountMatchesHolders HandlesAlive NoTaskOutlivesScope 
PROPERTIES ImplementsLifecycle
CHECK_DEADLOCK FALSE
