SPECIFICATION Spec
CONSTANTS
  Programs <- PassPrograms
  Depth = 2
  MaxOutcomes = 6
INVARIANTS FollowsSource CleanedOnce NoStaleError
CHECK_DEADLOCK FALSE
