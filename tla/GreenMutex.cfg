SPECIFICATION FairSpec
CONSTANTS
  t1 = t1  t2 = t2  t3 = t3
  Tasks = {t1, t2, t3}
  Main = Main
  Nobody = Nobody
  Cancellable = {t1, t2}
  Endless = {t1, t2}
  MaxRounds = 2
INVARIANTS MutualExclusion NoLostUpdate WaiterHasWaker
PROPERTIES OnlyOvertakingStarves
CHECK_DEADLOCK FALSE
