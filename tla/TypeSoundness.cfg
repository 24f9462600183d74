SPECIFICATION Spec
CONSTANTS
  Modules <- MCModules
  Pool <- MCPool
  MaxDepth = 4
  MaxRounds = 2
  Seen = 3
INVARIANTS Sound ValuesHaveTypes OrderIndependent
CHECK_DEADLOCK FALSE
