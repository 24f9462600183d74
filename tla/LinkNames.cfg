SPECIFICATION Spec
CONSTANTS
  Main = "main"
  Sentinel = 1000
  NamesIn <- Mentioned
  Lower <- lower_module
  Programs <- MCSameName
INVARIANTS
  LinksMeant
CHECK_DEADLOCK FALSE
