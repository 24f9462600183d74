SPECIFICATION Spec
CONSTANTS
  Main = "main"
  Sentinel = 1000
  NamesIn <- Mentioned
  Lower <- lower_module
  Programs <- MCPrograms
INVARIANTS
  LinksKept
  EachOnce
  AllThere
  LoweringAdds
  AcceptsExactly
  NoReentry
CHECK_DEADLOCK FALSE
