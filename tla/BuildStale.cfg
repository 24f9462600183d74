SPECIFICATION Spec
CONSTANTS
  Programs = {app}
  Libraries = {lib}
  Levels = {none, speed}
  Texts = {t1, t2}
  None = None
INVARIANTS
  BinaryIsCurrent
