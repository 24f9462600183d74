SPECIFICATION Spec
CONSTANTS
  a1 = a1  a2 = a2  a3 = a3
  f1 = f1  f2 = f2
  Addrs = {a1, a2, a3}
  Fibers = {f1, f2}
  Null = Null
  Slots = {1}
  ObjectKinds = {"class", "list", "noptr"}
  Fields = 1
  InitCap = 1
  MinThreshold = 4
  MaxFrames = 1
  MaxRegs = 2
  MaxLen = 2
  MaxPause = 1
  MaxBytes = 4
INVARIANTS TypeOK InUseLive BlockNotOverrun
PROPERTIES SweepExact MarkProgress
SYMMETRY HeapSymmetry
CHECK_DEADLOCK FALSE
