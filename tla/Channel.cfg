SPECIFICATION Spec
CONSTANTS
  a = a  b = b  c = c  Main = Main
  Tasks = {a, b, c}
  Senders = {a, b, Main}
  Receivers = {b, c, Main}
  Closers = {a}
  Cancellable = {c}
  SendKinds = {"send", "wait", "try"}
  RecvKinds = {"receive", "wait", "try"}
  Capacity = 2
  MaxSends = 2
  MaxReceives = 1
INVARIANTS WithinCapacity ClosedHasNoWaiters WaitersMatchBuffer ExactlyOnce SenderOrder
CHECK_DEADLOCK FALSE
