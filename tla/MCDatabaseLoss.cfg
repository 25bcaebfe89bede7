SPECIFICATION Spec
CONSTANTS
  Workers = {w1}
  NoWorker = NoWorker
  asked = asked
  fired = fired
  plain = plain
  void = void
  Ops = {asked, fired}
  NoOp = NoOp
  Kind <- MCKind
  Size <- MCSize
  RetryLimit = 5
  MaxFaults = 0
  MaxLosses = 1
INVARIANTS NoPartialTransaction
CHECK_DEADLOCK FALSE
