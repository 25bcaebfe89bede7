SPECIFICATION FairSpec
CONSTANTS
  Workers = {w1}
  NoWorker = NoWorker
  asked = asked
  fired = fired
  plain = plain
  void = void
  Ops = {asked, plain, void}
  NoOp = NoOp
  Kind <- MCKind
  Size <- MCSize
  RetryLimit = 5
  MaxFaults = 6
  MaxLosses = 1
INVARIANTS CommitOrder NothingLeftOpen
PROPERTIES EveryOperationEnds
CHECK_DEADLOCK FALSE
