SPECIFICATION FairSpec
CONSTANTS
  Workers = {w1, w2}
  NoWorker = NoWorker
  asked = asked
  fired = fired
  plain = plain
  void = void
  Ops = {asked, fired}
  NoOp = NoOp
  Kind <- MCKind
  Size <- MCSize
  RetryLimit = 1
  MaxFaults = 2
  MaxLosses = 0
INVARIANTS TypeOK TruthfulAnswer AllOrNothing AtMostOnce
PROPERTIES ImplementsAtomic CloseTerminates EveryOperationEnds
CHECK_DEADLOCK FALSE
