SPECIFICATION Spec
CONSTANTS
  Players = {p1, p2}
  Nobody = Nobody
  Items = {sword}
  MaxMails = 2
  Gold = {1}
  COD = {0, 1}
  Postage = 1
  StartGold = 2
  MaxQueue = 2
  MaxScans = 2
  MaxCrashes = 1
CONSTRAINT Undisturbed
SYMMETRY Symmetry
INVARIANTS TypeOK DurableOnce OneHolder MemoryAhead
CHECK_DEADLOCK FALSE
