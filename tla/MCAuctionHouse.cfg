SPECIFICATION Spec
CONSTANTS
  Players = {p1, p2, p3}
  Nobody = Nobody
  sword = sword
  shield = shield
  Lots = {sword}
  Deposit = 1
  CutPct = 50
  StartBid <- MCStartBid
  Buyout <- MCBuyout
  Prices = {1, 2, 3}
  StartGold = 2
  Futures = {1, 2}
  NoFuture = NoFuture
  MaxQueue = 2
  MaxSales = 1
  MaxLeaves = 2
  MaxFailures = 1
SYMMETRY Symmetry
INVARIANTS TypeOK OneItem DurableSound Flushed
PROPERTIES ImplementsLedger
CHECK_DEADLOCK FALSE
