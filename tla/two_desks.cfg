CONSTANTS
  d1 = d1
  d2 = d2
  b1 = b1
  b2 = b2
  Device = {d1, d2}
  Duty <- TwoDesks
  Book = {b1}
  Card = {k1}
  None = None
  IDBeforeDash <- NoCut
  FirstQuantity <- OneCopyEach
  Quantity = {1}
  MaxQueue = 2
  MaxReads = 1
  MinCheck = 0
  MaxCheck = 2
SPECIFICATION FairSpec
INVARIANTS TypeOK LedgerExact LoansAccounted CounterFollowsCard SettledExact
PROPERTIES ImplementsLedger ReturnsCounted
