CONSTANTS
  d1 = d1
  d2 = d2
  b1 = b1
  b2 = b2
  Device = {d1, d2}
  Duty <- Lending
  Book = {b1}
  Card = {k1, k2}
  None = None
  IDBeforeDash <- NoCut
  FirstQuantity <- OneCopyEach
  Quantity = {1}
  MaxQueue = 2
  MaxReads = 1
  MinCheck = 0
  MaxCheck = 2
SPECIFICATION Spec
INVARIANT LentWhenAvailable
