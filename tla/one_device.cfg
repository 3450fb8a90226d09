CONSTANTS
  d1 = d1
  d2 = d2
  b1 = b1
  b2 = b2
  Device = {d1}
  Duty <- AllDuties
  Book = {b1, b2, b3}
  Card = {k1}
  None = None
  IDBeforeDash <- CutFirst
  FirstQuantity <- OnlyFirst
  Quantity = {1}
  MaxQueue = 2
  MaxReads = 1
  MinCheck = 0
  MaxCheck = 2
SPECIFICATION Spec
INVARIANTS CountersBounded WholeBooks
