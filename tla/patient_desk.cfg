CONSTANTS
  b1 = b1
  Device = {d1, d2}
  Duty <- AnyWork
  Book = {b1, b2}
  Card = {k1, k2}
  None = None
  IDBeforeDash <- NoCut
  FirstQuantity <- OnlyFirst
  Quantity = {1, 2}
  MaxQueue = 2
  MaxReads = 1
  MinCheck = 0
  MaxCheck = 2
SPECIFICATION PatientSpec
SYMMETRY Alike
INVARIANTS DeskExact TotalsAgree LentWhenAvailable KeyIsTheBooks
