CONSTANTS
  d1 = d1
  d2 = d2
  b1 = b1
  b2 = b2
  Device = {d1}
  Duty <- Catalogue
  Book = {b1, b2}
  Card = {k1}
  None = None
  IDBeforeDash <- NoCut
  FirstQuantity <- OnlyFirst
  Quantity = {1}
  MaxQueue = 2
  MaxReads = 1
  MinCheck = 0
  MaxCheck = 1
SPECIFICATION Spec
PROPERTY AddedOnlyWhenNew
