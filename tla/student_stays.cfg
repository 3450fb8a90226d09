CONSTANTS
  d1 = d1
  n1 = n1
  n2 = n2
  m1 = m1
  NoName = NoName
  None = None
  Device = {d1, d2}
  Duty <- Adding
  Doc = {1, 2, 3, 4}
  Number = {n1, n2}
  Name = {m1, NoName}
  Entered = {m1}
  FirstStudents <- OneFree
  MaxQueue = 2
  MaxLoads = 1
  MaxAsks = 1
  MaxWrites = 2
SPECIFICATION FairSpec
PROPERTY AddStays
