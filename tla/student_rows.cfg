CONSTANTS
  d1 = d1
  n1 = n1
  n2 = n2
  m1 = m1
  NoName = NoName
  None = None
  Device = {d1}
  Duty <- AllDuties
  Doc = {1, 2}
  Number = {n1, n2}
  Name = {m1, NoName}
  Entered = {m1, NoName}
  FirstStudents <- OneStudent
  MaxQueue = 1
  MaxLoads = 2
  MaxAsks = 1
  MaxWrites = 1
SPECIFICATION Spec
INVARIANT TypeOK
PROPERTY RowOpened
