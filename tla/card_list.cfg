CONSTANTS
  s1 = s1
  s2 = s2
  None = None
  Student = {s1, s2}
  Deactivated = {s2}
  Card = {1, 2, 3, 4}
  FirstCards <- OneEach
  MaxListeners = 3
  MaxDue = 4
  MaxCalls = 1
SPECIFICATION Spec
INVARIANTS TypeOK ListOfNewest RowOpened StopsForKeyOnly
PROPERTIES LastCardClosed
CHECK_DEADLOCK FALSE
