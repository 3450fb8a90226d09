CONSTANTS
  Email = {admin, e1}
  Admin = admin
  Password = {p1, p2}
  Name = {n1}
  None = None
  Habits <- OnlyPatient
  MaxCalls = 1
SPECIFICATION Spec
PROPERTY InfoAndPassword
