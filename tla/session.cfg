CONSTANTS
  Email = {admin, e1, e2}
  Admin = admin
  Password = {p1, p2}
  Name = {n1}
  None = None
  Habits <- PatientToHurried
  MaxCalls = 2
SPECIFICATION Spec
INVARIANTS TypeOK ProfileHasUser AdminKept ProfileShown UserHasProfile
