SPECIFICATION Spec
CONSTANTS
  u1 = u1
  u2 = u2
  e1 = e1
  e2 = e2
  e3 = e3
  User = {u1, u2}
  Email = {e1}
  Password = {p1}
  Profile = {}
  SocialId = {x1}
  Null = Null
  Unset = Unset
  Mangled = Mangled
  SessionId = {s1}
  RequestId = {r1, r2}
  Seeded = {}
  SeedEmail <- MCSeedEmail
  SeedPassword = p1
  Status = {}
  Ops = {"social", "admin", "adminRemove"}
  MaxRand = 2
SYMMETRY SlotsAndUsers
INVARIANTS
  OneUserPerAddress
PROPERTIES
  NothingElseWritten
CHECK_DEADLOCK FALSE
