SPECIFICATION Spec
CONSTANTS
  u1 = u1
  u2 = u2
  e1 = e1
  e2 = e2
  e3 = e3
  User = {u1, u2}
  Email = {e1, e2}
  Password = {p1}
  Profile = {}
  SocialId = {x1}
  Null = Null
  Unset = Unset
  Mangled = Mangled
  SessionId = {s1}
  RequestId = {r1, r2}
  Seeded = {u1}
  SeedEmail <- MCSeedEmail
  SeedPassword = p1
  Status = {"inactive"}
  Ops = {"register", "confirm", "confirmNew", "login", "update", "social", "delete", "abort"}
  MaxRand = 4
SYMMETRY Slots
INVARIANTS
  IInv
  AddressVouched
PROPERTIES
  NothingElseWritten
  HashedAgainOnlyWhenStale
CHECK_DEADLOCK FALSE
