SPECIFICATION Spec
CONSTANTS
  u1 = u1
  u2 = u2
  e1 = e1
  e2 = e2
  e3 = e3
  User = {u1}
  Email = {e1}
  Password = {p1}
  Profile = {}
  SocialId = {}
  Null = Null
  Unset = Unset
  Mangled = Mangled
  SessionId = {s1, s2}
  RequestId = {r1, r2}
  Seeded = {u1}
  SeedEmail <- MCSeedEmail
  SeedPassword = p1
  Status = {"inactive"}
  Ops = {"login", "refresh"}
  MaxRand = 4
PROPERTIES
  ExchangedOnce
CHECK_DEADLOCK FALSE
