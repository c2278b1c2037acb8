\* Registrations and changes overlap; whoever is an admin may change any account.
SPECIFICATION Spec
CONSTANTS
  c1 = c1 c2 = c2 c3 = c3 c4 = c4 ann = ann bob = bob eve = eve p1 = p1 p2 = p2 none = none
  Clients = {c1, c2, c3}
  Users = {ann, bob, eve}
  Passwords = {p1, p2}
  None = none
  Seeded <- TwoSeeded
  Admins = {ann}
  Ops = {"register", "me", "role", "status"}
  NewRoles = {"admin", "participant"}
  NewStatuses = {"active", "blocked"}
  Outcome = {"ok", "fail", "lostReply"}
  MayExpire = FALSE
  MaxTokens = 0
INVARIANTS RegistrationStands
PROPERTIES AdminRemains
SYMMETRY ClientSymmetry
CHECK_DEADLOCK FALSE
