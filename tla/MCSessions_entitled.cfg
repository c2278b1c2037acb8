\* Four calls overlap; statements fail or lose their reply; tokens expire.
SPECIFICATION Spec
CONSTANTS
  c1 = c1 c2 = c2 c3 = c3 c4 = c4 ann = ann bob = bob eve = eve p1 = p1 p2 = p2 none = none
  Clients = {c1, c2, c3, c4}
  Users = {ann, eve}
  Passwords = {p1, p2}
  None = none
  Seeded <- AnnAndEve
  Admins = {ann}
  Ops = {"login", "refresh", "logout", "role", "status"}
  NewRoles = {"admin", "participant"}
  NewStatuses = {"active", "blocked"}
  Outcome = {"ok", "fail", "lostReply"}
  MayExpire = TRUE
  MaxTokens = 4
INVARIANTS OnlyEntitledSucceed SuccessorsReplace OneLivePerSession
SYMMETRY ClientSymmetry
CHECK_DEADLOCK FALSE
