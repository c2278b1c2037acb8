\* Two calls on the grants of two competitions and one on their photos, while
\* photos are deleted, organizers change and time passes.
SPECIFICATION Spec
CONSTANTS
  c1 = c1 c2 = c2 d1 = d1 admin = admin org = org other = other fan = fan
  here = here there = there g1 = g1 g2 = g2 g3 = g3 p1 = p1 p2 = p2 p3 = p3 none = none
  Clients = {c1, c2}
  Users = {admin, org, other, fan}
  Admins = {admin}
  Organizers = {org, other}
  Competitions = {here, there}
  None = none
  FirstOrganizer <- Organized
  FirstGrants <- Granted
  Successors = {org, other}
  Requests <- Asks
  Outcome = {"ok", "fail", "lostReply"}
  GrantIds = {g1, g2, g3}
  MaxTime = 1
  Downloaders = {d1}
  Photos = {p1, p2, p3}
  Home <- Homes
  Author <- Authors
  NameOf <- Names
  Gets <- Wants
  MaxCalls = 2
  MaxDeleted = 1
INVARIANTS OriginalsAreEntitled EntitledGetOriginals DeletedIsNotServed ReadersClosed ZipNamesDistinct RevokedStaysRevoked TermsStand
PROPERTIES ManagersOnly
SYMMETRY ClientSymmetry
CHECK_DEADLOCK FALSE
