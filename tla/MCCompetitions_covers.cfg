\* Three calls overlap; statements and calls fail or lose their reply.
SPECIFICATION Spec
CONSTANTS
  c1 = c1 c2 = c2 c3 = c3 adam = adam orla = orla otto = otto o1 = o1 none = none
  Clients = {c1, c2, c3}
  Old = o1
  None = none
  Users = {adam, orla, otto}
  Admins = {adam}
  Organizers = {orla, otto}
  Requests <- Asked
  First <- Opening
  FirstStage <- FirstDay
  DayLength = 2
  Offset = 1
  Outcome = {"ok", "fail", "lostReply"}
INVARIANTS DatesInOrder StagesWithin CoverExists NoStrayCovers
SYMMETRY ClientSymmetry
CHECK_DEADLOCK FALSE
