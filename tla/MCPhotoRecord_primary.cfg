\* Calls that set the primary bib and the recognition overlap; statements fail.
SPECIFICATION Spec
CONSTANTS
  c1 = c1 c2 = c2 c3 = c3 v1 = v1 v1b = v1b v2 = v2 dash = dash blank = blank none = none
  stageA = stageA stageB = stageB
  Clients = {c1, c2, c3}
  Managers = {c1, c2, c3}
  Requests <- FewRequests
  Values = {v1, v1b, v2, dash}
  NoBib = blank
  Norm <- Spellings
  None = none
  Stages = {stageA, stageB}
  KnownStages = {stageA}
  Responses <- OneAnswer
  Recognizing = TRUE
  Outcome = {"ok", "fail", "lostReply"}
  MayTimeOut = TRUE
PROPERTIES PrimaryIsListed HasPrimary
SYMMETRY ClientSymmetry
CHECK_DEADLOCK FALSE
