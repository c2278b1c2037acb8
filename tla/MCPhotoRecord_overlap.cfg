\* Any two calls and the recognition overlap; statements fail; time runs out.
SPECIFICATION FairSpec
CONSTANTS
  c1 = c1 c2 = c2 c3 = c3 v1 = v1 v1b = v1b v2 = v2 dash = dash blank = blank none = none
  stageA = stageA stageB = stageB
  Clients = {c1, c2}
  Managers = {c1, c2}
  Requests <- EveryRequest
  Values = {v1, v1b, v2, dash}
  NoBib = blank
  Norm <- Spellings
  None = none
  Stages = {stageA, stageB}
  KnownStages = {stageA}
  Responses <- Answers
  Recognizing = TRUE
  Outcome = {"ok", "fail", "lostReply"}
  MayTimeOut = TRUE
INVARIANTS OneDeletion BibRemovedOnce RecognitionIsTrue
PROPERTIES RecognitionEnds
CHECK_DEADLOCK FALSE
