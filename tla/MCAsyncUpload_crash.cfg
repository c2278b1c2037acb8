\* Two chunks; handlers and workers may die at any step.
SPECIFICATION Spec
CONSTANTS
  f1 = f1 f2 = f2 f3 = f3 r1 = r1 r2 = r2 u1 = u1 w1 = w1 w2 = w2
  Files = {f1, f2, f3}
  Requests = {r1, r2}
  Uploads = {u1}
  Workers = {w1, w2}
  ReqOf <- TwoRequests
  UploadOf <- OneUpload
  Authorised = {r1, r2}
  ChunkMaxFiles = 2
  BatchSize = 2
  Mode = "local"
  Undecodable = {}
  Outcome <- DefiniteFailures
  Sendings = 4
  MayCrash = {r1, r2, w1, w2}
  StatusExpires = FALSE
INVARIANTS AckedIsExplained TerminalIsTrue
SYMMETRY WorkerSymmetry
CHECK_DEADLOCK FALSE
