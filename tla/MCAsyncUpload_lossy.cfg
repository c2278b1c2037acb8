\* One upload in batches; any call may be lost, any process die, the hash expire.
SPECIFICATION Spec
CONSTANTS
  f1 = f1 f2 = f2 f3 = f3 r1 = r1 r2 = r2 u1 = u1 w1 = w1 w2 = w2
  Files = {f1, f2}
  Requests = {r1, r2}
  Uploads = {u1}
  Workers = {w1, w2}
  ReqOf <- OneRequest
  UploadOf <- OneUpload
  Authorised = {r1, r2}
  ChunkMaxFiles = 2
  BatchSize = 2
  Mode = "auto"
  Undecodable = {}
  Outcome <- Lossy
  Sendings = 4
  MayCrash = {r1, w1, w2}
  StatusExpires = TRUE
INVARIANTS PhotoIsWhole CompletedIsBacked HeldByOneWorker CompletedIsTrue
SYMMETRY WorkerSymmetry
CHECK_DEADLOCK FALSE
