\* XADD may be executed without an answer, or up to four times; the CUDA service alone.
SPECIFICATION Spec
CONSTANTS
  f1 = f1 f2 = f2 f3 = f3 r1 = r1 r2 = r2 u1 = u1 w1 = w1 w2 = w2
  Files = {f1, f2}
  Requests = {r1}
  Uploads = {u1}
  Workers = {w1, w2}
  ReqOf <- OneRequest
  UploadOf <- OneUpload
  Authorised = {r1}
  ChunkMaxFiles = 2
  BatchSize = 2
  Mode = "cuda"
  Undecodable = {}
  Outcome <- AmbiguousXAdd
  Sendings = 4
  MayCrash = {}
  StatusExpires = FALSE
INVARIANTS AcceptedPhotoIsWhole
CHECK_DEADLOCK FALSE
