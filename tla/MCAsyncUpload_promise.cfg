\* One request of two files, one of them undecodable, two workers; the handler and the
\* workers may die, status writes fail, and they and the reads lose their answers.
SPECIFICATION FairSpec
CONSTANTS
  f1 = f1 f2 = f2 f3 = f3 r1 = r1 r2 = r2 u1 = u1 w1 = w1 w2 = w2
  Files = {f1, f3}
  Requests = {r1}
  Uploads = {u1}
  Workers = {w1, w2}
  ReqOf <- OneRequest
  UploadOf <- OneUpload
  Authorised = {r1}
  ChunkMaxFiles = 2
  BatchSize = 2
  Mode = "local"
  Undecodable = {f3}
  Outcome <- RepliesLost
  Sendings = 4
  MayCrash = {r1, w1, w2}
  StatusExpires = FALSE
PROPERTIES KeepsPromise
CHECK_DEADLOCK FALSE
