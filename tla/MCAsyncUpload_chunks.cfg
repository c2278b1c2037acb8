\* Two chunks of one upload, two workers; the store and the database may fail.
SPECIFICATION FairSpec
CONSTANTS
  f1 = f1 f2 = f2 f3 = f3 r1 = r1 r2 = r2 u1 = u1 w1 = w1 w2 = w2
  Files = {f1, f2, f3}
  Requests = {r1, r2}
  Uploads = {u1}
  Workers = {w1, w2}
  ReqOf <- TwoRequests
  UploadOf <- OneUpload
  Authorised = {r1, r2}
  ChunkMaxFiles = 2
  BatchSize = 2
  Mode = "local"
  Undecodable = {}
  Outcome <- DefiniteFailures
  Sendings = 4
  MayCrash = {}
  StatusExpires = FALSE
INVARIANTS CountersAreExact
PROPERTIES TerminalIsFinal AcceptedIsSettled UploadEnds
CHECK_DEADLOCK FALSE
