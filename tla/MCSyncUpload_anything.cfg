\* Any call fails or loses its reply; the client may go.
SPECIFICATION FairSpec
CONSTANTS
  f1 = f1 f2 = f2 f3 = f3
  Files = {f1, f2, f3}
  MaxFiles = 3
  Authorised = TRUE
  Outcome <- Anything
  MayDisconnect = TRUE
  PreviewMaxWidth = 30
  PreviewMaxHeight = 24
  WatermarkSize <- Mark
INVARIANTS CreatedIsWhole RowsAreWhole AllOrNothing TempsCleaned
PROPERTIES UploadAnswered
CHECK_DEADLOCK FALSE
