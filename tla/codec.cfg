CONSTANTS
  RequestInfos <- Requests
  RespondInfos <- Responds
  MaxCalls = 5
SPECIFICATION Spec
CHECK_DEADLOCK FALSE
INVARIANTS
  DecodedIsEncoded
  EncodesItsInfo
  CutShowsLess
  JoinedIsMerged
