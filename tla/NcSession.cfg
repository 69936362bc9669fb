SPECIFICATION FairSpec
CONSTANTS
  Threads = {gui}
  Rpcs = {r1, r2}
  NoRpc = NoRpc
  Hello = Hello
  MaxNet = 2
  MaxRogue = 1
INVARIANTS
  ReplyToItsRequest
  AnswerFindsItsRpc
  UndisturbedErrorReachesAll
  RequestsUseNegotiatedBase
PROPERTIES
  RefinesService
  NothingAfterDisconnect
  ConnectReturns
  CloseReturns
  LossIsNoticed
  RequestSettles
CHECK_DEADLOCK FALSE
