\* Three requests on a connection that holds two bytes each way: frames without
\* a payload, with one that fits the limit and with one beyond it.
SPECIFICATION FramingSpec
CONSTANTS
  HeaderBytes = 2
  FrameLimit = 2
  Lengths = {0, 2, 3}
  BufferBytes = 2
  MaxRequests = 3
  SendMayFail = TRUE
INVARIANTS
  DeliveredIsSent
  AnswersInTurn
  ReadsAreBounded
  NeverBothWait
PROPERTIES
  WorkRunsOut
  ImplementsExchange
  RequestsEnd
\* A connection that ended stays so.
CHECK_DEADLOCK FALSE
