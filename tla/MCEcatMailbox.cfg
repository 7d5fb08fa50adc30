CONSTANTS
  QueueDepth = 1
  CounterMax = 2
  MaxRequests = 4
  MaxSessions = 2
  LongReplies = {2}
  Unanswered = {4}
  Malformed = {3}
  Uncounted = {4}
  Window = 4
  MaxLost = 1
  Concurrent = {"write", "read", "ask", "isr", "test"}
  Restarts = {"reset", "init"}
  ReadAcknowledges = TRUE
SPECIFICATION Spec
INVARIANTS TypeOK SlotsHaveOneOwner PoolNeverExhausted FramesAgree
