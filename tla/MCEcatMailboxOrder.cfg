CONSTANTS
  QueueDepth = 2
  CounterMax = 3
  MaxRequests = 5
  MaxSessions = 1
  LongReplies = {}
  Unanswered = {}
  Malformed = {}
  Uncounted = {}
  Window = 2
  MaxLost = 3
  Concurrent = {"write", "read", "ask", "isr"}
  Restarts = {}
  ReadAcknowledges = TRUE
SPECIFICATION Spec
INVARIANTS RepeatWasRead RepliesInOrder
