CONSTANTS
  QueueDepth = 2
  CounterMax = 3
  MaxRequests = 3
  MaxSessions = 2
  LongReplies = {}
  Unanswered = {}
  Malformed = {}
  Uncounted = {}
  Window = 2
  MaxLost = 1
  Concurrent = {}
  Restarts = {"init"}
  ReadAcknowledges = TRUE
SPECIFICATION Spec
INVARIANT RepliesInOrder
