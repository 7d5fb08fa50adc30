CONSTANTS
  QueueDepth = 2
  CounterMax = 3
  MaxRequests = 3
  MaxSessions = 1
  LongReplies = {}
  Unanswered = {}
  Malformed = {}
  Uncounted = {}
  Window = 2
  MaxLost = 1
  Concurrent = {"isr", "test"}
  Restarts = {}
  ReadAcknowledges = TRUE
SPECIFICATION Spec
INVARIANT RepeatWasRead
