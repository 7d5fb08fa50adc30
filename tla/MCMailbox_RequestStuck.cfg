CONSTANTS
  QueueDepth = 2
  CounterMax = 3
  MaxRequests = 3
  MaxSessions = 1
  LongReplies = {}
  Unanswered = {}
  Malformed = {}
  Uncounted = {}
  Window = 2
  MaxLost = 0
  Concurrent = {}
  Restarts = {}
  ReadAcknowledges = TRUE
SPECIFICATION FairSpec
PROPERTY EveryRequestAnswered
