CONSTANTS
  Widths = {4, 8}
  StoreDelay = 2
  DumpLines = 2
  MaxRequests = 3
SPECIFICATION Spec
INVARIANT RequestStaysVisible
