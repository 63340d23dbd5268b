\* Liveness of the tab and of the slots: the stream and one more connection.
SPECIFICATION Spec
CONSTANTS
  Conns = {c1, c2}
  MaxRequests = 1
  MaxStreams = 1
  Titles = {"x", "y"}
  MaxKeys = 2
  MaxAttempts = 2
PROPERTIES SlotsReturn FormReturns
CHECK_DEADLOCK FALSE
