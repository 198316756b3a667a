SPECIFICATION Spec
CONSTANTS
  Workers = {w1, w2}
  ChannelCap = 1
  BufferCap = 1
  MaxLogs = 3
  MaxEvents = 2
INVARIANTS NothingLost
PROPERTIES AtMostOnce HistoryHandled
CHECK_DEADLOCK FALSE
