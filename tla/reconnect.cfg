SPECIFICATION Spec
CONSTANTS
  Workers = {w1, w2}
  ChannelCap = 1
  BufferCap = 1
  MaxLogs = 1
  MaxEvents = 1

PROPERTIES Reconnects
CHECK_DEADLOCK FALSE
