SPECIFICATION RingSpec
CONSTANTS
  RingCapacity = 3
  MaxLines = 7
PROPERTIES PollsFromStart
CHECK_DEADLOCK FALSE
