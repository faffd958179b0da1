\* A full ring, and buffers that some of its lines overflow.
SPECIFICATION FairSpec
CONSTANTS
  w1 = w1
  w2 = w2
  short = short
  long = long
  Writers <- Threads
  Terminal = Terminal
  NoThread = NoThread
  Lines = {short, long}
  NoLine = NoLine
  Length <- LineLength
  MaxLogs = 3
  TextSize = 8
  HeaderLength = 3
  MaxAdds = 5
INVARIANT RingIsLog
INVARIANT ShownIsLog
PROPERTY MutexReleased
CHECK_DEADLOCK FALSE
