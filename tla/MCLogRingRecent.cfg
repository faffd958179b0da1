SPECIFICATION Spec
CONSTANTS
  w1 = w1
  w2 = w2
  short = short
  long = long
  Writers <- Threads
  Terminal = Terminal
  NoThread = NoThread
  Lines = {short, long}
  NoLine = NoLine
  Length <- LineLength
  MaxLogs = 3
  TextSize = 8
  HeaderLength = 3
  MaxAdds = 6
SYMMETRY WriterSymmetry
INVARIANT RecentShown
CHECK_DEADLOCK FALSE
