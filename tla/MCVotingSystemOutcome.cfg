CONSTANTS
  A = A
  c1 = c1
  r1 = r1
  v1 = v1
  x = x
  Conns = {c1}
  VoterIds = {v1, x}
  Roll = {v1}
  Candidates = {A}
  Receipts = {r1}
  Malformed = Malformed
  NoReceipt = NoReceipt
  NoConn = NoConn
  DbMayFail = TRUE
  MaxMsgs = 1
  MaxStarts = 2
  BadEntry = BadEntry
  NoEntry = NoEntry
  NoResponse = NoResponse

SPECIFICATION FairSystemSpec
PROPERTY ChoiceGetsOutcome
PROPERTY EndedRunReleased

\* A process may end and not be started again.
CHECK_DEADLOCK FALSE
