CONSTANTS
  A = A
  B = B
  c1 = c1
  c2 = c2
  r1 = r1
  r2 = r2
  v1 = v1
  Conns = {c1, c2}
  VoterIds = {v1}
  Roll = {v1}
  Candidates = {A, B}
  Receipts = {r1, r2}
  Malformed = Malformed
  NoReceipt = NoReceipt
  NoConn = NoConn
  DbMayFail = FALSE
  MaxMsgs = 1
  MaxStarts = 2
  BadEntry = BadEntry
  NoEntry = NoEntry
  NoResponse = NoResponse

SPECIFICATION SystemSpec
SYMMETRY Symmetry
INVARIANT BallotsAreChoices
INVARIANT ErrorsAreTrue
INVARIANT ReceiptUnlessLost
PROPERTY ReceiptsAreBallots

\* A process may end and not be started again.
CHECK_DEADLOCK FALSE
