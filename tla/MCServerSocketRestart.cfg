CONSTANTS
  A = A
  B = B
  c1 = c1
  c2 = c2
  r1 = r1
  r2 = r2
  v1 = v1
  v2 = v2
  x = x
  Conns = {c1, c2}
  VoterIds = {v1, v2, x}
  Roll = {v1, v2}
  Candidates = {A, B}
  Receipts = {r1, r2}
  Malformed = Malformed
  NoReceipt = NoReceipt
  NoConn = NoConn
  DbMayFail = TRUE
  MaxMsgs = 1
  MaxStarts = 2

SPECIFICATION Spec
SYMMETRY Symmetry
INVARIANT OneBallotPerVoter
INVARIANT AckOncePerVoter
INVARIANT AckRecorded
INVARIANT RecordedAnswered
INVARIANT TotalVotesExact
INVARIANT IInv
PROPERTY TablesOnlyGrow
PROPERTY ImplementsBallotBox

\* The process may end and not be started again.
CHECK_DEADLOCK FALSE
