CONSTANTS
  A = A
  c1 = c1
  c2 = c2
  r1 = r1
  v1 = v1
  Conns = {c1, c2}
  VoterIds = {v1}
  Roll = {v1}
  Candidates = {A}
  Receipts = {r1}
  Malformed = Malformed
  NoReceipt = NoReceipt
  NoConn = NoConn
  DbMayFail = FALSE
  MaxMsgs = 1
  MaxStarts = 1

SPECIFICATION Spec
INVARIANT ActiveThreadsExact

\* The process may end and not be started again.
CHECK_DEADLOCK FALSE
