CONSTANTS
  A = A
  c1 = c1
  c2 = c2
  r1 = r1
  v1 = v1
  x = x
  Conns = {c1, c2}
  VoterIds = {v1, x}
  Roll = {v1}
  Candidates = {A}
  Receipts = {r1}
  Malformed = Malformed
  NoReceipt = NoReceipt
  NoConn = NoConn
  Network = Network
  MaxLines = 6
  DbMayFail = FALSE
  MaxMsgs = 1
  MaxStarts = 2

SPECIFICATION FairAuditSpec
PROPERTY CountedIsLogged
PROPERTY EveryMessageAnswered
PROPERTY HangupReleases
INVARIANT LogIsStory
INVARIANT RegisteredInTable
INVARIANT ClientsInLog
INVARIANT ConnectionHolds
INVARIANT ServiceHolds
INVARIANT NackHonest
INVARIANT CounterAccounting

\* A process may end and not be started again.
CHECK_DEADLOCK FALSE
