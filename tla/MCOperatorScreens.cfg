CONSTANTS
  A = A
  c1 = c1
  r1 = r1
  v1 = v1
  v2 = v2
  right = right
  wrong = wrong
  Conns = {c1}
  VoterIds = {v1, v2}
  Roll = {v1, v2}
  Candidates = {A}
  Receipts = {r1}
  Malformed = Malformed
  NoReceipt = NoReceipt
  NoConn = NoConn
  DbMayFail = FALSE
  MaxMsgs = 2
  MaxStarts = 2
  Passwords = {right, wrong}
  AdminPasswords = {right, NoPassword}
  NoPassword = NoPassword

SPECIFICATION FairScreenSpec
INVARIANT CountersAgree
INVARIANT ResultsAreTally
PROPERTY VotesNeverDrop
PROPERTY VotesReachDashboard

\* A process may end and not be started again.
CHECK_DEADLOCK FALSE
