CONSTANTS
  A = A
  c1 = c1
  c2 = c2
  v1 = v1
  ack = ack
  nack = nack
  Clients = {c1, c2}
  Entries = {v1}
  Candidates = {A}
  Responses = {ack, nack}
  NoResponse = NoResponse
  NoEntry = NoEntry

SPECIFICATION TlsSpec
INVARIANT ClientInv
INVARIANT InnerHeldAsNeeded
INVARIANT SessionChecked
INVARIANT TextAsTold

\* A run that has ended stays so.
CHECK_DEADLOCK FALSE
