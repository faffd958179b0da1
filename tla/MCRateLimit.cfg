\* More addresses than entries, and a clock that may be set back.
SPECIFICATION Spec
CONSTANTS
  Ips = {ip1, ip2, ip3}
  NoIp = NoIp
  MaxEntries = 2
  Window = 2
  MaxRequests = 2
  MaxTime = 4
  MaxCalls = 6
SYMMETRY IpSymmetry
INVARIANT OneEntryPerIp
INVARIANT RefusalJustified
INVARIANT WindowBound
CHECK_DEADLOCK FALSE
