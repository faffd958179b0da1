------------------------------ MODULE RateLimit ------------------------------
(***************************************************************************)
(* The table of rate_limit_allow, which start_server asks once per         *)
(* accepted connection: a fixed number of entries, each with the stamps of *)
(* the requests it let through lately, over one life of the process and    *)
(* the wall clock that time() reads.                                       *)
(*                                                                         *)
(* One thread calls it, so a call is one action. The array of stamps is a  *)
(* set, since only the number and the age of its elements matter; equal    *)
(* times are told apart by the serial number of their call.                *)
(***************************************************************************)
EXTENDS Integers, FiniteSets

CONSTANTS
  Ips,            \* the addresses inet_ntop makes of the peers
  NoIp,           \* the ip of an entry that is not active
  MaxEntries,     \* MAX_RATE_LIMIT_ENTRIES
  Window,         \* RATE_LIMIT_WINDOW_SECONDS
  MaxRequests,    \* RATE_LIMIT_MAX_REQUESTS
  MaxTime,        \* bound: the last second
  MaxCalls        \* bound: calls of rate_limit_allow

ASSUME IpAssumption == IsFiniteSet(Ips) /\ NoIp \notin Ips
ASSUME TableAssumption ==
  MaxEntries \in Nat \ {0} /\ Window \in Nat /\ MaxRequests \in Nat \ {0}
ASSUME BoundAssumption == MaxTime \in Nat /\ MaxCalls \in Nat

VARIABLES
  entries,    \* the table
  now,        \* what time() returns, in seconds; never 0
  set_back,   \* history: the clock has been set back
  serial,     \* bound counter and name: calls so far
  called,     \* history: the calls of each address
  granted     \* history: those that were let through

vars == <<entries, now, set_back, serial, called, granted>>

Slots == 1..MaxEntries

Stamp == [at : Nat \ {0}, serial : Nat \ {0}]

(* active is ip # NoIp; count is the number of stamps. *)
Entry == [ip : Ips \cup {NoIp}, timestamps : SUBSET Stamp, last_seen : Nat]

EmptyEntry(ip) == [ip |-> ip, timestamps |-> {}, last_seen |-> 0]

-----------------------------------------------------------------------------
IsFirst(i, S) == i \in S /\ \A j \in S : i <= j

Holding(ip) == {i \in Slots : entries[i].ip = ip}

Oldest ==
  {i \in Slots : \A j \in Slots : entries[i].last_seen <= entries[j].last_seen}

(* Mutant: a free slot is taken before the address is looked for. *)
FreeSlotFirst(ip, i) ==
  IF Holding(NoIp) # {} THEN IsFirst(i, Holding(NoIp))
  ELSE IF Holding(ip) # {} THEN IsFirst(i, Holding(ip))
  ELSE IsFirst(i, Oldest)

(* Mutant: a full table gives away its first slot, whatever it holds. *)
FirstSlotEvicted(ip, i) ==
  IF Holding(ip) # {} THEN IsFirst(i, Holding(ip))
  ELSE IF Holding(NoIp) # {} THEN IsFirst(i, Holding(NoIp))
  ELSE i = 1

(* find_entry_index(ip) = i: the entry of ip, else the first free one,     *)
(* else the first of those not seen for longest.                           *)
FindEntryIndex(ip, i) ==
  IF Holding(ip) # {} THEN IsFirst(i, Holding(ip))
  ELSE IF Holding(NoIp) # {} THEN IsFirst(i, Holding(NoIp))
  ELSE IsFirst(i, Oldest)

(* Mutant: the entry of another address is taken over without the memset. *)
TakenOverDirty(ip, e) == [e EXCEPT !.ip = ip]

(* The memset of an entry that was free or another address's. *)
TakenOver(ip, e) == IF e.ip = ip THEN e ELSE EmptyEntry(ip)

PruneEntry(e) ==
  [e EXCEPT !.timestamps = {s \in @ : now - s.at <= Window}]

-----------------------------------------------------------------------------
Init ==
  /\ entries = [i \in Slots |-> EmptyEntry(NoIp)]
  /\ now = 1 /\ serial = 0 /\ set_back = FALSE
  /\ called = [ip \in Ips |-> {}]
  /\ granted = [ip \in Ips |-> {}]

Allow(ip, i, e, s) ==
  /\ Cardinality(e.timestamps) < MaxRequests
  /\ entries' = [entries EXCEPT ![i] =
       [e EXCEPT !.timestamps = @ \cup {s}, !.last_seen = now]]
  /\ granted' = [granted EXCEPT ![ip] = @ \cup {s}]

Refuse(i, e) ==
  /\ Cardinality(e.timestamps) >= MaxRequests
  /\ entries' = [entries EXCEPT ![i] = [e EXCEPT !.last_seen = now]]
  /\ UNCHANGED granted

RateLimitAllow(ip) ==
  /\ serial < MaxCalls
  /\ serial' = serial + 1
  /\ LET s == [at |-> now, serial |-> serial']
     IN  /\ called' = [called EXCEPT ![ip] = @ \cup {s}]
         /\ \E i \in Slots :
              /\ FindEntryIndex(ip, i)
              /\ LET e == PruneEntry(TakenOver(ip, entries[i]))
                 IN  Allow(ip, i, e, s) \/ Refuse(i, e)
  /\ UNCHANGED <<now, set_back>>

TimePasses ==
  /\ now < MaxTime
  /\ now' = now + 1
  /\ UNCHANGED <<entries, set_back, serial, called, granted>>

(* The operator or a time service corrects a clock that was ahead. *)
ClockIsSetBack ==
  /\ now' \in 1..(now - 1)
  /\ set_back' = TRUE
  /\ UNCHANGED <<entries, serial, called, granted>>

Next ==
  \/ \E ip \in Ips : RateLimitAllow(ip)
  \/ TimePasses
  \/ ClockIsSetBack

Spec == Init /\ [][Next]_vars

-----------------------------------------------------------------------------
(* Properties. *)

TypeOK ==
  /\ entries \in [Slots -> Entry]
  /\ now \in Nat \ {0} /\ serial \in Nat /\ set_back \in BOOLEAN
  /\ called \in [Ips -> SUBSET Stamp]
  /\ granted \in [Ips -> SUBSET Stamp]

(* No address has two entries, so no address has two budgets: the free     *)
(* slots and evictions never leave a second entry behind.                  *)
OneEntryPerIp ==
  \A i, j \in Slots :
    entries[i].ip = entries[j].ip /\ entries[i].ip # NoIp => i = j

Grounds(ip, r) ==
  {g \in granted[ip] : g.serial < r.serial /\ r.at - g.at <= Window}

(* A refused request is its own address's doing: that address was let      *)
(* through MaxRequests times, at stamps not older than the window.         *)
(* Refused requests count for nothing, and neither do the requests of the  *)
(* address that had the entry before; set-back clocks included.            *)
RefusalJustified ==
  \A ip \in Ips : \A r \in called[ip] \ granted[ip] :
    Cardinality(Grounds(ip, r)) >= MaxRequests

Between(s, from, to) == from <= s.at /\ s.at <= to

GrantedIn(ip, t) == {g \in granted[ip] : Between(g, t, t + Window)}

OthersCalling(ip, from, to) ==
  {o \in Ips \ {ip} : \E s \in called[o] : Between(s, from, to)}

Crowded(ip, from, to) ==
  Cardinality(OthersCalling(ip, from, to)) >= MaxEntries

Bounded ==
  \A ip \in Ips, t \in 0..now :
    \/ Cardinality(GrantedIn(ip, t)) <= MaxRequests
    \/ Crowded(ip, t, t + Window)

(* The limit: in any window an address is let through at most MaxRequests  *)
(* times, unless as many other addresses as the table has entries called   *)
(* in that same window. Holds until the clock is set back.                 *)
WindowBound == ~ set_back => Bounded

-----------------------------------------------------------------------------
(* The inductive invariant. RateLimitProofs proves it.                     *)

(* The histories: finite, named by serial numbers, not from the future.    *)
Ledger ==
  \A ip \in Ips :
    /\ IsFiniteSet(called[ip]) /\ granted[ip] \subseteq called[ip]
    /\ \A s \in called[ip] : s.serial <= serial

(* An entry holds requests its address was granted, and nothing else.      *)
OwnStamps ==
  \A i \in Slots : entries[i].ip \in Ips =>
    entries[i].timestamps \subseteq granted[entries[i].ip]

(* last_seen is the time of the last call of the entry's address.          *)
SeenLast ==
  /\ \A ip \in Ips : \A s \in called[ip] : s.at <= now
  /\ \A i \in Slots : entries[i].ip \in Ips =>
       /\ \E s \in called[entries[i].ip] : s.at = entries[i].last_seen
       /\ \A s \in entries[i].timestamps : s.at <= entries[i].last_seen

(* A granted request of the last window is still in the table, unless as   *)
(* many other addresses as there are entries have called since.            *)
Remembered ==
  \A ip \in Ips : \A g \in granted[ip] :
    now - g.at <= Window =>
      \/ \E i \in Slots : entries[i].ip = ip /\ g \in entries[i].timestamps
      \/ Crowded(ip, g.at, now)

Forward == SeenLast /\ Remembered /\ Bounded

(* The state invariant of the limiter. *)
IInv ==
  /\ TypeOK /\ OneEntryPerIp /\ Ledger /\ OwnStamps /\ RefusalJustified
  /\ ~ set_back => Forward

=============================================================================
