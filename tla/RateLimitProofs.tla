--------------------------- MODULE RateLimitProofs ---------------------------
(* The theorems about the rate limiter: no address is let through more     *)
(* often than the limit says unless the table is overrun, and no address   *)
(* is refused but for its own requests.                                    *)
EXTENDS RateLimit, FiniteSetTheorems, TLAPS

-----------------------------------------------------------------------------
(* What a call does, in one piece. *)

NewStamp == [at |-> now, serial |-> serial + 1]

(* The stamps a call for ip finds in entry i, after memset and pruning. *)
Kept(ip, i) ==
  {s \in entries[i].timestamps : entries[i].ip = ip /\ now - s.at <= Window}

EntryAfter(ip, T) == [ip |-> ip, timestamps |-> T, last_seen |-> now]

Granting(ip, i) ==
  /\ Cardinality(Kept(ip, i)) < MaxRequests
  /\ entries' =
       [entries EXCEPT ![i] = EntryAfter(ip, Kept(ip, i) \cup {NewStamp})]
  /\ granted' = [granted EXCEPT ![ip] = @ \cup {NewStamp}]

Refusing(ip, i) ==
  /\ Cardinality(Kept(ip, i)) >= MaxRequests
  /\ entries' = [entries EXCEPT ![i] = EntryAfter(ip, Kept(ip, i))]
  /\ granted' = granted

Call(ip, i) ==
  /\ now' = now /\ set_back' = set_back /\ serial' = serial + 1
  /\ called' = [called EXCEPT ![ip] = @ \cup {NewStamp}]
  /\ FindEntryIndex(ip, i)
  /\ Granting(ip, i) \/ Refusing(ip, i)

LEMMA CallEffect ==
  ASSUME TypeOK, NEW ip \in Ips, RateLimitAllow(ip)
  PROVE  \E i \in Slots : Call(ip, i)
<1> DEFINE s == [at |-> now, serial |-> serial']
           E(i) == PruneEntry(TakenOver(ip, entries[i]))
<1>1. /\ now' = now /\ set_back' = set_back /\ serial' = serial + 1
      /\ called' = [called EXCEPT ![ip] = @ \cup {s}]
  BY DEF RateLimitAllow
<1>2. s = NewStamp
  BY <1>1 DEF NewStamp
<1>3. PICK i \in Slots : FindEntryIndex(ip, i) /\ (Allow(ip, i, E(i), s) \/ Refuse(i, E(i)))
  BY DEF RateLimitAllow
<1>4. entries[i] \in Entry
  BY DEF TypeOK
<1>5. E(i) = [ip |-> ip, timestamps |-> Kept(ip, i),
              last_seen |-> IF entries[i].ip = ip THEN entries[i].last_seen ELSE 0]
  <2>1. CASE entries[i].ip = ip
    <3>1. Kept(ip, i) = {t \in entries[i].timestamps : now - t.at <= Window}
      BY <2>1 DEF Kept
    <3>2. E(i) = [entries[i] EXCEPT !.timestamps = {t \in @ : now - t.at <= Window}]
      BY <2>1 DEF PruneEntry, TakenOver
    <3> QED
      BY <1>4, <2>1, <3>1, <3>2 DEF Entry
  <2>2. CASE entries[i].ip # ip
    <3>1. Kept(ip, i) = {}
      BY <2>2 DEF Kept
    <3>2. E(i) = [EmptyEntry(ip) EXCEPT !.timestamps = {t \in @ : now - t.at <= Window}]
      BY <2>2 DEF PruneEntry, TakenOver
    <3> QED
      BY <2>2, <3>1, <3>2 DEF EmptyEntry
  <2> QED
    BY <2>1, <2>2
<1> DEFINE F == E(i)
           seen == IF entries[i].ip = ip THEN entries[i].last_seen ELSE 0
<1>6. /\ F = [ip |-> ip, timestamps |-> Kept(ip, i), last_seen |-> seen]
      /\ F.timestamps = Kept(ip, i)
  BY <1>5
<1>7. Allow(ip, i, F, NewStamp) \/ Refuse(i, F)
  BY <1>2, <1>3
<1> HIDE DEF F, seen, E, s
<1>8. ASSUME NEW T
      PROVE  [F EXCEPT !.timestamps = T, !.last_seen = now] = EntryAfter(ip, T)
  <2> DEFINE G == [F EXCEPT !.timestamps = T]
  <2>1. G = [ip |-> ip, timestamps |-> T, last_seen |-> seen]
    BY <1>6
  <2> HIDE DEF G
  <2>2. [G EXCEPT !.last_seen = now] = EntryAfter(ip, T)
    BY <2>1 DEF EntryAfter
  <2> QED
    BY <2>2 DEF G
<1>9. [F EXCEPT !.last_seen = now] = EntryAfter(ip, Kept(ip, i))
  BY <1>6 DEF EntryAfter
<1>10. Allow(ip, i, F, NewStamp) => Granting(ip, i)
  <2>1. [F EXCEPT !.timestamps = @ \cup {NewStamp}, !.last_seen = now]
          = EntryAfter(ip, Kept(ip, i) \cup {NewStamp})
    BY <1>6, <1>8
  <2> QED
    BY <1>6, <2>1 DEF Allow, Granting
<1>11. Refuse(i, F) => Refusing(ip, i)
  BY <1>6, <1>9 DEF Refuse, Refusing
<1>12. called' = [called EXCEPT ![ip] = @ \cup {NewStamp}]
  BY <1>1, <1>2
<1>13. FindEntryIndex(ip, i) /\ (Granting(ip, i) \/ Refusing(ip, i))
  BY <1>3, <1>7, <1>10, <1>11
<1> QED
  BY <1>1, <1>12, <1>13 DEF Call

(* The entries and histories after a call. *)
LEMMA CallAfter ==
  ASSUME TypeOK, NEW ip \in Ips, NEW i \in Slots, Call(ip, i)
  PROVE  /\ \A j \in Slots \ {i} : entries'[j] = entries[j]
         /\ entries'[i].ip = ip /\ entries'[i].last_seen = now
         /\ \A o \in Ips \ {ip} :
              called'[o] = called[o] /\ granted'[o] = granted[o]
         /\ called'[ip] = called[ip] \cup {NewStamp}
         /\ \/ /\ Cardinality(Kept(ip, i)) < MaxRequests
               /\ entries'[i].timestamps = Kept(ip, i) \cup {NewStamp}
               /\ granted'[ip] = granted[ip] \cup {NewStamp}
            \/ /\ Cardinality(Kept(ip, i)) >= MaxRequests
               /\ entries'[i].timestamps = Kept(ip, i)
               /\ granted'[ip] = granted[ip]
<1>1. /\ DOMAIN entries = Slots /\ DOMAIN called = Ips /\ DOMAIN granted = Ips
  BY DEF TypeOK
<1>2. /\ called'[ip] = called[ip] \cup {NewStamp}
      /\ \A o \in Ips \ {ip} : called'[o] = called[o]
  BY <1>1 DEF Call
<1>3. CASE Granting(ip, i)
  BY <1>1, <1>2, <1>3 DEF Granting, EntryAfter
<1>4. CASE Refusing(ip, i)
  BY <1>1, <1>2, <1>4 DEF Refusing, EntryAfter
<1> QED
  BY <1>3, <1>4 DEF Call

LEMMA CallTypes ==
  ASSUME TypeOK, NEW ip \in Ips, NEW i \in Slots, Call(ip, i)
  PROVE  TypeOK'
<1>1. NewStamp \in Stamp
  BY DEF NewStamp, TypeOK, Stamp
<1>2. now' \in Nat \ {0} /\ serial' \in Nat /\ set_back' \in BOOLEAN
  BY DEF Call, TypeOK
<1>3. called' \in [Ips -> SUBSET Stamp]
  BY <1>1 DEF Call, TypeOK
<1>4. Kept(ip, i) \subseteq Stamp
  BY DEF Kept, TypeOK, Entry
<1>5. ASSUME NEW T \in SUBSET Stamp
      PROVE  [entries EXCEPT ![i] = EntryAfter(ip, T)] \in [Slots -> Entry]
  <2>1. EntryAfter(ip, T) \in Entry
    BY DEF EntryAfter, Entry, TypeOK
  <2> QED
    BY <2>1 DEF TypeOK
<1>6. entries' \in [Slots -> Entry] /\ granted' \in [Ips -> SUBSET Stamp]
  <2>1. CASE Granting(ip, i)
    BY <1>1, <1>4, <1>5, <2>1 DEF Granting, TypeOK
  <2>2. CASE Refusing(ip, i)
    BY <1>4, <1>5, <2>2 DEF Refusing, TypeOK
  <2> QED
    BY <2>1, <2>2 DEF Call
<1> QED
  BY <1>2, <1>3, <1>6 DEF TypeOK

-----------------------------------------------------------------------------
(* What holds with any clock. *)

LEMMA CallKeepsOneEntry ==
  ASSUME TypeOK, OneEntryPerIp, NEW ip \in Ips, NEW i \in Slots, Call(ip, i)
  PROVE  OneEntryPerIp'
<1>1. ip # NoIp
  BY IpAssumption
<1>2. \A j \in Slots : entries[j].ip = ip => j = i
  BY <1>1 DEF Call, FindEntryIndex, IsFirst, Holding, OneEntryPerIp
<1> QED
  BY <1>1, <1>2, CallAfter DEF OneEntryPerIp

LEMMA CallKeepsLedger ==
  ASSUME TypeOK, Ledger, NEW ip \in Ips, NEW i \in Slots, Call(ip, i)
  PROVE  Ledger'
<1> SUFFICES ASSUME NEW o \in Ips
             PROVE  /\ IsFiniteSet(called'[o]) /\ granted'[o] \subseteq called'[o]
                    /\ \A s \in called'[o] : s.serial <= serial'
  BY DEF Ledger
<1>1. /\ IsFiniteSet(called[o]) /\ granted[o] \subseteq called[o]
      /\ \A s \in called[o] : s.serial <= serial
      /\ called[o] \subseteq Stamp /\ serial \in Nat /\ serial' = serial + 1
  BY DEF Ledger, TypeOK, Call
<1>2. \A s \in called[o] : s.serial <= serial'
  BY <1>1 DEF Stamp
<1>3. CASE o # ip
  BY <1>1, <1>2, <1>3, CallAfter
<1>4. CASE o = ip
  <2>1. IsFiniteSet(called'[o])
    BY <1>1, <1>4, CallAfter, FS_AddElement
  <2>2. granted'[o] \subseteq called'[o]
    BY <1>1, <1>4, CallAfter
  <2>3. NewStamp.serial <= serial'
    BY <1>1 DEF NewStamp
  <2> QED
    BY <1>2, <1>4, <2>1, <2>2, <2>3, CallAfter
<1> QED
  BY <1>3, <1>4

LEMMA CallKeepsOwnStamps ==
  ASSUME TypeOK, OwnStamps, NEW ip \in Ips, NEW i \in Slots, Call(ip, i)
  PROVE  OwnStamps'
<1>1. Kept(ip, i) \subseteq granted[ip]
  BY DEF Kept, OwnStamps
<1>2. \A o \in Ips : granted[o] \subseteq granted'[o]
  BY CallAfter
<1>3. entries'[i].timestamps \subseteq granted'[ip]
  BY <1>1, CallAfter
<1> QED
  BY <1>2, <1>3, CallAfter DEF OwnStamps

LEMMA CallKeepsRefusals ==
  ASSUME TypeOK, Ledger, Ledger', OwnStamps, RefusalJustified,
         NEW ip \in Ips, NEW i \in Slots, Call(ip, i)
  PROVE  RefusalJustified'
<1> SUFFICES ASSUME NEW o \in Ips, NEW r \in called'[o] \ granted'[o]
             PROVE  Cardinality(Grounds(o, r)') >= MaxRequests
  BY DEF RefusalJustified
<1>1. IsFiniteSet(Grounds(o, r)')
  <2>1. IsFiniteSet(called'[o]) /\ Grounds(o, r)' \subseteq called'[o]
    BY DEF Ledger, Grounds
  <2> QED
    BY <2>1, FS_Subset
<1>2. ASSUME NEW S \in SUBSET Grounds(o, r)', Cardinality(S) >= MaxRequests
      PROVE  Cardinality(Grounds(o, r)') >= MaxRequests
  <2>1. /\ Cardinality(S) <= Cardinality(Grounds(o, r)')
        /\ IsFiniteSet(S)
    BY <1>1, FS_Subset
  <2>2. Cardinality(S) \in Nat /\ Cardinality(Grounds(o, r)') \in Nat
    BY <1>1, <2>1, FS_CardinalityType
  <2> QED
    BY <1>2, <2>1, <2>2, TableAssumption
<1>3. granted[o] \subseteq granted'[o]
  BY CallAfter
<1>4. CASE r \in called[o]
  <2>1. Cardinality(Grounds(o, r)) >= MaxRequests
    BY <1>3, <1>4 DEF RefusalJustified
  <2>2. Grounds(o, r) \subseteq Grounds(o, r)'
    BY <1>3 DEF Grounds
  <2> QED
    BY <1>2, <2>1, <2>2
<1>5. CASE r \notin called[o]
  <2>1. o = ip /\ r = NewStamp
    BY <1>5, CallAfter
  <2>2. Cardinality(Kept(ip, i)) >= MaxRequests /\ granted'[ip] = granted[ip]
    BY <2>1, CallAfter
  <2>3. ASSUME NEW g \in Kept(ip, i)
        PROVE  g \in Grounds(o, r)'
    <3>1. g \in granted[ip] /\ g \in called[ip] /\ now - g.at <= Window
      BY DEF Kept, OwnStamps, Ledger
    <3>2. g.serial <= serial /\ g \in Stamp /\ serial \in Nat
      BY <3>1 DEF Ledger, TypeOK
    <3>3. g.serial < r.serial /\ r.at - g.at <= Window
      BY <2>1, <3>1, <3>2 DEF NewStamp, Stamp
    <3> QED
      BY <2>1, <2>2, <3>1, <3>3 DEF Grounds
  <2>4. Kept(ip, i) \subseteq Grounds(o, r)'
    BY <2>3
  <2> QED
    BY <1>2, <2>2, <2>4
<1> QED
  BY <1>4, <1>5

-----------------------------------------------------------------------------
(* What holds while the clock goes forward. *)

LEMMA CrowdGrows ==
  ASSUME NEW ip \in Ips, NEW from \in Int, NEW to \in Int,
         NEW from2 \in Int, NEW to2 \in Int, from2 <= from, to <= to2,
         TypeOK, \A o \in Ips : called[o] \subseteq called'[o],
         Crowded(ip, from, to)
  PROVE  Crowded(ip, from2, to2)'
<1> DEFINE S == OthersCalling(ip, from, to)
           T == OthersCalling(ip, from2, to2)'
<1>1. S \subseteq T
  BY DEF OthersCalling, Between, TypeOK, Stamp
<1>2. T \subseteq Ips /\ IsFiniteSet(T)
  <2>1. T \subseteq Ips
    BY DEF OthersCalling
  <2> QED
    BY <2>1, IpAssumption, FS_Subset
<1>3. /\ Cardinality(S) <= Cardinality(T)
      /\ IsFiniteSet(S)
  BY <1>1, <1>2, FS_Subset
<1>4. Cardinality(S) \in Nat /\ Cardinality(T) \in Nat
  BY <1>2, <1>3, FS_CardinalityType
<1>5. Cardinality(S) >= MaxEntries
  BY DEF Crowded
<1>6. Cardinality(T) >= MaxEntries
  <2> HIDE DEF S, T
  <2> QED
    BY <1>3, <1>4, <1>5, TableAssumption
<1> QED
  BY <1>6 DEF Crowded

LEMMA CallKeepsSeenLast ==
  ASSUME TypeOK, SeenLast, NEW ip \in Ips, NEW i \in Slots, Call(ip, i)
  PROVE  SeenLast'
<1>1. NewStamp.at = now /\ now' = now /\ now \in Nat
  BY DEF NewStamp, Call, TypeOK
<1>2. \A o \in Ips : \A s \in called'[o] : s.at <= now'
  BY <1>1, CallAfter DEF SeenLast
<1>3. ASSUME NEW j \in Slots, entries'[j].ip \in Ips
      PROVE  /\ \E s \in called'[entries'[j].ip] : s.at = entries'[j].last_seen
             /\ \A s \in entries'[j].timestamps : s.at <= entries'[j].last_seen
  <2>1. CASE j # i
    <3>1. entries'[j] = entries[j]
      BY <2>1, CallAfter
    <3>2. \A o \in Ips : called[o] \subseteq called'[o]
      BY CallAfter
    <3> QED
      BY <1>3, <3>1, <3>2 DEF SeenLast
  <2>2. CASE j = i
    <3>1. entries'[j].ip = ip /\ entries'[j].last_seen = now
      BY <2>2, CallAfter
    <3>2. NewStamp \in called'[ip]
      BY CallAfter
    <3>3. \A s \in Kept(ip, i) : s.at <= now
      <4>1. \A s \in Kept(ip, i) : s.at <= entries[i].last_seen /\ s.at \in Nat
        BY DEF Kept, SeenLast, TypeOK, Entry, Stamp
      <4>2. Kept(ip, i) # {} => entries[i].last_seen <= now
        BY DEF Kept, SeenLast
      <4>3. entries[i].last_seen \in Nat
        BY DEF TypeOK, Entry
      <4> QED
        BY <1>1, <4>1, <4>2, <4>3
    <3>4. entries'[j].timestamps \subseteq Kept(ip, i) \cup {NewStamp}
      BY <2>2, CallAfter
    <3> QED
      BY <1>1, <3>1, <3>2, <3>3, <3>4
  <2> QED
    BY <2>1, <2>2
<1> QED
  BY <1>2, <1>3 DEF SeenLast

(* An address loses its entry only when as many others as there are        *)
(* entries have called since it was last let through.                      *)
LEMMA TableOverrun ==
  ASSUME TypeOK, OneEntryPerIp, SeenLast,
         NEW ip \in Ips, NEW i \in Slots, Call(ip, i),
         NEW a \in Ips \ {ip}, entries[i].ip = a,
         NEW g \in entries[i].timestamps, NEW n \in Nat, n = now
  PROVE  Crowded(a, g.at, n)'
<1> DEFINE T == OthersCalling(a, g.at, n)'
           f == [j \in Slots |-> IF j = i THEN ip ELSE entries[j].ip]
<1>1. Holding(ip) = {} /\ Holding(NoIp) = {} /\ i \in Oldest
  BY IpAssumption DEF Call, FindEntryIndex, IsFirst, Holding
<1>2. \A j \in Slots : entries[j].ip \in Ips \ {ip}
  BY <1>1 DEF Holding, TypeOK, Entry
<1>3. g.at \in Nat /\ g.at <= entries[i].last_seen
  BY DEF SeenLast, TypeOK, Entry, Stamp
<1>4. \A j \in Slots : entries[j].last_seen \in Nat /\ g.at <= entries[j].last_seen
  <2>1. \A j \in Slots : entries[j].last_seen \in Nat
    BY DEF TypeOK, Entry
  <2>2. \A j \in Slots : entries[i].last_seen <= entries[j].last_seen
    BY <1>1 DEF Oldest
  <2> QED
    BY <1>3, <2>1, <2>2
<1>5. ASSUME NEW j \in Slots, j # i
      PROVE  entries[j].ip \in T
  <2> DEFINE o == entries[j].ip
  <2>1. o \in Ips /\ o # a /\ o # ip
    BY <1>2, <1>5, IpAssumption DEF OneEntryPerIp
  <2>2. PICK s \in called[o] : s.at = entries[j].last_seen
    BY <2>1 DEF SeenLast
  <2>3. s.at <= n /\ g.at <= s.at
    BY <1>4, <2>1, <2>2 DEF SeenLast
  <2>4. s \in called'[o]
    BY <2>1, <2>2, CallAfter
  <2> QED
    BY <2>1, <2>3, <2>4 DEF OthersCalling, Between
<1>6. ip \in T
  <2>1. g.at <= n
    BY <1>2, <1>3, <1>4 DEF SeenLast
  <2>2. NewStamp \in called'[ip] /\ NewStamp.at = n
    BY CallAfter DEF NewStamp
  <2> QED
    BY <2>1, <2>2 DEF OthersCalling, Between
<1>7. f \in [Slots -> T]
  BY <1>5, <1>6
<1>8. \A x, y \in Slots : f[x] = f[y] => x = y
  BY <1>2, IpAssumption DEF OneEntryPerIp
<1>9. IsFiniteSet(T)
  <2>1. T \subseteq Ips
    BY DEF OthersCalling
  <2> QED
    BY <2>1, IpAssumption, FS_Subset
<1>10. IsFiniteSet(Slots) /\ Cardinality(Slots) = MaxEntries
  BY TableAssumption, FS_Interval DEF Slots
<1>11. ~ (Cardinality(T) < Cardinality(Slots))
  <2> HIDE DEF T, f
  <2> QED
    BY <1>7, <1>8, <1>9, <1>10, FS_PigeonHole
<1>12. Cardinality(T) \in Nat
  BY <1>9, FS_CardinalityType
<1>13. Cardinality(T) >= MaxEntries
  <2> HIDE DEF T
  <2> QED
    BY <1>10, <1>11, <1>12, TableAssumption
<1> QED
  BY <1>13 DEF Crowded

LEMMA CallKeepsRemembered ==
  ASSUME TypeOK, OneEntryPerIp, SeenLast, Remembered,
         NEW ip \in Ips, NEW i \in Slots, Call(ip, i)
  PROVE  Remembered'
<1>1. PICK n \in Nat : n = now
  BY DEF TypeOK
<1>2. now' = n
  BY <1>1 DEF Call
<1> SUFFICES ASSUME NEW o \in Ips, NEW g \in granted'[o], n - g.at <= Window
             PROVE  \/ \E j \in Slots :
                         entries'[j].ip = o /\ g \in entries'[j].timestamps
                    \/ Crowded(o, g.at, n)'
  BY <1>2 DEF Remembered
<1>3. CASE g \notin granted[o]
  BY <1>3, CallAfter
<1>4. CASE g \in granted[o]
  <2>1. g.at \in Int /\ now - g.at <= Window
    BY <1>1, <1>4 DEF TypeOK, Stamp
  <2>2. CASE Crowded(o, g.at, n)
    <3>1. \A x \in Ips : called[x] \subseteq called'[x]
      BY CallAfter
    <3>2. n \in Int /\ n <= n /\ g.at <= g.at
      BY <2>1
    <3>3. Crowded(o, g.at, n)'
      BY <2>1, <2>2, <3>1, <3>2, CrowdGrows
    <3> QED
      BY <3>3
  <2>3. ASSUME NEW j \in Slots, entries[j].ip = o, g \in entries[j].timestamps
        PROVE  \/ \E k \in Slots :
                     entries'[k].ip = o /\ g \in entries'[k].timestamps
               \/ Crowded(o, g.at, n)'
    <3>1. CASE j # i
      BY <2>3, <3>1, CallAfter
    <3>2. CASE j = i /\ o = ip
      <4>1. g \in Kept(ip, i)
        BY <2>1, <2>3, <3>2 DEF Kept
      <4> QED
        BY <3>2, <4>1, CallAfter
    <3>3. CASE j = i /\ o # ip
      BY <1>1, <2>3, <3>3, TableOverrun
    <3> QED
      BY <3>1, <3>2, <3>3
  <2> QED
    BY <1>1, <1>4, <2>1, <2>2, <2>3 DEF Remembered
<1> QED
  BY <1>3, <1>4

LEMMA CallKeepsBounded ==
  ASSUME TypeOK, OneEntryPerIp, Ledger, OwnStamps, SeenLast, Remembered,
         Bounded, NEW ip \in Ips, NEW i \in Slots, Call(ip, i)
  PROVE  Bounded'
<1>1. PICK n \in Nat : n = now
  BY DEF TypeOK
<1>2. now' = n
  BY <1>1 DEF Call
<1> SUFFICES ASSUME NEW o \in Ips, NEW t \in 0..n
             PROVE  \/ Cardinality(GrantedIn(o, t)') <= MaxRequests
                    \/ Crowded(o, t, t + Window)'
  BY <1>2 DEF Bounded
<1>3. \A x \in Ips : called[x] \subseteq called'[x]
  BY CallAfter
<1>4. Window \in Nat /\ t \in Int /\ t + Window \in Int /\ t <= n
  BY TableAssumption
<1>5. Cardinality(GrantedIn(o, t)) <= MaxRequests \/ Crowded(o, t, t + Window)
  BY <1>1 DEF Bounded
<1>6. CASE GrantedIn(o, t)' = GrantedIn(o, t)
  BY <1>3, <1>4, <1>5, <1>6, CrowdGrows
<1>7. CASE GrantedIn(o, t)' # GrantedIn(o, t)
  <2>1. granted'[o] # granted[o]
    BY <1>7 DEF GrantedIn
  <2>2. /\ o = ip /\ granted'[ip] = granted[ip] \cup {NewStamp}
        /\ Cardinality(Kept(ip, i)) < MaxRequests
    BY <2>1, CallAfter
  <2>3. n <= t + Window
    BY <1>1, <1>4, <1>7, <2>2 DEF GrantedIn, Between, NewStamp
  <2>4. ASSUME NEW g \in GrantedIn(ip, t)
        PROVE  g.at \in Int /\ t <= g.at /\ now - g.at <= Window /\ g \in granted[ip]
    <3>1. g \in granted[ip] /\ t <= g.at /\ g.at \in Int
      BY DEF GrantedIn, Between, TypeOK, Stamp
    <3> QED
      BY <1>1, <1>4, <2>3, <3>1
  <2>5. CASE \E g \in GrantedIn(ip, t) : Crowded(ip, g.at, n)
    BY <1>3, <1>4, <2>2, <2>3, <2>4, <2>5, CrowdGrows
  <2>6. CASE \A g \in GrantedIn(ip, t) : ~ Crowded(ip, g.at, n)
    <3>1. ASSUME NEW g \in GrantedIn(ip, t)
          PROVE  g \in Kept(ip, i)
      <4>1. PICK j \in Slots : entries[j].ip = ip /\ g \in entries[j].timestamps
        BY <1>1, <2>4, <2>6 DEF Remembered
      <4>2. j = i
        BY <4>1, IpAssumption
           DEF Call, FindEntryIndex, IsFirst, Holding, OneEntryPerIp
      <4> QED
        BY <2>4, <4>1, <4>2 DEF Kept
    <3>2. GrantedIn(o, t)' \subseteq Kept(ip, i) \cup {NewStamp}
      BY <2>2, <3>1 DEF GrantedIn
    <3>3. IsFiniteSet(Kept(ip, i))
      <4>1. Kept(ip, i) \subseteq called[ip] /\ IsFiniteSet(called[ip])
        BY DEF Kept, OwnStamps, Ledger
      <4> QED
        BY <4>1, FS_Subset
    <3>4. /\ IsFiniteSet(Kept(ip, i) \cup {NewStamp})
          /\ Cardinality(Kept(ip, i) \cup {NewStamp})
               <= Cardinality(Kept(ip, i)) + 1
      BY <3>3, FS_AddElement, FS_CardinalityType
    <3>5. /\ Cardinality(GrantedIn(o, t)')
               <= Cardinality(Kept(ip, i) \cup {NewStamp})
          /\ IsFiniteSet(GrantedIn(o, t)')
      BY <3>2, <3>4, FS_Subset
    <3>6. /\ Cardinality(GrantedIn(o, t)') \in Nat
          /\ Cardinality(Kept(ip, i) \cup {NewStamp}) \in Nat
          /\ Cardinality(Kept(ip, i)) \in Nat
      BY <3>3, <3>4, <3>5, FS_CardinalityType
    <3>7. Cardinality(GrantedIn(o, t)') <= MaxRequests
      BY <2>2, <3>4, <3>5, <3>6, TableAssumption
    <3> QED
      BY <3>7
  <2> QED
    BY <2>5, <2>6
<1> QED
  BY <1>6, <1>7

-----------------------------------------------------------------------------
(* The clock's steps. *)

LEMMA ClockTypes ==
  ASSUME TypeOK, TimePasses \/ ClockIsSetBack
  PROVE  TypeOK'
<1>1. now' \in Nat \ {0}
  BY DEF TypeOK, TimePasses, ClockIsSetBack
<1>2. set_back' \in BOOLEAN
  BY DEF TypeOK, TimePasses, ClockIsSetBack
<1>3. UNCHANGED <<entries, serial, called, granted>>
  BY DEF TimePasses, ClockIsSetBack
<1> QED
  BY <1>1, <1>2, <1>3, Zenon DEF TypeOK

LEMMA ClockKeepsTable ==
  ASSUME UNCHANGED <<entries, serial, called, granted>>,
         OneEntryPerIp, Ledger, OwnStamps, RefusalJustified
  PROVE  OneEntryPerIp' /\ Ledger' /\ OwnStamps' /\ RefusalJustified'
BY DEF OneEntryPerIp, Ledger, OwnStamps, RefusalJustified, Grounds

LEMMA TimeKeepsForward ==
  ASSUME TypeOK, Ledger, Forward, TimePasses
  PROVE  Forward'
<1>1. PICK n \in Nat : n = now
  BY DEF TypeOK
<1>2. PICK m \in Nat : m = n + 1
  OBVIOUS
<1>3. now' = m /\ UNCHANGED <<entries, serial, called, granted>>
  BY <1>1, <1>2 DEF TimePasses
<1>4. \A o \in Ips : called[o] \subseteq Stamp /\ granted[o] \subseteq called[o]
  BY DEF TypeOK, Ledger
<1>5. \A o \in Ips : \A s \in called[o] : s.at \in Nat /\ s.at <= n
  BY <1>1, <1>4 DEF Forward, SeenLast, Stamp
<1>6. SeenLast'
  <2>1. \A o \in Ips : \A s \in called'[o] : s.at <= now'
    BY <1>2, <1>3, <1>5
  <2> QED
    BY <1>3, <2>1 DEF Forward, SeenLast
<1>7. Remembered'
  <2> SUFFICES ASSUME NEW o \in Ips, NEW g \in granted[o], m - g.at <= Window
               PROVE  \/ \E j \in Slots :
                           entries[j].ip = o /\ g \in entries[j].timestamps
                      \/ Crowded(o, g.at, m)'
    BY <1>3 DEF Remembered
  <2>1. g.at \in Int /\ now - g.at <= Window
    BY <1>1, <1>2, <1>4, <1>5, TableAssumption
  <2>2. CASE Crowded(o, g.at, n)
    <3>1. \A x \in Ips : called[x] \subseteq called'[x]
      BY <1>3
    <3>2. n \in Int /\ m \in Int /\ n <= m /\ g.at <= g.at
      BY <1>2, <2>1
    <3>3. Crowded(o, g.at, m)'
      BY <2>1, <2>2, <3>1, <3>2, CrowdGrows
    <3> QED
      BY <3>3
  <2> QED
    BY <1>1, <2>1, <2>2 DEF Forward, Remembered
<1>8. Bounded'
  <2> SUFFICES ASSUME NEW o \in Ips, NEW t \in 0..m
               PROVE  \/ Cardinality(GrantedIn(o, t)') <= MaxRequests
                      \/ Crowded(o, t, t + Window)'
    BY <1>3 DEF Bounded
  <2>1. CASE t \in 0..n
    BY <1>1, <1>3, <2>1
       DEF Forward, Bounded, GrantedIn, Crowded, OthersCalling
  <2>2. CASE t = m
    <3>1. GrantedIn(o, t)' = {}
      BY <1>2, <1>3, <1>4, <1>5, <2>2 DEF GrantedIn, Between
    <3> QED
      BY <3>1, FS_EmptySet, TableAssumption
  <2> QED
    BY <1>2, <2>1, <2>2
<1> QED
  BY <1>6, <1>7, <1>8 DEF Forward

-----------------------------------------------------------------------------
LEMMA InvInit == Init => IInv
<1> SUFFICES ASSUME Init PROVE IInv
  OBVIOUS
<1>1. /\ now = 1 /\ serial = 0 /\ set_back = FALSE
      /\ \A i \in Slots : entries[i] = EmptyEntry(NoIp)
      /\ \A ip \in Ips : called[ip] = {} /\ granted[ip] = {}
  BY DEF Init
<1>2. TypeOK
  <2>1. entries \in [Slots -> Entry]
    BY DEF Init, Entry, EmptyEntry
  <2>2. called \in [Ips -> SUBSET Stamp] /\ granted \in [Ips -> SUBSET Stamp]
    BY DEF Init
  <2>3. now \in Nat \ {0} /\ serial \in Nat
    BY <1>1
  <2>4. set_back \in BOOLEAN
    BY <1>1
  <2> QED
    BY <2>1, <2>2, <2>3, <2>4, Zenon DEF TypeOK
<1>3. \A i \in Slots : entries[i].ip = NoIp /\ entries[i].ip \notin Ips
  BY <1>1, IpAssumption DEF EmptyEntry
<1>4. OneEntryPerIp /\ OwnStamps
  BY <1>3 DEF OneEntryPerIp, OwnStamps
<1>5. Ledger /\ RefusalJustified
  BY <1>1, FS_EmptySet DEF Ledger, RefusalJustified
<1>6. SeenLast /\ Remembered
  BY <1>1, <1>3 DEF SeenLast, Remembered
<1>7. Bounded
  <2>1. \A ip \in Ips, t \in 0..now : GrantedIn(ip, t) = {}
    BY <1>1 DEF GrantedIn
  <2> QED
    BY <2>1, FS_EmptySet, TableAssumption DEF Bounded
<1> QED
  BY <1>2, <1>4, <1>5, <1>6, <1>7 DEF IInv, Forward

LEMMA InvStep == IInv /\ [Next]_vars => IInv'
<1> SUFFICES ASSUME IInv, [Next]_vars PROVE IInv'
  OBVIOUS
<1> USE DEF IInv
<1>1. ASSUME NEW ip \in Ips, RateLimitAllow(ip)
      PROVE  IInv'
  <2>1. PICK i \in Slots : Call(ip, i)
    BY <1>1, CallEffect
  <2>2. TypeOK' /\ OneEntryPerIp' /\ Ledger' /\ OwnStamps'
    BY <2>1, CallTypes, CallKeepsOneEntry, CallKeepsLedger, CallKeepsOwnStamps
  <2>3. RefusalJustified'
    BY <2>1, <2>2, CallKeepsRefusals
  <2>4. set_back' = set_back
    BY <1>1 DEF RateLimitAllow
  <2>5. ASSUME ~ set_back
        PROVE  Forward'
    BY <2>1, <2>5, CallKeepsSeenLast, CallKeepsRemembered, CallKeepsBounded
       DEF Forward
  <2> QED
    BY <2>2, <2>3, <2>4, <2>5
<1>2. CASE TimePasses
  <2>1. TypeOK' /\ OneEntryPerIp' /\ Ledger' /\ OwnStamps' /\ RefusalJustified'
    BY <1>2, ClockTypes, ClockKeepsTable DEF TimePasses
  <2>2. set_back' = set_back
    BY <1>2 DEF TimePasses
  <2> QED
    BY <1>2, <2>1, <2>2, TimeKeepsForward
<1>3. CASE ClockIsSetBack
  <2>1. TypeOK' /\ OneEntryPerIp' /\ Ledger' /\ OwnStamps' /\ RefusalJustified'
    BY <1>3, ClockTypes, ClockKeepsTable DEF ClockIsSetBack
  <2>2. set_back'
    BY <1>3 DEF ClockIsSetBack
  <2> QED
    BY <2>1, <2>2
<1>4. CASE UNCHANGED vars
  <2>1. /\ UNCHANGED <<entries, serial, called, granted>>
        /\ now' = now /\ set_back' = set_back
    BY <1>4 DEF vars
  <2>2. OneEntryPerIp' /\ Ledger' /\ OwnStamps' /\ RefusalJustified'
    BY <2>1, ClockKeepsTable
  <2>3. TypeOK' = TypeOK
    BY <2>1 DEF TypeOK
  <2>4. SeenLast' = SeenLast
    BY <2>1 DEF SeenLast
  <2>5. Remembered' = Remembered
    BY <2>1 DEF Remembered, Crowded, OthersCalling
  <2>6. Bounded' = Bounded
    BY <2>1 DEF Bounded, GrantedIn, Crowded, OthersCalling
  <2> QED
    BY <2>1, <2>2, <2>3, <2>4, <2>5, <2>6 DEF Forward
<1> QED
  BY <1>1, <1>2, <1>3, <1>4 DEF Next

(* Everything IInv says holds in every reachable state of the limiter, for *)
(* any number of addresses, entries and requests and any window.           *)
THEOREM Invariance == Spec => []IInv
<1> QED
  BY InvInit, InvStep, PTL DEF Spec

(* rate_limit_allow keeps its table well typed. *)
THEOREM TypeCorrect == Spec => []TypeOK
<1>1. IInv => TypeOK
  BY DEF IInv
<1> QED
  BY <1>1, Invariance, PTL

(* find_entry_index never gives one address two entries. *)
THEOREM OneEntry == Spec => []OneEntryPerIp
<1>1. IInv => OneEntryPerIp
  BY DEF IInv
<1> QED
  BY <1>1, Invariance, PTL

(* rate_limit_allow refuses an address for its own granted requests only,  *)
(* whatever the clock does.                                                *)
THEOREM RefusedForCause == Spec => []RefusalJustified
<1>1. IInv => RefusalJustified
  BY DEF IInv
<1> QED
  BY <1>1, Invariance, PTL

(* Until the clock is set back, an address gets more requests than the     *)
(* limit through in one window only if as many other addresses as the      *)
(* table has entries call in that window.                                  *)
THEOREM LimitHolds == Spec => []WindowBound
<1>1. IInv => WindowBound
  BY DEF IInv, Forward, WindowBound
<1> QED
  BY <1>1, Invariance, PTL

=============================================================================
