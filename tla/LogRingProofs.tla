---------------------------- MODULE LogRingProofs ----------------------------
(* The theorems about the log: the mutex excludes, whoever takes it finds  *)
(* the last MAX_LOGS lines in their order, and what the operator reads of  *)
(* them is what the buffers hold of the lines of one moment.               *)
EXTENDS LogRing, SequenceTheorems, WellFoundedInduction, TLAPS

-----------------------------------------------------------------------------
(* Visible cuts a sequence short. *)

LEMMA GreatestOf ==
  ASSUME NEW n \in Nat, NEW S \in SUBSET (0..n), S # {}
  PROVE  \E k \in S : \A j \in S : j <= k
<1> DEFINE T == {n - k : k \in S}
<1>1. T \subseteq Nat /\ T # {}
  <2>1. \A k \in S : k \in 0..n
    BY Zenon
  <2>2. \A k \in 0..n : n - k \in Nat
    OBVIOUS
  <2> QED
    BY <2>1, <2>2, Zenon
<1>2. PICK x \in T : \A y \in T : <<y, x>> \notin OpToRel(<, Nat)
  BY <1>1, NatLessThanWellFounded, WFMin, Zenon
<1>3. \A y \in T : ~ (y < x)
  BY <1>1, <1>2, Zenon DEF OpToRel
<1>4. PICK k \in S : x = n - k
  BY <1>2, Zenon
<1>5. \A j \in S : j <= k
  <2> SUFFICES ASSUME NEW j \in S PROVE j <= k
    OBVIOUS
  <2>1. n - j \in T
    BY Zenon
  <2>2. ~ (n - j < n - k)
    BY <1>3, <1>4, <2>1, Zenon
  <2>3. j \in 0..n /\ k \in 0..n
    BY Zenon
  <2> HIDE DEF T
  <2> QED
    BY <2>2, <2>3
<1> QED
  BY <1>5

LEMMA VisibleType ==
  ASSUME NEW s \in Seq(Lines), NEW header
  PROVE  Visible(s, header) \in Seq(Lines)
<1> DEFINE n == Len(s)
           k == CHOOSE i \in Fitting(s, header) : \A j \in Fitting(s, header) : j <= i
<1>1. n \in Nat /\ Fitting(s, header) \in SUBSET (0..n) /\ 0 \in Fitting(s, header)
  BY LenProperties DEF Fitting
<1>2. \E i \in Fitting(s, header) : \A j \in Fitting(s, header) : j <= i
  BY <1>1, GreatestOf, Zenon
<1>3. k \in 0..n
  <2>1. k \in Fitting(s, header)
    BY <1>2, Zenon
  <2> QED
    BY <1>1, <2>1, Zenon
<1>4. \A i \in 1..k : s[i] \in Lines
  BY <1>3, ElementOfSeq
<1>5. SubSeq(s, 1, k) \in Seq(Lines)
  <2> HIDE DEF k
  <2> QED
    BY <1>3, <1>4, SubSeqProperties
<1> QED
  BY <1>5, Zenon DEF Visible

(* The lines the ring keeps, one by one. *)
LEMMA KeptLines ==
  ASSUME TypeOK
  PROVE  LET n == Len(written)
         IN  /\ n \in Nat /\ Kept(n) \in 0..n /\ Kept(n) <= MaxLogs
             /\ LastLines(n) \in Seq(Lines) /\ Len(LastLines(n)) = Kept(n)
             /\ \A i \in 1..Kept(n) : LastLines(n)[i] = written[n - Kept(n) + i]
<1> DEFINE n == Len(written)
           k == Kept(n)
<1>1. written \in Seq(Lines)
  BY DEF TypeOK
<1>2. n \in Nat
  BY <1>1, LenProperties
<1>3. k \in 0..n /\ k <= MaxLogs
  BY <1>2, SizeAssumption DEF Kept
<1>4. \A i \in (n - k + 1)..n : written[i] \in Lines
  BY <1>1, <1>2, <1>3, ElementOfSeq
<1> HIDE DEF n, k
<1>5. /\ SubSeq(written, n - k + 1, n) \in Seq(Lines)
      /\ Len(SubSeq(written, n - k + 1, n)) =
           IF n - k + 1 <= n THEN n - (n - k + 1) + 1 ELSE 0
      /\ \A i \in 1..(n - (n - k + 1) + 1) :
           SubSeq(written, n - k + 1, n)[i] = written[n - k + 1 + i - 1]
  BY <1>2, <1>3, <1>4, SubSeqProperties
<1>6. n - (n - k + 1) + 1 = k /\ \A i \in 1..k : n - k + 1 + i - 1 = n - k + i
  BY <1>2, <1>3
<1>7. Len(SubSeq(written, n - k + 1, n)) = k
  <2>1. CASE k = 0
    BY <1>2, <1>3, <1>5, <2>1
  <2>2. CASE k # 0
    BY <1>2, <1>3, <1>5, <2>2
  <2> QED
    BY <2>1, <2>2
<1>8. \A i \in 1..k : SubSeq(written, n - k + 1, n)[i] = written[n - k + i]
  <2> SUFFICES ASSUME NEW i \in 1..k
               PROVE  SubSeq(written, n - k + 1, n)[i] = written[n - k + i]
    OBVIOUS
  <2>1. n - k + 1 + i - 1 = n - k + i
    BY <1>6
  <2> QED
    BY <1>5, <1>6, <2>1, Zenon
<1> QED
  BY <1>2, <1>3, <1>5, <1>7, <1>8 DEF LastLines, n, k

-----------------------------------------------------------------------------
LEMMA IInvInit == Init => IInv
<1> SUFFICES ASSUME Init PROVE IInv
  OBVIOUS
<1>1. Len(written) = 0 /\ log_count = 0 /\ Kept(0) = 0 /\ <<>> \in Seq(Lines)
  BY SizeAssumption, EmptySeq DEF Init, Kept
<1>2. TypeOK
  <2>1. shown \in Display
    BY <1>1 DEF Init, Display, Screen
  <2> QED
    BY <1>1, <2>1, ThreadAssumption, SizeAssumption
    DEF Init, TypeOK, WriterPc, TerminalPc, Screen
<1>3. Exclusive /\ Waiting /\ ~ Storing
  BY ThreadAssumption DEF Init, Exclusive, Waiting, Storing, Holding
<1>4. RingInv
  BY <1>1, <1>3 DEF RingInv
<1>5. CopyInv
  BY <1>1, ThreadAssumption DEF Init, CopyInv
<1> QED
  BY <1>2, <1>3, <1>4, <1>5 DEF IInv

(* A step that moves a thread keeps at most one in the critical section.   *)
LEMMA ExclusiveStep ==
  ASSUME TypeOK, Exclusive, Next
  PROVE  Exclusive'
<1> USE ThreadAssumption DEF TypeOK, Exclusive, Holding, Goto
<1>1. ASSUME NEW w \in Writers, AddLog(w) PROVE Exclusive'
  <2>1. CASE CallAddLog(w)
    BY <2>1 DEF CallAddLog
  <2>2. CASE LockRing(w)
    BY <2>2 DEF LockRing, Lock
  <2>3. CASE DropOldest(w)
    BY <2>3 DEF DropOldest
  <2>4. CASE StoreLine(w)
    BY <2>4 DEF StoreLine
  <2>5. CASE UnlockRing(w)
    BY <2>5 DEF UnlockRing, Unlock
  <2> QED
    BY <1>1, <2>1, <2>2, <2>3, <2>4, <2>5 DEF AddLog
<1>2. CASE Collect
  BY <1>2 DEF Collect
<1>3. CASE LockToCopy
  BY <1>3 DEF LockToCopy, Lock
<1>4. CASE CopyLine \/ CopyEnds
  <2>1. pc[Terminal] = "copy" /\ UNCHANGED mutex
    BY <1>4 DEF CopyLine, CopyEnds
  <2>2. pc' = pc \/ pc' = [pc EXCEPT ![Terminal] = "unlock"]
    BY <1>4 DEF CopyLine, CopyEnds
  <2> QED
    BY <2>1, <2>2
<1>5. CASE ShowText
  BY <1>5 DEF ShowText, Unlock
<1> QED
  BY <1>1, <1>2, <1>3, <1>4, <1>5 DEF Next, CopyLogs

(* Only the writer that has stored or is storing touches the ring.         *)
LEMMA StoringAlone ==
  ASSUME TypeOK, Exclusive
  PROVE  /\ \A w \in Writers : pc[w] = "shift" => ~ Storing /\ mutex = w
         /\ \A w \in Writers : pc[w] = "store" => mutex = w
         /\ mutex \in {NoThread, Terminal} => ~ Storing
         /\ \A w \in Writers : pc[w] \in Holding => pc[Terminal] \notin Holding
BY ThreadAssumption DEF Exclusive, Storing, Holding, TypeOK

LEMMA WaitingStep ==
  ASSUME TypeOK, Waiting, Next
  PROVE  Waiting'
<1> USE ThreadAssumption DEF TypeOK, Waiting, Goto
<1>1. ASSUME NEW w \in Writers, AddLog(w) PROVE Waiting'
  <2>1. CASE CallAddLog(w)
    BY <2>1 DEF CallAddLog
  <2>2. CASE LockRing(w)
    BY <2>2 DEF LockRing, Lock
  <2>3. CASE DropOldest(w)
    BY <2>3 DEF DropOldest
  <2>4. CASE StoreLine(w)
    BY <2>4 DEF StoreLine
  <2>5. CASE UnlockRing(w)
    BY <2>5 DEF UnlockRing, Unlock
  <2> QED
    BY <1>1, <2>1, <2>2, <2>3, <2>4, <2>5 DEF AddLog
<1>2. ASSUME Collect \/ CopyLogs PROVE Waiting'
  <2>1. /\ UNCHANGED message
        /\ pc' = pc \/ \E p \in TerminalPc : pc' = [pc EXCEPT ![Terminal] = p]
    BY <1>2 DEF Collect, CopyLogs, LockToCopy, CopyLine, CopyEnds, ShowText, Unlock,
                TerminalPc
  <2>2. \A w \in Writers : pc'[w] = pc[w]
    BY <2>1
  <2> QED
    BY <2>1, <2>2
<1> QED
  BY <1>1, <1>2 DEF Next

-----------------------------------------------------------------------------
(* The ring. *)

(* A step that leaves the ring and what was logged, and neither begins nor *)
(* ends a store, keeps RingInv.                                            *)
LEMMA RingKept ==
  ASSUME RingInv, UNCHANGED <<ring, written>>, Storing' <=> Storing
  PROVE  RingInv'
BY DEF RingInv, ring, Kept

LEMMA DropStep ==
  ASSUME IInv, NEW w \in Writers, DropOldest(w)
  PROVE  RingInv' /\ logs' \in [Slots -> Lines \cup {NoLine}] /\ log_count' \in 0..MaxLogs
<1> DEFINE n == Len(written)
<1>1. /\ TypeOK /\ Exclusive /\ RingInv
      /\ n \in Nat /\ n' = n
      /\ pc[w] = "shift" /\ pc' = [pc EXCEPT ![w] = "store"]
  BY KeptLines DEF IInv, DropOldest, Goto
<1>2. ~ Storing /\ Storing'
  BY <1>1, StoringAlone DEF Storing, TypeOK
<1>3. /\ log_count = Kept(n) /\ log_count <= n
      /\ \A i \in 0..(log_count - 1) : logs[i] = written[n - log_count + i + 1]
  BY <1>1, <1>2 DEF RingInv
<1>4. /\ MaxLogs \in Nat \ {0} /\ log_count \in 0..MaxLogs
      /\ logs \in [Slots -> Lines \cup {NoLine}]
  BY <1>1, SizeAssumption DEF TypeOK
<1>5. written' = written /\ Kept(n)' = Kept(n)
  BY DEF DropOldest, Kept
<1>6. CASE log_count < MaxLogs
  <2>1. UNCHANGED ring
    BY <1>4, <1>6 DEF DropOldest
  <2>2. n = log_count
    BY <1>1, <1>3, <1>4, <1>6 DEF Kept
  <2>3. logs' = logs /\ log_count' = log_count
    BY <2>1 DEF ring
  <2>4. log_count' = Kept(Len(written))' /\ log_count' < MaxLogs /\ log_count' <= n'
    BY <1>1, <1>3, <1>5, <1>6, <2>3
  <2>5. \A i \in 0..(log_count' - 1) : logs'[i] = written'[n' - log_count' + i + 1]
    BY <1>1, <1>3, <1>5, <2>3
  <2> QED
    BY <1>4, <2>3, <2>4, <2>5 DEF RingInv
<1>7. CASE log_count = MaxLogs
  <2>1. logs' = Shifted /\ log_count' = MaxLogs - 1 /\ MaxLogs <= n
    BY <1>3, <1>4, <1>7 DEF DropOldest
  <2>2. \A i \in 0..(MaxLogs - 2) : logs'[i] = logs[i + 1]
    BY <1>4, <2>1 DEF Shifted, Slots
  <2>3. \A i \in 0..(MaxLogs - 2) : logs[i + 1] = written[n - (MaxLogs - 1) + i + 1]
    <3> SUFFICES ASSUME NEW i \in 0..(MaxLogs - 2)
                 PROVE  logs[i + 1] = written[n - (MaxLogs - 1) + i + 1]
      OBVIOUS
    <3>1. i + 1 \in 0..(log_count - 1)
      BY <1>4, <1>7
    <3>2. logs[i + 1] = written[n - log_count + (i + 1) + 1]
      BY <1>3, <3>1
    <3>3. n - log_count + (i + 1) + 1 = n - (MaxLogs - 1) + i + 1
      BY <1>1, <1>4, <1>7
    <3> QED
      BY <3>2, <3>3
  <2>4. log_count' - 1 = MaxLogs - 2
    BY <1>4, <2>1
  <2>5. \A i \in 0..(log_count' - 1) : logs'[i] = written'[n' - log_count' + i + 1]
    BY <1>1, <1>5, <2>1, <2>2, <2>3, <2>4
  <2>6. log_count' < MaxLogs /\ log_count' <= n' /\ n' >= MaxLogs
    BY <1>1, <1>4, <2>1
  <2>7. RingInv'
    BY <1>2, <2>1, <2>5, <2>6 DEF RingInv
  <2>8. logs' \in [Slots -> Lines \cup {NoLine}]
    BY <1>4, <2>1 DEF Shifted
  <2> QED
    BY <1>4, <2>1, <2>7, <2>8
<1> QED
  BY <1>4, <1>6, <1>7

LEMMA StoreStep ==
  ASSUME IInv, NEW w \in Writers, StoreLine(w)
  PROVE  /\ RingInv' /\ logs' \in [Slots -> Lines \cup {NoLine}]
         /\ log_count' \in 0..MaxLogs /\ written' \in Seq(Lines)
         /\ Len(written') = Len(written) + 1
<1> DEFINE n == Len(written)
<1>1. /\ TypeOK /\ Exclusive /\ RingInv /\ n \in Nat
      /\ pc[w] = "store" /\ pc' = [pc EXCEPT ![w] = "unlock"]
      /\ logs' = [logs EXCEPT ![log_count] = message[w]]
      /\ log_count' = log_count + 1
      /\ written' = Append(written, message[w]) /\ message[w] \in Lines
  BY KeptLines DEF IInv, StoreLine, Goto, Waiting
<1>2. Storing /\ ~ Storing'
  <2>1. \A v \in Writers : pc[v] = "store" => v = w
    BY <1>1, StoringAlone
  <2> QED
    BY <1>1, <2>1 DEF Storing, TypeOK
<1>3. /\ log_count < MaxLogs /\ log_count <= n
      /\ log_count = Kept(n) \/ (log_count = MaxLogs - 1 /\ n >= MaxLogs)
      /\ \A i \in 0..(log_count - 1) : logs[i] = written[n - log_count + i + 1]
  BY <1>1, <1>2 DEF RingInv
<1>4. /\ MaxLogs \in Nat \ {0} /\ log_count \in 0..MaxLogs
      /\ logs \in [Slots -> Lines \cup {NoLine}] /\ written \in Seq(Lines)
  BY <1>1, SizeAssumption DEF TypeOK
<1>5. /\ written' \in Seq(Lines) /\ Len(written') = n + 1
      /\ \A i \in 1..n : written'[i] = written[i]
      /\ written'[n + 1] = message[w]
  BY <1>1, <1>4, AppendProperties
<1>6. log_count \in Slots
  BY <1>3, <1>4 DEF Slots
<1> DEFINE m == Len(written')
<1>7. \A i \in 0..(log_count' - 1) : logs'[i] = written'[m - log_count' + i + 1]
  <2> SUFFICES ASSUME NEW i \in 0..(log_count' - 1)
               PROVE  logs'[i] = written'[m - log_count' + i + 1]
    OBVIOUS
  <2>0. m = n + 1
    BY <1>5
  <2> HIDE DEF n, m
  <2>1. i \in 0..log_count /\ i \in Slots
    BY <1>1, <1>3, <1>4 DEF Slots
  <2>2. m - log_count' + i + 1 = n - log_count + i + 1
    BY <1>1, <1>4, <2>0, <2>1
  <2>3. CASE i = log_count
    <3>1. n - log_count + i + 1 = n + 1
      BY <1>1, <1>4, <2>3
    <3>2. logs'[i] = message[w]
      BY <1>1, <1>4, <1>6, <2>3
    <3> QED
      BY <1>5, <2>2, <3>1, <3>2, Zenon
  <2>4. CASE i # log_count
    <3>1. i \in 0..(log_count - 1) /\ n - log_count + i + 1 \in 1..n
      BY <1>1, <1>3, <1>4, <2>1, <2>4
    <3>2. logs'[i] = logs[i]
      BY <1>1, <1>4, <2>1, <2>4
    <3> QED
      BY <1>3, <1>5, <2>2, <3>1, <3>2, Zenon
  <2> QED
    BY <2>3, <2>4
<1>8. log_count' = Kept(m) /\ log_count' <= m /\ log_count' \in 0..MaxLogs
  <2>1. m = n + 1
    BY <1>5
  <2> HIDE DEF n, m
  <2> QED
    BY <1>1, <1>3, <1>4, <2>1 DEF Kept
<1>9. RingInv'
  <2>1. (log_count = Kept(Len(written)))'
    BY <1>8 DEF Kept
  <2> QED
    BY <1>2, <1>7, <1>8, <2>1 DEF RingInv
<1>10. logs' \in [Slots -> Lines \cup {NoLine}]
  BY <1>1, <1>4, <1>6
<1> QED
  BY <1>5, <1>8, <1>9, <1>10

-----------------------------------------------------------------------------
(* What the terminal copies. *)

Copied ==
  /\ taken = Len(written) /\ Len(text) <= log_count
  /\ text = SubSeq(LastLines(taken), 1, Len(text))

LEMMA CopyIs ==
  CopyInv <=> /\ taken <= Len(written) /\ shown.taken <= Len(written)
              /\ pc[Terminal] \in {"copy", "unlock"} => Copied
BY DEF CopyInv, Copied

(* While the terminal has the mutex the ring is whole and stays. *)
LEMMA WholeRing ==
  ASSUME TypeOK, Exclusive, RingInv, pc[Terminal] \in Holding
  PROVE  LET n == Len(written)
         IN  /\ n \in Nat /\ log_count = Kept(n) /\ log_count \in 0..n
             /\ \A i \in 0..(log_count - 1) :
                  logs[i] = LastLines(n)[i + 1] /\ logs[i] \in Lines
<1> DEFINE n == Len(written)
           last == LastLines(n)
<1>1. /\ n \in Nat /\ last \in Seq(Lines) /\ Len(last) = Kept(n)
      /\ Kept(n) \in 0..n
      /\ \A i \in 1..Kept(n) : last[i] = written[n - Kept(n) + i]
  BY KeptLines
<1>2. ~ Storing
  BY StoringAlone DEF Exclusive
<1>3. /\ log_count = Kept(n)
      /\ \A i \in 0..(log_count - 1) : logs[i] = written[n - log_count + i + 1]
  BY <1>2 DEF RingInv
<1>4. \A i \in 0..(log_count - 1) : logs[i] = last[i + 1] /\ last[i + 1] \in Lines
  <2> SUFFICES ASSUME NEW i \in 0..(log_count - 1)
               PROVE  logs[i] = last[i + 1] /\ last[i + 1] \in Lines
    OBVIOUS
  <2>1. last[i + 1] \in Lines
    <3>1. i + 1 \in 1..Len(last)
      BY <1>1, <1>3
    <3> QED
      BY <1>1, <3>1, ElementOfSeq
  <2>2. i + 1 \in 1..Kept(n) /\ n - Kept(n) + (i + 1) = n - log_count + i + 1
    <3> HIDE DEF n
    <3> QED
      BY <1>1, <1>3
  <2>3. last[i + 1] = written[n - Kept(n) + (i + 1)]
    BY <1>1, <2>2
  <2> QED
    BY <1>3, <2>1, <2>2, <2>3
<1> QED
  BY <1>1, <1>3, <1>4

LEMMA CopyLineStep ==
  ASSUME IInv, CopyLine
  PROVE  /\ text' \in Seq(Lines) /\ used' \in Nat
         /\ CopyInv'
<1> DEFINE n == Len(written)
           last == LastLines(n)
           j == Len(text)
           line == logs[j]
<1>1. /\ TypeOK /\ Exclusive /\ RingInv /\ CopyInv
      /\ pc[Terminal] = "copy" /\ j < log_count
  BY DEF IInv, CopyLine
<1>2. /\ n \in Nat /\ log_count = Kept(n) /\ log_count \in 0..n
      /\ \A i \in 0..(log_count - 1) : logs[i] = last[i + 1] /\ logs[i] \in Lines
  BY <1>1, WholeRing DEF Holding
<1>3. /\ text \in Seq(Lines) /\ j \in Nat /\ used \in Nat
      /\ TextSize \in Nat \ {0} /\ Length \in [Lines -> Nat]
  BY <1>1, LenProperties, SizeAssumption, LineAssumption DEF TypeOK
<1>4. j \in 0..(log_count - 1) /\ j + 1 <= log_count
  <2> HIDE DEF n, j
  <2> QED
    BY <1>1, <1>2, <1>3
<1>5. line = last[j + 1] /\ line \in Lines
  BY <1>2, <1>4
<1>6. /\ taken = n /\ text = SubSeq(last, 1, j)
      /\ shown.taken <= n
  BY <1>1, CopyIs DEF Copied
<1>7. last \in Seq(Lines) /\ Len(last) = log_count
  BY <1>1, <1>2, KeptLines
<1>8. Append(text, line) \in Seq(Lines) /\ Len(Append(text, line)) = j + 1
  BY <1>3, <1>5, AppendProperties
<1>9. Append(text, line) = SubSeq(last, 1, j + 1)
  <2>1. 1 \in 1..Len(last) /\ j + 1 \in 1..Len(last) /\ j + 1 - 1 = j
    <3> HIDE DEF n, j
    <3> QED
      BY <1>2, <1>3, <1>4, <1>7
  <2>2. SubSeq(last, 1, j + 1) = SubSeq(last, 1, j + 1 - 1) \o <<last[j + 1]>>
    BY <1>7, <2>1, SubSeqRecursiveSecond
  <2>3. Append(text, line) = text \o <<line>>
    BY <1>3, <1>5, AppendIsConcat
  <2> QED
    BY <1>5, <1>6, <2>1, <2>2, <2>3
<1>10. /\ text' = text \/ text' = Append(text, line)
       /\ UNCHANGED <<ring, taken, shown, written>>
  BY DEF CopyLine
<1>11. used' \in Nat
  <2>1. used' = used + (Length[line] + 1) \/ used' = TextSize - 1
    BY DEF CopyLine
  <2> QED
    BY <1>3, <1>5, <2>1
<1>12. Len(text') <= log_count /\ text' = SubSeq(last, 1, Len(text'))
  <2>1. CASE text' = text
    <3>1. Len(text') = j
      BY <2>1
    <3>2. text' = SubSeq(last, 1, j)
      BY <1>6, <2>1
    <3>3. j <= log_count
      <4> HIDE DEF j
      <4> QED
        BY <1>2, <1>4
    <3> QED
      BY <3>1, <3>2, <3>3, Zenon
  <2>2. CASE text' = Append(text, line)
    BY <1>4, <1>8, <1>9, <2>2
  <2> QED
    BY <1>10, <2>1, <2>2
<1>13. Copied'
  <2>1. LastLines(taken)' = last
    BY <1>6, <1>10 DEF LastLines, Kept
  <2> QED
    BY <1>6, <1>10, <1>12, <2>1 DEF Copied, ring
<1>14. taken' <= Len(written)' /\ shown'.taken <= Len(written)'
  BY <1>2, <1>6, <1>10
<1> QED
  BY <1>3, <1>8, <1>10, <1>11, <1>13, <1>14, CopyIs DEF CopyInv, Copied

-----------------------------------------------------------------------------
(* Bytes is a recursive function. The library's theorems on such functions *)
(* take an operator and cannot be used, so that it exists is proved as     *)
(* induction is: the least n for which it does not has a predecessor with  *)
(* one, which can be extended.                                             *)

IsBytes(f, s, n) ==
  f = [k \in 0..n |-> IF k = 0 THEN 0 ELSE f[k - 1] + Length[s[k]] + 1]

LEMMA LeastOf ==
  ASSUME NEW S \in SUBSET Nat, S # {}
  PROVE  \E n \in S : \A m \in S : n <= m
<1>1. PICK n \in S : \A m \in S : <<m, n>> \notin OpToRel(<, Nat)
  BY NatLessThanWellFounded, WFMin, Zenon
<1>2. \A m \in S : ~ (m < n)
  BY <1>1, Zenon DEF OpToRel
<1>3. \A m \in S : n <= m
  BY <1>2
<1> QED
  BY <1>3

LEMMA BytesExists ==
  ASSUME NEW s, NEW n \in Nat
  PROVE  \E f : IsBytes(f, s, n)
<1> DEFINE S == {m \in Nat : ~ \E f : IsBytes(f, s, m)}
<1> SUFFICES ASSUME S # {} PROVE FALSE
  OBVIOUS
<1>1. PICK m \in S : \A k \in S : m <= k
  BY LeastOf
<1>2. IsBytes([k \in 0..0 |-> 0], s, 0)
  BY DEF IsBytes
<1>3. m # 0
  BY <1>2
<1>4. m - 1 \in Nat /\ m - 1 \notin S
  BY <1>1, <1>3
<1>5. PICK g : IsBytes(g, s, m - 1)
  BY <1>4
<1> DEFINE f == [k \in 0..m |-> IF k < m THEN g[k] ELSE g[m - 1] + Length[s[m]] + 1]
<1>6. \A k \in 0..(m - 1) : g[k] = IF k = 0 THEN 0 ELSE g[k - 1] + Length[s[k]] + 1
  <2>1. g = [k \in 0..(m - 1) |-> IF k = 0 THEN 0 ELSE g[k - 1] + Length[s[k]] + 1]
    BY <1>5 DEF IsBytes
  <2> QED
    BY <2>1, Zenon
<1>7. ASSUME NEW k \in 0..m
      PROVE  f[k] = IF k = 0 THEN 0 ELSE f[k - 1] + Length[s[k]] + 1
  <2>1. m \in Nat \ {0} /\ k \in Nat /\ k <= m
    BY <1>3
  <2>2. CASE k < m
    <3>1. f[k] = g[k] /\ k \in 0..(m - 1)
      BY <2>1, <2>2
    <3>2. k # 0 => k - 1 \in 0..m /\ k - 1 < m /\ f[k - 1] = g[k - 1]
      BY <2>1, <2>2
    <3> HIDE DEF f
    <3> QED
      BY <1>6, <3>1, <3>2, Zenon
  <2>3. CASE k = m
    <3>1. m - 1 \in 0..m /\ m - 1 < m /\ m \in 0..m /\ ~ (m < m)
      BY <2>1
    <3>2. f[m - 1] = g[m - 1]
      BY <3>1
    <3>3. f[m] = g[m - 1] + Length[s[m]] + 1
      BY <3>1, Zenon
    <3> HIDE DEF f
    <3> QED
      BY <1>3, <2>3, <3>2, <3>3, Zenon
  <2> QED
    BY <2>1, <2>2, <2>3
<1>8. IsBytes(f, s, m)
  <2>1. f = [k \in 0..m |-> f[k]]
    OBVIOUS
  <2> HIDE DEF f
  <2> QED
    BY <1>7, <2>1, Zenon DEF IsBytes
<1> QED
  BY <1>8

LEMMA BytesIs ==
  ASSUME NEW s \in Seq(Lines)
  PROVE  /\ Bytes(s)[0] = 0
         /\ \A k \in 1..Len(s) : Bytes(s)[k] = Bytes(s)[k - 1] + Length[s[k]] + 1
<1>1. Len(s) \in Nat
  BY LenProperties
<1>2. Bytes(s) = CHOOSE f : IsBytes(f, s, Len(s))
  BY DEF Bytes, IsBytes
<1>3. IsBytes(Bytes(s), s, Len(s))
  BY <1>1, <1>2, BytesExists
<1>4. Bytes(s) = [k \in 0..Len(s) |->
                    IF k = 0 THEN 0 ELSE Bytes(s)[k - 1] + Length[s[k]] + 1]
  BY <1>3 DEF IsBytes
<1>5. \A k \in 0..Len(s) :
        Bytes(s)[k] = IF k = 0 THEN 0 ELSE Bytes(s)[k - 1] + Length[s[k]] + 1
  BY <1>4, Zenon
<1>6. 0 \in 0..Len(s) /\ \A k \in 1..Len(s) : k \in 0..Len(s) /\ k # 0
  BY <1>1
<1> QED
  BY <1>5, <1>6, Zenon

(* The bytes of more lines are more.                                       *)
LEMMA BytesType ==
  ASSUME NEW s \in Seq(Lines)
  PROVE  \A k \in 0..Len(s) : Bytes(s)[k] \in Nat
<1> DEFINE S == {k \in 0..Len(s) : Bytes(s)[k] \notin Nat}
<1> SUFFICES ASSUME S # {} PROVE FALSE
  OBVIOUS
<1>1. PICK k \in S : \A j \in S : k <= j
  <2>1. S \subseteq 0..Len(s) /\ 0..Len(s) \subseteq Nat
    BY LenProperties
  <2> HIDE DEF S
  <2> QED
    BY <2>1, LeastOf
<1>2. k \in 0..Len(s) /\ Bytes(s)[k] \notin Nat /\ Len(s) \in Nat
  BY LenProperties
<1>3. k # 0
  BY <1>2, BytesIs
<1>4. k - 1 \in 0..Len(s) /\ k - 1 \notin S
  BY <1>1, <1>2, <1>3
<1>5. Bytes(s)[k - 1] \in Nat
  BY <1>4
<1>6. k \in 1..Len(s)
  BY <1>2, <1>3
<1>7. Length[s[k]] \in Nat
  BY <1>6, ElementOfSeq, LineAssumption
<1>8. Bytes(s)[k] = Bytes(s)[k - 1] + Length[s[k]] + 1
  BY <1>6, BytesIs
<1> HIDE DEF S
<1> QED
  BY <1>2, <1>5, <1>7, <1>8

LEMMA BytesGrow ==
  ASSUME NEW s \in Seq(Lines), NEW i \in 0..Len(s), NEW j \in 0..Len(s), i <= j
  PROVE  Bytes(s)[i] <= Bytes(s)[j]
<1> DEFINE S == {k \in 0..Len(s) : i <= k /\ ~ (Bytes(s)[i] <= Bytes(s)[k])}
<1> SUFFICES ASSUME S # {} PROVE FALSE
  OBVIOUS
<1>1. PICK k \in S : \A m \in S : k <= m
  <2>1. S \subseteq 0..Len(s) /\ 0..Len(s) \subseteq Nat
    BY LenProperties
  <2> HIDE DEF S
  <2> QED
    BY <2>1, LeastOf
<1>2. /\ k \in 0..Len(s) /\ i <= k /\ ~ (Bytes(s)[i] <= Bytes(s)[k])
      /\ Len(s) \in Nat
  BY LenProperties
<1>3. Bytes(s)[i] \in Nat /\ Bytes(s)[k] \in Nat
  BY <1>2, BytesType
<1>4. k # i
  BY <1>2, <1>3
<1>5. k - 1 \in 0..Len(s) /\ k - 1 \notin S /\ i <= k - 1 /\ k \in 1..Len(s)
  BY <1>1, <1>2, <1>4
<1>6. Bytes(s)[i] <= Bytes(s)[k - 1]
  BY <1>5
<1>7. Bytes(s)[k - 1] \in Nat
  BY <1>5, BytesType
<1>8. Length[s[k]] \in Nat
  BY <1>5, ElementOfSeq, LineAssumption
<1>9. Bytes(s)[k] = Bytes(s)[k - 1] + Length[s[k]] + 1
  BY <1>5, BytesIs
<1> HIDE DEF S
<1> QED
  BY <1>2, <1>3, <1>6, <1>7, <1>8, <1>9

(* Sequences that begin alike have the same bytes so far.                  *)
LEMMA BytesSame ==
  ASSUME NEW s \in Seq(Lines), NEW t \in Seq(Lines),
         NEW n \in 0..Len(s), n <= Len(t), \A k \in 1..n : s[k] = t[k]
  PROVE  \A k \in 0..n : Bytes(s)[k] = Bytes(t)[k]
<1> DEFINE S == {k \in 0..n : Bytes(s)[k] # Bytes(t)[k]}
<1> SUFFICES ASSUME S # {} PROVE FALSE
  OBVIOUS
<1>0. Len(s) \in Nat /\ Len(t) \in Nat
  BY LenProperties
<1>1. PICK k \in S : \A j \in S : k <= j
  <2>1. S \subseteq 0..n /\ 0..n \subseteq Nat
    BY <1>0
  <2> HIDE DEF S
  <2> QED
    BY <2>1, LeastOf
<1>2. k \in 0..n /\ Bytes(s)[k] # Bytes(t)[k]
  OBVIOUS
<1>3. k # 0
  BY <1>2, BytesIs
<1>4. k - 1 \in 0..n /\ k - 1 \notin S
  BY <1>0, <1>1, <1>2, <1>3
<1>5. Bytes(s)[k - 1] = Bytes(t)[k - 1]
  BY <1>4
<1>6. k \in 1..Len(s) /\ k \in 1..Len(t) /\ k \in 1..n
  BY <1>0, <1>2, <1>3
<1>7. s[k] = t[k]
  BY <1>6
<1> HIDE DEF S
<1> QED
  BY <1>2, <1>5, <1>6, <1>7, BytesIs

(* Visible cuts after the last line that fits.                             *)
LEMMA VisibleIs ==
  ASSUME NEW s, NEW header, NEW n \in Fitting(s, header),
         Fitting(s, header) \subseteq Nat,
         \A j \in Fitting(s, header) : j <= n
  PROVE  Visible(s, header) = SubSeq(s, 1, n)
<1> DEFINE F == Fitting(s, header)
           k == CHOOSE i \in F : \A j \in F : j <= i
<1>1. k \in F /\ \A j \in F : j <= k
  <2>1. \E i \in F : \A j \in F : j <= i
    OBVIOUS
  <2> QED
    BY <2>1, Zenon
<1>2. k = n
  <2>1. k <= n /\ n <= k /\ k \in Nat /\ n \in Nat
    <3> HIDE DEF F, k
    <3> QED
      BY <1>1 DEF F
  <2> HIDE DEF k
  <2> QED
    BY <2>1
<1> QED
  BY <1>2, Zenon DEF Visible

LEMMA FittingGreatest ==
  ASSUME NEW s \in Seq(Lines), NEW header
  PROVE  /\ Fitting(s, header) \subseteq 0..Len(s) /\ Fitting(s, header) \subseteq Nat
         /\ \E n \in Fitting(s, header) : \A j \in Fitting(s, header) : j <= n
<1>1. Len(s) \in Nat /\ Fitting(s, header) \in SUBSET (0..Len(s)) /\ 0 \in Fitting(s, header)
  BY LenProperties DEF Fitting
<1>2. Fitting(s, header) \subseteq Nat
  BY <1>1
<1>3. \E n \in Fitting(s, header) : \A j \in Fitting(s, header) : j <= n
  BY <1>1, GreatestOf, Zenon
<1> QED
  BY <1>1, <1>2, <1>3

(* A loop that goes on while the lines fit stops after the last of them.   *)
LEMMA VisibleUpTo ==
  ASSUME NEW s \in Seq(Lines), NEW n \in 0..Len(s),
         n # 0 => Bytes(s)[n] <= TextSize,
         n < Len(s) => Bytes(s)[n + 1] > TextSize
  PROVE  Visible(s, 0) = SubSeq(s, 1, n)
<1>1. Len(s) \in Nat /\ TextSize \in Nat
  BY LenProperties, SizeAssumption
<1>2. \A k \in 0..Len(s) : Bytes(s)[k] \in Nat /\ 0 + Bytes(s)[k] = Bytes(s)[k]
  BY BytesType
<1>3. n \in Fitting(s, 0)
  <2>1. n = 0 \/ 0 + Bytes(s)[n] <= TextSize
    BY <1>2
  <2> QED
    BY <2>1 DEF Fitting
<1>4. ASSUME NEW j \in Fitting(s, 0) PROVE j <= n
  <2>1. j \in 0..Len(s) /\ (j = 0 \/ Bytes(s)[j] <= TextSize)
    BY <1>2 DEF Fitting
  <2> SUFFICES ASSUME ~ (j <= n) PROVE FALSE
    OBVIOUS
  <2>2. n + 1 <= j /\ n + 1 \in 0..Len(s) /\ n < Len(s) /\ j # 0
    BY <1>1, <2>1
  <2>3. Bytes(s)[n + 1] <= Bytes(s)[j]
    BY <2>1, <2>2, BytesGrow
  <2>4. Bytes(s)[n + 1] \in Nat /\ Bytes(s)[j] \in Nat
    BY <1>2, <2>1, <2>2
  <2> QED
    BY <1>1, <2>1, <2>2, <2>3, <2>4
<1>5. Fitting(s, 0) \subseteq Nat
  BY FittingGreatest
<1> QED
  BY <1>3, <1>4, <1>5, VisibleIs

(* The beginning of a sequence, line by line.                              *)
LEMMA Beginning ==
  ASSUME NEW s \in Seq(Lines), NEW n \in 0..Len(s)
  PROVE  /\ SubSeq(s, 1, n) \in Seq(Lines) /\ Len(SubSeq(s, 1, n)) = n
         /\ \A i \in 1..n : SubSeq(s, 1, n)[i] = s[i]
<1>1. Len(s) \in Nat
  BY LenProperties
<1>2. \A i \in 1..n : s[i] \in Lines
  BY <1>1, ElementOfSeq
<1>3. /\ SubSeq(s, 1, n) \in Seq(Lines)
      /\ Len(SubSeq(s, 1, n)) = IF 1 <= n THEN n - 1 + 1 ELSE 0
      /\ \A i \in 1..(n - 1 + 1) : SubSeq(s, 1, n)[i] = s[1 + i - 1]
  BY <1>1, <1>2, SubSeqProperties
<1>4. n - 1 + 1 = n /\ \A i \in 1..n : 1 + i - 1 = i
  BY <1>1
<1>5. Len(SubSeq(s, 1, n)) = n
  BY <1>1, <1>3
<1> QED
  BY <1>3, <1>4, <1>5, Zenon

(* Cutting after a header what is cut already is cutting the whole.        *)
LEMMA VisibleOfVisible ==
  ASSUME NEW s \in Seq(Lines), NEW header \in Nat
  PROVE  Visible(Visible(s, 0), header) = Visible(s, header)
<1>0. Len(s) \in Nat /\ TextSize \in Nat
  BY LenProperties, SizeAssumption
<1>1. PICK n \in Fitting(s, 0) : \A j \in Fitting(s, 0) : j <= n
  BY FittingGreatest
<1>2. n \in 0..Len(s)
  BY FittingGreatest
<1> DEFINE t == SubSeq(s, 1, n)
<1>3. Visible(s, 0) = t
  BY <1>1, FittingGreatest, VisibleIs
<1>4. t \in Seq(Lines) /\ Len(t) = n /\ \A i \in 1..n : t[i] = s[i]
  BY <1>2, Beginning
<1>5. \A k \in 0..n : Bytes(s)[k] = Bytes(t)[k]
  <2>1. n <= Len(t) /\ \A i \in 1..n : s[i] = t[i]
    BY <1>0, <1>2, <1>4
  <2> HIDE DEF t
  <2> QED
    BY <1>2, <1>4, <2>1, BytesSame
<1> HIDE DEF t
<1>6. PICK k \in Fitting(t, header) : \A j \in Fitting(t, header) : j <= k
  BY <1>4, FittingGreatest
<1>7. k \in 0..n /\ (k = 0 \/ header + Bytes(t)[k] <= TextSize)
  BY <1>4 DEF Fitting
<1>8. k \in Fitting(s, header)
  BY <1>0, <1>2, <1>5, <1>7 DEF Fitting
<1>9. ASSUME NEW j \in Fitting(s, header) PROVE j <= k
  <2>1. j \in 0..Len(s) /\ (j = 0 \/ header + Bytes(s)[j] <= TextSize)
    BY DEF Fitting
  <2>2. Bytes(s)[j] \in Nat
    BY <2>1, BytesType
  <2>3. j = 0 \/ 0 + Bytes(s)[j] <= TextSize
    BY <1>0, <2>1, <2>2
  <2>4. j \in Fitting(s, 0)
    BY <2>1, <2>3 DEF Fitting
  <2>5. j \in 0..n
    BY <1>1, <1>2, <2>1, <2>4
  <2>6. j \in Fitting(t, header)
    BY <1>4, <1>5, <2>1, <2>5 DEF Fitting
  <2> QED
    BY <1>6, <2>6
<1>10. Visible(t, header) = SubSeq(t, 1, k)
  BY <1>4, <1>6, FittingGreatest, VisibleIs
<1>11. Visible(s, header) = SubSeq(s, 1, k)
  BY <1>8, <1>9, FittingGreatest, VisibleIs
<1>12. SubSeq(t, 1, k) = SubSeq(s, 1, k)
  <2>1. k \in 0..Len(t) /\ k \in 0..Len(s) /\ \A i \in 1..k : i \in 1..n
    BY <1>0, <1>2, <1>4, <1>7
  <2>2. /\ SubSeq(t, 1, k) \in Seq(Lines) /\ Len(SubSeq(t, 1, k)) = k
        /\ \A i \in 1..k : SubSeq(t, 1, k)[i] = t[i]
    BY <1>4, <2>1, Beginning
  <2>3. /\ SubSeq(s, 1, k) \in Seq(Lines) /\ Len(SubSeq(s, 1, k)) = k
        /\ \A i \in 1..k : SubSeq(s, 1, k)[i] = s[i]
    BY <2>1, Beginning
  <2>4. \A i \in 1..k : SubSeq(t, 1, k)[i] = SubSeq(s, 1, k)[i]
    BY <1>4, <2>1, <2>2, <2>3, Zenon
  <2>5. Len(SubSeq(t, 1, k)) = Len(SubSeq(s, 1, k))
    BY <2>2, <2>3, Zenon
  <2>6. \A i \in 1..Len(SubSeq(t, 1, k)) : SubSeq(t, 1, k)[i] = SubSeq(s, 1, k)[i]
    BY <2>2, <2>4, Zenon
  <2> QED
    BY <2>2, <2>3, <2>5, <2>6, SeqEqual, Zenon
<1> QED
  BY <1>3, <1>10, <1>11, <1>12

-----------------------------------------------------------------------------
(* What the terminal shows. *)

LEMMA TextInit == Init => TextInv /\ ShownIsLog
<1> SUFFICES ASSUME Init PROVE TextInv /\ ShownIsLog
  OBVIOUS
<1>1. TextInv
  BY DEF Init, TextInv
<1>2. LastLines(0) = <<>> /\ <<>> \in Seq(Lines) /\ Len(<<>>) = 0
  <2>1. Kept(0) = 0
    BY SizeAssumption DEF Kept
  <2>2. LastLines(0) = SubSeq(written, 1, 0)
    BY <2>1 DEF LastLines
  <2>3. <<>> \in Seq(Lines) /\ Len(<<>>) = 0
    BY EmptySeq
  <2>4. SubSeq(written, 1, 0) = <<>>
    BY SubSeqEmpty
  <2> QED
    BY <2>2, <2>3, <2>4
<1>3. Visible(<<>>, 0) = <<>>
  <2>1. ASSUME NEW s \in Seq(Lines), Len(s) = 0 PROVE Visible(s, 0) = <<>>
    <3>1. Visible(s, 0) = SubSeq(s, 1, 0)
      <4>1. 0 \in 0..Len(s) /\ ~ (0 < Len(s))
        BY <2>1
      <4> QED
        BY <4>1, VisibleUpTo
    <3>2. SubSeq(s, 1, 0) = <<>>
      BY SubSeqEmpty
    <3> QED
      BY <3>1, <3>2
  <2> QED
    BY <1>2, <2>1, Zenon
<1>4. shown.lines = <<>> /\ shown.taken = 0 /\ Header(shown.screen) = 0
  BY DEF Init, Header
<1> QED
  BY <1>1, <1>2, <1>3, <1>4 DEF ShownIsLog

(* The lines of an earlier moment stay what they were.                     *)
LEMMA LastLinesKept ==
  ASSUME TypeOK, NEW n \in Nat, n <= Len(written), NEW m \in Lines,
         written' = Append(written, m)
  PROVE  LastLines(n)' = LastLines(n)
<1> DEFINE a == n - Kept(n) + 1
<1>1. written \in Seq(Lines) /\ Len(written) \in Nat
  BY LenProperties DEF TypeOK
<1>2. Kept(n) \in 0..n /\ (n # 0 => Kept(n) # 0)
  BY SizeAssumption DEF Kept
<1>3. LastLines(n)' = SubSeq(written', a, n) /\ LastLines(n) = SubSeq(written, a, n)
  BY DEF LastLines, Kept
<1>4. CASE n = 0
  <2>1. a = 1
    BY <1>2, <1>4
  <2>2. SubSeq(written', 1, 0) = <<>> /\ SubSeq(written, 1, 0) = <<>>
    BY SubSeqEmpty
  <2> QED
    BY <1>3, <1>4, <2>1, <2>2
<1>5. CASE n # 0
  <2>1. a \in 1..Len(written) /\ n \in 1..Len(written)
    BY <1>1, <1>2, <1>5
  <2>2. written' = written \o <<m>> /\ <<m>> \in Seq(Lines)
    BY <1>1, AppendIsConcat
  <2> HIDE DEF a
  <2>3. SubSeq(written \o <<m>>, a, n) = SubSeq(written, a, n)
    BY <1>1, <2>1, <2>2, SubSeqOfConcat1
  <2> QED
    BY <1>3, <2>2, <2>3
<1> QED
  BY <1>4, <1>5

(* One turn of the loop. *)
LEMMA CopyLineFills ==
  ASSUME IInv, TextInv, CopyLine
  PROVE  TextInv'
<1> DEFINE n == Len(written)
           last == LastLines(n)
           j == Len(text)
           line == logs[j]
           length == Length[line] + 1
           room == TextSize - used
<1>1. /\ TypeOK /\ Exclusive /\ RingInv /\ CopyInv
      /\ pc[Terminal] = "copy" /\ j < log_count
  BY DEF IInv, CopyLine
<1>2. /\ n \in Nat /\ log_count = Kept(n) /\ log_count \in 0..n
      /\ \A i \in 0..(log_count - 1) : logs[i] = last[i + 1] /\ logs[i] \in Lines
  BY <1>1, WholeRing DEF Holding
<1>3. last \in Seq(Lines) /\ Len(last) = log_count
  BY <1>1, <1>2, KeptLines
<1>4. /\ text \in Seq(Lines) /\ j \in Nat /\ used \in Nat
      /\ TextSize \in Nat \ {0} /\ pc \in [Writers \cup {Terminal} -> WriterPc \cup TerminalPc]
  BY <1>1, LenProperties, SizeAssumption DEF TypeOK
<1>5. taken = n /\ text = SubSeq(last, 1, j) /\ used = Bytes(last)[j] /\ used < TextSize
  BY <1>1, CopyIs DEF Copied, TextInv
<1>6. /\ text' = IF length <= room THEN Append(text, line) ELSE text
      /\ IF length < room
         THEN used' = used + length /\ UNCHANGED pc
         ELSE used' = TextSize - 1 /\ pc' = [pc EXCEPT ![Terminal] = "unlock"]
      /\ UNCHANGED <<taken, written>>
  BY DEF CopyLine, Goto
<1>7. LastLines(taken)' = last
  BY <1>5, <1>6 DEF LastLines, Kept
<1> HIDE DEF last, n
<1>8. j \in 0..(log_count - 1) /\ j + 1 \in 1..Len(last) /\ j \in 0..Len(last)
      /\ j + 1 - 1 = j
  <2> HIDE DEF j
  <2> QED
    BY <1>1, <1>2, <1>3, <1>4
<1>9. line = last[j + 1] /\ line \in Lines /\ Length[line] \in Nat
  BY <1>2, <1>8, LineAssumption
<1>10. Bytes(last)[j + 1] = used + length
  <2>1. Bytes(last)[j + 1] = Bytes(last)[j + 1 - 1] + Length[last[j + 1]] + 1
    BY <1>3, <1>8, BytesIs
  <2> HIDE DEF j
  <2> QED
    BY <1>4, <1>5, <1>8, <1>9, <2>1
<1>11. Append(text, line) = SubSeq(last, 1, j + 1) /\ Len(Append(text, line)) = j + 1
  <2>1. Len(Append(text, line)) = j + 1
    BY <1>4, <1>9, AppendProperties
  <2>2. 1 \in 1..Len(last)
    BY <1>3, <1>8
  <2>3. SubSeq(last, 1, j + 1) = SubSeq(last, 1, j + 1 - 1) \o <<last[j + 1]>>
    <3> DEFINE k == j + 1
    <3>1. k \in 1..Len(last)
      BY <1>8
    <3> HIDE DEF k
    <3>2. SubSeq(last, 1, k) = SubSeq(last, 1, k - 1) \o <<last[k]>>
      BY <1>3, <2>2, <3>1, SubSeqRecursiveSecond
    <3> QED
      BY <3>2 DEF k
  <2>4. Append(text, line) = text \o <<line>>
    BY <1>4, <1>9, AppendIsConcat
  <2> QED
    BY <1>5, <1>8, <1>9, <2>1, <2>3, <2>4
<1> HIDE DEF j, line
<1>12. CASE length < room
  <2>1. text' = Append(text, line) /\ used' = used + length /\ pc' = pc
    BY <1>4, <1>6, <1>9, <1>12
  <2>2. used' < TextSize
    BY <1>4, <1>9, <1>12, <2>1
  <2>3. used' = Bytes(LastLines(taken)')[Len(text')]
    BY <1>7, <1>10, <1>11, <2>1
  <2> QED
    BY <1>1, <2>1, <2>2, <2>3 DEF TextInv
<1>13. CASE length = room
  <2>1. text' = Append(text, line) /\ pc' = [pc EXCEPT ![Terminal] = "unlock"]
    BY <1>4, <1>6, <1>9, <1>13
  <2>2. Bytes(last)[j + 1] = TextSize
    BY <1>4, <1>9, <1>10, <1>13
  <2>3. ASSUME j + 1 < Len(last) PROVE Bytes(last)[j + 1 + 1] > TextSize
    <3>1. j + 1 + 1 \in 1..Len(last) /\ (j + 1 + 1) - 1 = j + 1
      BY <1>3, <1>2, <1>4, <2>3
    <3>2. last[j + 1 + 1] \in Lines
      BY <1>3, <3>1, ElementOfSeq
    <3>3. Bytes(last)[j + 1 + 1] =
            Bytes(last)[(j + 1 + 1) - 1] + Length[last[j + 1 + 1]] + 1
      <4> DEFINE k == j + 1 + 1
      <4>1. k \in 1..Len(last)
        BY <3>1
      <4> HIDE DEF k
      <4>2. Bytes(last)[k] = Bytes(last)[k - 1] + Length[last[k]] + 1
        BY <1>3, <4>1, BytesIs
      <4> QED
        BY <4>2 DEF k
    <3>4. Length[last[j + 1 + 1]] \in Nat
      BY <3>2, LineAssumption
    <3>5. Bytes(last)[(j + 1 + 1) - 1] = TextSize
      BY <2>2, <3>1
    <3> QED
      BY <1>4, <3>3, <3>4, <3>5
  <2>4. j + 1 \in 0..Len(last) /\ TextSize <= TextSize
    BY <1>4, <1>8
  <2>5. Visible(last, 0) = SubSeq(last, 1, j + 1)
    BY <1>3, <2>2, <2>3, <2>4, VisibleUpTo
  <2>6. pc'[Terminal] = "unlock" /\ text' = Visible(LastLines(taken)', 0)
    BY <1>4, <1>7, <1>11, <2>1, <2>5
  <2> QED
    BY <1>7, <2>6 DEF TextInv
<1>14. CASE length > room
  <2>1. text' = text /\ pc' = [pc EXCEPT ![Terminal] = "unlock"]
    BY <1>4, <1>6, <1>9, <1>14
  <2>2. Bytes(last)[j + 1] > TextSize /\ Bytes(last)[j] <= TextSize
    BY <1>4, <1>5, <1>9, <1>10, <1>14
  <2>3. Visible(last, 0) = SubSeq(last, 1, j)
    BY <1>3, <1>8, <2>2, VisibleUpTo
  <2>4. pc'[Terminal] = "unlock" /\ text' = Visible(LastLines(taken)', 0)
    BY <1>4, <1>5, <1>7, <2>1, <2>3
  <2> QED
    BY <1>7, <2>4 DEF TextInv
<1>15. length \in Int /\ room \in Int
  BY <1>4, <1>9
<1> HIDE DEF length, room
<1> QED
  BY <1>12, <1>13, <1>14, <1>15

LEMMA TextStep == IInv /\ TextInv /\ ShownIsLog /\ [Next]_vars => TextInv' /\ ShownIsLog'
<1> SUFFICES ASSUME IInv, TextInv, ShownIsLog, [Next]_vars
             PROVE  TextInv' /\ ShownIsLog'
  OBVIOUS
<1>1. TypeOK /\ Exclusive /\ RingInv /\ CopyInv /\ Waiting
  BY DEF IInv
<1>2. /\ pc \in [Writers \cup {Terminal} -> WriterPc \cup TerminalPc]
      /\ taken \in Nat /\ shown.taken \in Nat /\ shown.taken <= Len(written)
      /\ Terminal \in Writers \cup {Terminal} /\ Terminal \notin Writers
  BY <1>1, ThreadAssumption DEF TypeOK, Display, CopyInv
<1>3. ASSUME UNCHANGED <<shown, written>> PROVE ShownIsLog'
  BY <1>3 DEF ShownIsLog, LastLines, Kept
<1>4. ASSUME UNCHANGED <<copying, written>>,
             pc'[Terminal] = pc[Terminal] \/ pc'[Terminal] \notin {"copy", "unlock"}
      PROVE  TextInv'
  BY <1>4 DEF TextInv, copying, LastLines, Kept
<1>5. ASSUME NEW w \in Writers, AddLog(w), ~ StoreLine(w)
      PROVE  TextInv' /\ ShownIsLog'
  <2>1. /\ UNCHANGED <<copying, shown, written>>
        /\ \E p \in WriterPc : pc' = [pc EXCEPT ![w] = p]
    BY <1>5 DEF AddLog, CallAddLog, LockRing, DropOldest, UnlockRing, Unlock, Goto, WriterPc
  <2>2. pc'[Terminal] = pc[Terminal]
    BY <1>2, <2>1
  <2> QED
    BY <1>3, <1>4, <2>1, <2>2
<1>6. ASSUME NEW w \in Writers, StoreLine(w) PROVE TextInv' /\ ShownIsLog'
  <2>1. /\ pc[w] = "store" /\ pc' = [pc EXCEPT ![w] = "unlock"]
        /\ written' = Append(written, message[w]) /\ message[w] \in Lines
        /\ shown' = shown
    BY <1>1, <1>6 DEF StoreLine, Goto, Waiting
  <2>2. pc'[Terminal] = pc[Terminal] /\ pc[Terminal] \notin {"copy", "unlock"}
    BY <1>1, <1>2, <2>1, StoringAlone DEF Holding
  <2>3. TextInv'
    BY <2>2 DEF TextInv
  <2>4. LastLines(shown.taken)' = LastLines(shown.taken)
    <3>1. \A n \in Nat : n <= Len(written) => LastLines(n)' = LastLines(n)
      BY <1>1, <2>1, LastLinesKept
    <3>2. LastLines(shown.taken)' = SubSeq(written', shown.taken - Kept(shown.taken) + 1, shown.taken)
      BY <2>1 DEF LastLines, Kept
    <3> QED
      BY <1>2, <3>1, <3>2 DEF LastLines, Kept
  <2> QED
    BY <2>1, <2>3, <2>4 DEF ShownIsLog
<1>7. CASE Collect
  <2>1. /\ UNCHANGED <<shown, written>>
        /\ pc' = [pc EXCEPT ![Terminal] = "lock"]
    BY <1>7 DEF Collect, Goto
  <2>2. pc'[Terminal] = "lock"
    BY <1>2, <2>1
  <2> QED
    BY <1>3, <2>1, <2>2 DEF TextInv
<1>8. CASE LockToCopy
  <2>1. /\ UNCHANGED <<shown, written>>
        /\ pc' = [pc EXCEPT ![Terminal] = "copy"]
        /\ used' = 0 /\ text' = <<>> /\ taken' = Len(written)
    BY <1>8 DEF LockToCopy, Goto
  <2>2. pc'[Terminal] = "copy" /\ 0 < TextSize /\ Len(<<>>) = 0
    BY <1>2, <2>1, SizeAssumption, EmptySeq
  <2>3. LastLines(taken)' = LastLines(Len(written))
    BY <2>1 DEF LastLines, Kept
  <2>4. Bytes(LastLines(Len(written)))[0] = 0
    BY <1>1, KeptLines, BytesIs
  <2>5. TextInv'
    BY <2>1, <2>2, <2>3, <2>4 DEF TextInv
  <2> QED
    BY <1>3, <2>1, <2>5
<1>9. CASE CopyLine
  <2>1. UNCHANGED <<shown, written>>
    BY <1>9 DEF CopyLine
  <2> QED
    BY <1>3, <1>9, <2>1, CopyLineFills
<1>10. CASE CopyEnds
  <2> DEFINE last == LastLines(Len(written))
  <2>1. /\ UNCHANGED <<copying, shown, written>>
        /\ pc[Terminal] = "copy" /\ Len(text) = log_count
        /\ pc' = [pc EXCEPT ![Terminal] = "unlock"]
    BY <1>10 DEF CopyEnds, Goto
  <2>2. taken = Len(written) /\ text = SubSeq(last, 1, Len(text))
    BY <1>1, <2>1, CopyIs DEF Copied
  <2>3. used = Bytes(last)[Len(text)] /\ used < TextSize
    BY <2>1, <2>2 DEF TextInv
  <2>4. last \in Seq(Lines) /\ Len(last) = Len(text) /\ Len(text) \in Nat
    BY <1>1, <2>1, WholeRing, KeptLines DEF Holding
  <2>5. LastLines(taken)' = last
    BY <2>1, <2>2 DEF LastLines, Kept, copying
  <2> HIDE DEF last
  <2>6. Visible(last, 0) = SubSeq(last, 1, Len(text))
    <3>1. Len(text) \in 0..Len(last) /\ ~ (Len(text) < Len(last))
      BY <2>4
    <3>2. Bytes(last)[Len(text)] <= TextSize
      BY <1>1, <2>3, SizeAssumption DEF TypeOK
    <3> QED
      BY <2>4, <3>1, <3>2, VisibleUpTo
  <2>7. pc'[Terminal] = "unlock" /\ text' = text
    BY <1>2, <2>1 DEF copying
  <2>8. TextInv'
    BY <2>2, <2>5, <2>6, <2>7 DEF TextInv
  <2> QED
    BY <1>3, <2>1, <2>8
<1>11. CASE ShowText
  <2> DEFINE last == LastLines(Len(written))
  <2>1. /\ UNCHANGED <<copying, written>>
        /\ pc[Terminal] = "unlock" /\ pc' = [pc EXCEPT ![Terminal] = "idle"]
        /\ shown' = [screen |-> screen, taken |-> taken,
                     lines |-> IF screen = "window"
                               THEN Visible(text, HeaderLength) ELSE text]
    BY <1>11 DEF ShowText, Unlock, Goto
  <2>2. taken = Len(written) /\ text = Visible(last, 0)
    BY <1>1, <2>1, CopyIs DEF Copied, TextInv
  <2>3. last \in Seq(Lines)
    BY <1>1, KeptLines
  <2>4. Visible(text, HeaderLength) = Visible(last, HeaderLength)
    BY <2>2, <2>3, SizeAssumption, VisibleOfVisible
  <2>5. shown'.lines = Visible(last, IF screen = "window" THEN HeaderLength ELSE 0)
    <3>1. shown'.lines = IF screen = "window" THEN Visible(text, HeaderLength) ELSE text
      BY <2>1
    <3> HIDE DEF last
    <3> QED
      BY <2>2, <2>4, <3>1
  <2>6. LastLines(shown.taken)' = last
    <3>1. shown'.taken = Len(written)
      BY <2>1, <2>2
    <3> QED
      BY <2>1, <3>1 DEF LastLines, Kept
  <2>7. Header(shown.screen)' = IF screen = "window" THEN HeaderLength ELSE 0
    <3>1. shown'.screen = screen
      BY <2>1
    <3> QED
      BY <3>1 DEF Header
  <2>9. ShownIsLog'
    <3> HIDE DEF last
    <3>1. (shown.lines)' = shown'.lines
      OBVIOUS
    <3>2. ShownIsLog' <=>
            shown'.lines = Visible(LastLines(shown.taken), Header(shown.screen))'
      BY DEF ShownIsLog
    <3>3. Visible(LastLines(shown.taken), Header(shown.screen))' =
            Visible(last, IF screen = "window" THEN HeaderLength ELSE 0)
      BY <2>6, <2>7 DEF Visible, Fitting, Bytes
    <3> QED
      BY <2>5, <3>2, <3>3
  <2>8. pc'[Terminal] = "idle"
    BY <1>2, <2>1
  <2> QED
    BY <2>8, <2>9 DEF TextInv
<1>12. CASE UNCHANGED vars
  BY <1>3, <1>4, <1>12 DEF vars
<1> QED
  BY <1>5, <1>6, <1>7, <1>8, <1>9, <1>10, <1>11, <1>12 DEF Next, CopyLogs

-----------------------------------------------------------------------------
(* The theorems. *)

LEMMA IInvStep == IInv /\ [Next]_vars => IInv'
<1> SUFFICES ASSUME IInv, [Next]_vars PROVE IInv'
  OBVIOUS
<1>1. TypeOK /\ Exclusive /\ RingInv /\ Waiting /\ CopyInv
  BY DEF IInv
<1>2. CASE UNCHANGED vars
  BY <1>1, <1>2 DEF vars, ring, copying, IInv, TypeOK, Exclusive, RingInv, Waiting,
                    CopyInv, Storing, Kept, LastLines
<1>3. ASSUME Next PROVE Exclusive' /\ Waiting'
  BY <1>1, <1>3, ExclusiveStep, WaitingStep
<1>4. ASSUME NEW w \in Writers, CallAddLog(w) \/ LockRing(w) \/ UnlockRing(w)
      PROVE  TypeOK' /\ RingInv' /\ CopyInv'
  <2>1. /\ UNCHANGED <<ring, copying, shown, written>>
        /\ \E p \in WriterPc : pc' = [pc EXCEPT ![w] = p]
        /\ \E m \in Lines \cup {NoLine} :
             message' = message \/ message' = [message EXCEPT ![w] = m]
        /\ mutex' \in {mutex, w, NoThread}
        /\ pc[w] # "store" /\ pc'[w] # "store"
    BY <1>1, <1>4 DEF CallAddLog, LockRing, UnlockRing, Lock, Unlock, Goto, WriterPc,
                      TypeOK
  <2>2. TypeOK'
    BY <1>1, <2>1, ThreadAssumption DEF TypeOK, ring, copying
  <2>3. pc'[Terminal] = pc[Terminal] /\ (Storing' <=> Storing)
    BY <1>1, <2>1, ThreadAssumption DEF TypeOK, Storing
  <2>4. RingInv'
    BY <1>1, <2>1, <2>3, RingKept
  <2>5. CopyInv'
    BY <1>1, <2>1, <2>3 DEF CopyInv, ring, copying, LastLines, Kept
  <2> QED
    BY <2>2, <2>4, <2>5
<1>5. ASSUME NEW w \in Writers, DropOldest(w) \/ StoreLine(w)
      PROVE  TypeOK' /\ RingInv' /\ CopyInv'
  <2>1. /\ pc[w] \in {"shift", "store"}
        /\ \E p \in WriterPc : pc' = [pc EXCEPT ![w] = p]
        /\ UNCHANGED <<mutex, message, copying, shown>>
    BY <1>5 DEF DropOldest, StoreLine, Goto, WriterPc
  <2>2. /\ RingInv' /\ logs' \in [Slots -> Lines \cup {NoLine}]
        /\ log_count' \in 0..MaxLogs
    BY <1>5, DropStep, StoreStep
  <2>3. written' \in Seq(Lines) /\ Len(written) <= Len(written')
    <3>1. CASE DropOldest(w)
      BY <1>1, <3>1, KeptLines DEF DropOldest, TypeOK
    <3>2. CASE StoreLine(w)
      BY <1>1, <3>2, StoreStep, KeptLines
    <3> QED
      BY <1>5, <3>1, <3>2
  <2>4. TypeOK'
    BY <1>1, <2>1, <2>2, <2>3, ThreadAssumption DEF TypeOK, copying
  <2>5. pc'[Terminal] = pc[Terminal] /\ pc[Terminal] \notin {"copy", "unlock"}
    BY <1>1, <2>1, StoringAlone, ThreadAssumption DEF TypeOK, Holding
  <2>6. taken' <= Len(written)' /\ shown'.taken <= Len(written)'
    <3>1. /\ taken \in Nat /\ shown.taken \in Nat
          /\ taken <= Len(written) /\ shown.taken <= Len(written)
      BY <1>1 DEF TypeOK, CopyInv, Display
    <3>2. Len(written) \in Nat /\ Len(written') \in Nat
      BY <1>1, <2>3, LenProperties DEF TypeOK
    <3>3. taken' = taken /\ shown' = shown
      BY <2>1 DEF copying
    <3> QED
      BY <2>3, <3>1, <3>2, <3>3
  <2> QED
    BY <2>2, <2>4, <2>5, <2>6 DEF CopyInv
<1>6. ASSUME Collect \/ CopyEnds PROVE TypeOK' /\ RingInv' /\ CopyInv'
  <2>1. /\ UNCHANGED <<ring, mutex, message, used, text, taken, shown, written>>
        /\ screen' \in Screen
        /\ \/ pc' = [pc EXCEPT ![Terminal] = "lock"]
           \/ pc[Terminal] = "copy" /\ pc' = [pc EXCEPT ![Terminal] = "unlock"]
    BY <1>1, <1>6 DEF Collect, CopyEnds, Goto, copying, TypeOK
  <2>2. TypeOK'
    BY <1>1, <2>1, ThreadAssumption DEF TypeOK, ring, TerminalPc
  <2>3. Storing' <=> Storing
    BY <1>1, <2>1, ThreadAssumption DEF TypeOK, Storing
  <2>4. RingInv'
    BY <1>1, <2>1, <2>3, RingKept
  <2>5. pc'[Terminal] \in {"copy", "unlock"} => pc[Terminal] \in {"copy", "unlock"}
    BY <1>1, <2>1 DEF TypeOK
  <2>6. CopyInv'
    BY <1>1, <2>1, <2>5 DEF CopyInv, ring, LastLines, Kept
  <2> QED
    BY <2>2, <2>4, <2>6
<1>7. ASSUME LockToCopy PROVE TypeOK' /\ RingInv' /\ CopyInv'
  <2>1. /\ UNCHANGED <<ring, message, screen, shown, written>>
        /\ mutex' = Terminal /\ pc' = [pc EXCEPT ![Terminal] = "copy"]
        /\ used' = 0 /\ text' = <<>> /\ taken' = Len(written)
    BY <1>7 DEF LockToCopy, Lock, Goto
  <2>2. Len(written) \in Nat /\ log_count \in Nat
    BY <1>1, KeptLines, SizeAssumption DEF TypeOK
  <2>3. <<>> \in Seq(Lines) /\ Len(<<>>) = 0
    BY EmptySeq
  <2>4. TypeOK'
    BY <1>1, <2>1, <2>2, <2>3, ThreadAssumption DEF TypeOK, ring, TerminalPc
  <2>5. Storing' <=> Storing
    BY <1>1, <2>1, ThreadAssumption DEF TypeOK, Storing
  <2>6. RingInv'
    BY <1>1, <2>1, <2>5, RingKept
  <2>7. Copied'
    <3>1. text' = SubSeq(LastLines(taken)', 1, 0)
      BY <2>1, SubSeqEmpty
    <3>2. Len(text)' = 0 /\ Len(text)' <= log_count'
      BY <2>1, <2>2, <2>3 DEF ring
    <3> QED
      BY <2>1, <3>1, <3>2 DEF Copied
  <2>8. taken' <= Len(written)' /\ shown'.taken <= Len(written)'
    <3>1. shown.taken <= Len(written)
      BY <1>1 DEF CopyInv
    <3> QED
      BY <2>1, <2>2, <3>1
  <2> QED
    BY <2>4, <2>6, <2>7, <2>8 DEF CopyInv, Copied
<1>8. ASSUME CopyLine PROVE TypeOK' /\ RingInv' /\ CopyInv'
  <2>1. /\ UNCHANGED <<ring, mutex, message, screen, taken, shown, written>>
        /\ pc' = pc \/ pc' = [pc EXCEPT ![Terminal] = "unlock"]
    BY <1>8 DEF CopyLine, Goto
  <2>2. text' \in Seq(Lines) /\ used' \in Nat /\ CopyInv'
    BY <1>8, CopyLineStep
  <2>3. TypeOK'
    BY <1>1, <2>1, <2>2, ThreadAssumption DEF TypeOK, ring, TerminalPc
  <2>4. Storing' <=> Storing
    BY <1>1, <2>1, ThreadAssumption DEF TypeOK, Storing
  <2> QED
    BY <1>1, <2>1, <2>2, <2>3, <2>4, RingKept
<1>9. ASSUME ShowText PROVE TypeOK' /\ RingInv' /\ CopyInv'
  <2>1. /\ UNCHANGED <<ring, message, copying, written>>
        /\ mutex' = NoThread /\ pc' = [pc EXCEPT ![Terminal] = "idle"]
        /\ shown' = [screen |-> screen, taken |-> taken,
                     lines |-> IF screen = "window"
                               THEN Visible(text, HeaderLength) ELSE text]
    BY <1>9 DEF ShowText, Unlock, Goto
  <2>2. shown' \in Display /\ shown'.taken = taken
    <3>1. text \in Seq(Lines) /\ screen \in Screen /\ taken \in Nat
      BY <1>1 DEF TypeOK
    <3>2. Visible(text, HeaderLength) \in Seq(Lines)
      BY <3>1, VisibleType
    <3>3. (IF screen = "window" THEN Visible(text, HeaderLength) ELSE text) \in Seq(Lines)
      BY <3>1, <3>2, Zenon
    <3> QED
      BY <2>1, <3>1, <3>3 DEF Display
  <2>3. TypeOK'
    BY <1>1, <2>1, <2>2, ThreadAssumption DEF TypeOK, ring, copying, TerminalPc
  <2>4. Storing' <=> Storing
    BY <1>1, <2>1, ThreadAssumption DEF TypeOK, Storing
  <2>5. RingInv'
    BY <1>1, <2>1, <2>4, RingKept
  <2>6. CopyInv'
    BY <1>1, <2>1, <2>2 DEF CopyInv, TypeOK, copying
  <2> QED
    BY <2>3, <2>5, <2>6
<1>10. ASSUME Next PROVE TypeOK' /\ RingInv' /\ CopyInv'
  BY <1>4, <1>5, <1>6, <1>7, <1>8, <1>9, <1>10 DEF Next, AddLog, CopyLogs
<1> QED
  BY <1>2, <1>3, <1>10 DEF IInv

(* add_log and the two copying loops of the screens, by any number of      *)
(* threads: one thread is in the critical section, and what the terminal   *)
(* has copied so far is the beginning of what the ring holds.              *)
THEOREM LogInvariance == Spec => []IInv
BY IInvInit, IInvStep, PTL DEF Spec

(* Whatever the number of writers, lines and places: whoever takes the     *)
(* mutex finds the last MAX_LOGS lines logged, in their order.             *)
THEOREM RingHolds == Spec => []RingIsLog
<1>1. IInv => RingIsLog
  <2> SUFFICES ASSUME IInv, mutex = NoThread
               PROVE  /\ log_count = Kept(Len(written))
                      /\ \A i \in 0..(log_count - 1) :
                           logs[i] = written[Len(written) - log_count + i + 1]
    BY DEF RingIsLog
  <2>1. ~ Storing
    BY StoringAlone DEF IInv
  <2> QED
    BY <2>1 DEF IInv, RingInv
<1> QED
  BY <1>1, LogInvariance, PTL

(* The buffer of the copying loop, at each of its turns: the bytes counted *)
(* are those of the lines in it, and it is left with all that fit.         *)
THEOREM TextInvariance == Spec => [](TextInv /\ ShownIsLog)
BY TextInit, TextStep, LogInvariance, PTL DEF Spec

(* Whatever is logged meanwhile, and whatever the sizes of the buffers and *)
(* of the lines: what the operator reads is the log of one moment, cut     *)
(* once after the last line that fits, although it is cut twice.           *)
THEOREM ShownTrue == Spec => []ShownIsLog
BY TextInvariance, PTL

=============================================================================
