-------------------------- MODULE VoteMessageProofs --------------------------
(* The theorems about the message: for any widths of the fields, any names *)
(* of candidates shorter than them and any text, what sscanf and the two   *)
(* checks accept is the format, and the vote read is the one written.      *)
EXTENDS VoteMessage, SequenceTheorems, WellFoundedInduction, TLAPS

-----------------------------------------------------------------------------
(* The first of some places. *)

LEMMA LeastIs ==
  ASSUME NEW S \in SUBSET Nat, S # {}
  PROVE  Least(S) \in S /\ \A j \in S : Least(S) <= j
<1>1. PICK i \in S : \A j \in S : <<j, i>> \notin OpToRel(<, Nat)
  BY NatLessThanWellFounded, WFMin, Zenon
<1>2. \A j \in S : ~ (j < i)
  BY <1>1, Zenon DEF OpToRel
<1>3. \A j \in S : i <= j
  BY <1>2
<1>4. \E k \in S : \A j \in S : k <= j
  BY <1>3
<1> QED
  BY <1>4, Zenon DEF Least

(* The place of s from p on where P first holds, or the end.               *)
FirstAt(s, p, P, r) ==
  /\ r \in p..(Len(s) + 1)
  /\ \A i \in p..(r - 1) : s[i] \notin P
  /\ r <= Len(s) => s[r] \in P

LEMMA NextIs ==
  ASSUME NEW s, Len(s) \in Nat, NEW p \in 1..(Len(s) + 1), NEW C
  PROVE  FirstAt(s, p, C, Next(s, p, C))
<1> DEFINE S == {i \in p..Len(s) : s[i] \in C} \cup {Len(s) + 1}
           r == Next(s, p, C)
<1>1. S \in SUBSET Nat /\ S # {}
  OBVIOUS
<1>2. r = Least(S)
  BY DEF Next
<1> HIDE DEF S, r
<1>3. r \in S /\ \A j \in S : r <= j
  BY <1>1, <1>2, LeastIs
<1>4. r \in p..(Len(s) + 1) /\ (r <= Len(s) => s[r] \in C)
  BY <1>3 DEF S
<1>5. ASSUME NEW i \in p..(r - 1) PROVE s[i] \notin C
  <2>1. i \in p..Len(s) /\ ~ (r <= i)
    BY <1>4
  <2> QED
    BY <1>3, <2>1 DEF S
<1> QED
  BY <1>4, <1>5 DEF FirstAt, r

LEMMA PastIs ==
  ASSUME NEW s, Len(s) \in Nat, NEW p \in 1..(Len(s) + 1), NEW C
  PROVE  /\ Past(s, p, C) \in p..(Len(s) + 1)
         /\ \A i \in p..(Past(s, p, C) - 1) : s[i] \in C
         /\ Past(s, p, C) <= Len(s) => s[Past(s, p, C)] \notin C
<1> DEFINE S == {i \in p..Len(s) : s[i] \notin C} \cup {Len(s) + 1}
           r == Past(s, p, C)
<1>1. S \in SUBSET Nat /\ S # {}
  OBVIOUS
<1>2. r = Least(S)
  BY DEF Past
<1> HIDE DEF S, r
<1>3. r \in S /\ \A j \in S : r <= j
  BY <1>1, <1>2, LeastIs
<1>4. r \in p..(Len(s) + 1) /\ (r <= Len(s) => s[r] \notin C)
  BY <1>3 DEF S
<1>5. ASSUME NEW i \in p..(r - 1) PROVE s[i] \in C
  <2>1. i \in p..Len(s) /\ ~ (r <= i)
    BY <1>4
  <2> QED
    BY <1>3, <2>1 DEF S
<1> QED
  BY <1>4, <1>5 DEF r

-----------------------------------------------------------------------------
(* One field of the format: where its text begins and ends. *)

Scanned(s, p, limit, from, to) ==
  /\ from \in p..(Len(s) + 1) /\ to \in from..(Len(s) + 1) /\ to - from <= limit
  /\ \A i \in p..(from - 1) : s[i] \in Blanks
  /\ \A i \in from..(to - 1) : s[i] \notin Blanks
  /\ from <= Len(s) => from < to
  /\ to <= Len(s) /\ to - from < limit => s[to] \in Blanks

LEMMA FieldIs ==
  ASSUME NEW s, Len(s) \in Nat, NEW p \in 1..(Len(s) + 1), NEW limit \in Nat \ {0}
  PROVE  \E from, to \in 1..(Len(s) + 1) :
           /\ Scanned(s, p, limit, from, to)
           /\ Field(s, p, limit) = [text |-> SubSeq(s, from, to - 1), end |-> to]
<1> DEFINE from == Past(s, p, Blanks)
           gap == Next(s, from, Blanks)
           S == {gap, from + limit}
           to == Least(S)
<1>1. /\ from \in p..(Len(s) + 1)
      /\ \A i \in p..(from - 1) : s[i] \in Blanks
      /\ from <= Len(s) => s[from] \notin Blanks
  BY PastIs
<1>2. Field(s, p, limit) = [text |-> SubSeq(s, from, to - 1), end |-> to]
  BY DEF Field
<1>3. from \in 1..(Len(s) + 1)
  BY <1>1
<1> HIDE DEF from
<1>4. FirstAt(s, from, Blanks, gap)
  BY <1>3, NextIs
<1>5. /\ gap \in from..(Len(s) + 1)
      /\ \A i \in from..(gap - 1) : s[i] \notin Blanks
      /\ gap <= Len(s) => s[gap] \in Blanks
  BY <1>4 DEF FirstAt
<1> HIDE DEF gap
<1>6. S \in SUBSET Nat /\ S # {}
  BY <1>3, <1>5
<1>7. to \in S /\ \A j \in S : to <= j
  <2> HIDE DEF S
  <2> QED
    BY <1>6, LeastIs
<1>8. (to = gap \/ to = from + limit) /\ to <= gap /\ to <= from + limit
  BY <1>7
<1> HIDE DEF to
<1>9. Scanned(s, p, limit, from, to)
  <2>1. to \in from..(Len(s) + 1) /\ to - from <= limit
    BY <1>3, <1>5, <1>8
  <2>2. \A i \in from..(to - 1) : s[i] \notin Blanks
    BY <1>3, <1>5, <1>8
  <2>3. from <= Len(s) => from < to
    <3>1. from <= Len(s) => gap # from
      BY <1>1, <1>5
    <3> QED
      BY <1>3, <1>5, <1>8, <3>1
  <2>4. to <= Len(s) /\ to - from < limit => s[to] \in Blanks
    <3>1. to - from < limit => to # from + limit
      BY <1>3
    <3> QED
      BY <1>5, <1>8, <3>1
  <2> QED
    BY <1>1, <2>1, <2>2, <2>3, <2>4 DEF Scanned
<1>10. to \in 1..(Len(s) + 1)
  BY <1>3, <1>9 DEF Scanned
<1> QED
  BY <1>2, <1>3, <1>9, <1>10

(* They are the only such places.                                          *)
LEMMA ScannedOnce ==
  ASSUME NEW s, Len(s) \in Nat, NEW p \in 1..(Len(s) + 1), NEW limit \in Nat \ {0},
         NEW f \in 1..(Len(s) + 1), NEW t \in 1..(Len(s) + 1),
         NEW g \in 1..(Len(s) + 1), NEW u \in 1..(Len(s) + 1),
         Scanned(s, p, limit, f, t), Scanned(s, p, limit, g, u)
  PROVE  f = g /\ t = u
<1>1. f = g
  <2>1. ASSUME NEW a \in 1..(Len(s) + 1), NEW b \in 1..(Len(s) + 1),
               NEW c \in 1..(Len(s) + 1), NEW d \in 1..(Len(s) + 1),
               Scanned(s, p, limit, a, b), Scanned(s, p, limit, c, d), a < c
        PROVE  FALSE
    <3>1. a \in p..(c - 1) /\ a \in a..(b - 1)
      BY <2>1 DEF Scanned
    <3> QED
      BY <2>1, <3>1 DEF Scanned
  <2>2. ~ (f < g) /\ ~ (g < f)
    BY <2>1
  <2> QED
    BY <2>2
<1>2. t = u
  <2>1. ASSUME NEW b \in 1..(Len(s) + 1), NEW d \in 1..(Len(s) + 1),
               Scanned(s, p, limit, f, b), Scanned(s, p, limit, f, d), b < d
        PROVE  FALSE
    <3>1. b \in f..(d - 1) /\ b <= Len(s) /\ b - f < limit
      BY <2>1 DEF Scanned
    <3> QED
      BY <2>1, <3>1 DEF Scanned
  <2>2. ~ (t < u) /\ ~ (u < t)
    BY <1>1, <2>1
  <2> QED
    BY <2>2
<1> QED
  BY <1>1, <1>2

LEMMA FieldAt ==
  ASSUME NEW s, Len(s) \in Nat, NEW p \in 1..(Len(s) + 1), NEW limit \in Nat \ {0},
         NEW f \in 1..(Len(s) + 1), NEW t \in 1..(Len(s) + 1),
         Scanned(s, p, limit, f, t)
  PROVE  Field(s, p, limit) = [text |-> SubSeq(s, f, t - 1), end |-> t]
<1>1. PICK from \in 1..(Len(s) + 1), to \in 1..(Len(s) + 1) :
        /\ Scanned(s, p, limit, from, to)
        /\ Field(s, p, limit) = [text |-> SubSeq(s, from, to - 1), end |-> to]
  BY FieldIs
<1>2. from = f /\ to = t
  BY <1>1, ScannedOnce
<1> QED
  BY <1>1, <1>2

(* A part of a text.                                                       *)
LEMMA Part ==
  ASSUME NEW C, NEW s \in Seq(C), NEW a \in 1..(Len(s) + 1), NEW b \in Nat,
         a <= b + 1, b <= Len(s)
  PROVE  /\ SubSeq(s, a, b) \in Seq(C) /\ Len(SubSeq(s, a, b)) = b - a + 1
         /\ \A i \in 1..(b - a + 1) : SubSeq(s, a, b)[i] = s[a + i - 1]
<1>1. \A i \in a..b : s[i] \in C
  BY ElementOfSeq
<1>2. /\ SubSeq(s, a, b) \in Seq(C)
      /\ Len(SubSeq(s, a, b)) = IF a <= b THEN b - a + 1 ELSE 0
      /\ \A i \in 1..(b - a + 1) : SubSeq(s, a, b)[i] = s[a + i - 1]
  BY <1>1, SubSeqProperties
<1>3. (IF a <= b THEN b - a + 1 ELSE 0) = b - a + 1
  OBVIOUS
<1> QED
  BY <1>2, <1>3

-----------------------------------------------------------------------------
(* What the server reads is what the format says. *)

(* parse_vote_message, of the string in its buffer.                        *)
Scan(s) ==
  LET voter == Field(s, 1, VoterLimit)
      cand  == Field(s, voter.end, CandidateLimit)
      extra == Field(s, cand.end, 1)
  IN  IF /\ voter.text # <<>> /\ cand.text # <<>> /\ extra.text = <<>>
         /\ IsValidVoterId(voter.text)
         /\ cand.text \in Candidates
      THEN [voter |-> voter.text, candidate |-> cand.text]
      ELSE Malformed

(* A text that has the format is read by it.                               *)
LEMMA FormatIsRead ==
  ASSUME NEW s \in Seq(Char), NEW q \in Cuts(s), HasFormat(s, q)
  PROVE  Scan(s) = Reading(s, q)
<1> DEFINE n == Len(s)
           b == q.before
           v == q.voter
           g == q.gap
           c == q.candidate
           id == SubSeq(s, b + 1, v)
           k == SubSeq(s, g + 1, c)
<1>1. n \in Nat /\ b \in 0..n /\ v \in 0..n /\ g \in 0..n /\ c \in 0..n
  BY LenProperties DEF Cuts
<1>2. /\ b < v /\ v <= g /\ g < c
      /\ \A i \in 1..b : s[i] \in Blanks
      /\ \A i \in (v + 1)..g : s[i] \in Blanks
      /\ \A i \in (c + 1)..n : s[i] \in Blanks
      /\ v - b <= VoterLimit /\ (v = g => v - b = VoterLimit)
      /\ \A i \in (b + 1)..v : s[i] \in Alnum
      /\ k \in Candidates
  BY DEF HasFormat, IsBlank
<1>3. k \in Seq(Alnum) /\ Len(k) \in 1..(CandidateLimit - 1)
  BY <1>2, CandidateAssumption
<1>4. VoterLimit \in Nat \ {0} /\ CandidateLimit \in Nat \ {0}
  BY LimitAssumption
<1>5. \A x \in Alnum : x \notin Blanks
  BY CharAssumption
<1> HIDE DEF n, b, v, g, c
<1>6. Len(id) = v - b /\ \A i \in 1..(v - b) : id[i] = s[b + i]
  <2>1. /\ Len(id) = v - (b + 1) + 1
        /\ \A i \in 1..(v - (b + 1) + 1) : id[i] = s[b + 1 + i - 1]
    BY <1>1, <1>2, Part DEF n
  <2>2. v - (b + 1) + 1 = v - b /\ \A i \in 1..(v - b) : b + 1 + i - 1 = b + i
    BY <1>1
  <2> QED
    BY <2>1, <2>2
<1>7. Len(k) = c - g /\ \A i \in 1..(c - g) : k[i] = s[g + i]
  <2>1. /\ Len(k) = c - (g + 1) + 1
        /\ \A i \in 1..(c - (g + 1) + 1) : k[i] = s[g + 1 + i - 1]
    BY <1>1, <1>2, Part DEF n
  <2>2. c - (g + 1) + 1 = c - g /\ \A i \in 1..(c - g) : g + 1 + i - 1 = g + i
    BY <1>1
  <2> QED
    BY <2>1, <2>2
<1> HIDE DEF id, k
<1>8. \A i \in (g + 1)..c : s[i] \in Alnum
  <2> SUFFICES ASSUME NEW i \in (g + 1)..c PROVE s[i] \in Alnum
    OBVIOUS
  <2>1. i - g \in 1..(c - g) /\ g + (i - g) = i
    BY <1>1
  <2>2. k[i - g] = s[i]
    BY <1>7, <2>1
  <2>3. k[i - g] \in Alnum
    BY <1>3, <1>7, <2>1, ElementOfSeq
  <2> QED
    BY <2>2, <2>3
<1>9. Field(s, 1, VoterLimit) = [text |-> id, end |-> v + 1]
  <2>1. Scanned(s, 1, VoterLimit, b + 1, v + 1)
    <3>1. b + 1 \in 1..(n + 1) /\ v + 1 \in (b + 1)..(n + 1) /\ (v + 1) - (b + 1) <= VoterLimit
      BY <1>1, <1>2, <1>4
    <3>2. \A i \in 1..((b + 1) - 1) : s[i] \in Blanks
      BY <1>1, <1>2
    <3>3. \A i \in (b + 1)..((v + 1) - 1) : s[i] \notin Blanks
      BY <1>1, <1>2, <1>5
    <3>4. v + 1 <= n /\ (v + 1) - (b + 1) < VoterLimit => s[v + 1] \in Blanks
      <4>1. (v + 1) - (b + 1) < VoterLimit => v # g
        BY <1>1, <1>2, <1>4
      <4>2. v # g => v + 1 \in (v + 1)..g
        BY <1>1, <1>2
      <4> QED
        BY <1>2, <4>1, <4>2
    <3>5. b + 1 < v + 1
      BY <1>1, <1>2
    <3> QED
      BY <3>1, <3>2, <3>3, <3>4, <3>5 DEF Scanned, n
  <2>2. /\ 1 \in 1..(n + 1) /\ b + 1 \in 1..(n + 1) /\ v + 1 \in 1..(n + 1)
        /\ (v + 1) - 1 = v
    BY <1>1
  <2>3. Field(s, 1, VoterLimit) =
          [text |-> SubSeq(s, b + 1, (v + 1) - 1), end |-> v + 1]
    BY <1>1, <1>4, <2>1, <2>2, FieldAt DEF n
  <2> QED
    BY <2>2, <2>3 DEF id
<1>10. Field(s, v + 1, CandidateLimit) = [text |-> k, end |-> c + 1]
  <2>1. Scanned(s, v + 1, CandidateLimit, g + 1, c + 1)
    <3>1. /\ g + 1 \in (v + 1)..(n + 1) /\ c + 1 \in (g + 1)..(n + 1)
          /\ (c + 1) - (g + 1) <= CandidateLimit
      BY <1>1, <1>2, <1>3, <1>4, <1>7
    <3>2. \A i \in (v + 1)..((g + 1) - 1) : s[i] \in Blanks
      BY <1>1, <1>2
    <3>3. \A i \in (g + 1)..((c + 1) - 1) : s[i] \notin Blanks
      BY <1>1, <1>5, <1>8
    <3>4. c + 1 <= n => s[c + 1] \in Blanks
      BY <1>1, <1>2
    <3>5. g + 1 < c + 1
      BY <1>1, <1>2
    <3> QED
      BY <3>1, <3>2, <3>3, <3>4, <3>5 DEF Scanned, n
  <2>2. /\ v + 1 \in 1..(n + 1) /\ g + 1 \in 1..(n + 1) /\ c + 1 \in 1..(n + 1)
        /\ (c + 1) - 1 = c
    BY <1>1
  <2>3. Field(s, v + 1, CandidateLimit) =
          [text |-> SubSeq(s, g + 1, (c + 1) - 1), end |-> c + 1]
    <3>1. \A p, f, t \in 1..(n + 1) :
            Scanned(s, p, CandidateLimit, f, t) =>
              Field(s, p, CandidateLimit) = [text |-> SubSeq(s, f, t - 1), end |-> t]
      BY <1>1, <1>4, FieldAt DEF n
    <3> QED
      BY <2>1, <2>2, <3>1, Zenon
  <2> QED
    BY <2>2, <2>3 DEF k
<1>11. Field(s, c + 1, 1) = [text |-> <<>>, end |-> n + 1]
  <2>1. Scanned(s, c + 1, 1, n + 1, n + 1)
    <3>1. n + 1 \in (c + 1)..(n + 1) /\ n + 1 \in (n + 1)..(n + 1) /\ (n + 1) - (n + 1) <= 1
      BY <1>1
    <3>2. \A i \in (c + 1)..((n + 1) - 1) : s[i] \in Blanks
      BY <1>1, <1>2
    <3>3. \A i \in (n + 1)..((n + 1) - 1) : s[i] \notin Blanks
      BY <1>1
    <3>4. ~ (n + 1 <= n)
      BY <1>1
    <3> QED
      BY <3>1, <3>2, <3>3, <3>4 DEF Scanned, n
  <2>2. c + 1 \in 1..(n + 1) /\ n + 1 \in 1..(n + 1) /\ (n + 1) - 1 = n
    BY <1>1
  <2>3. Field(s, c + 1, 1) = [text |-> SubSeq(s, n + 1, n), end |-> n + 1]
    BY <1>1, <2>1, <2>2, FieldAt DEF n
  <2>4. SubSeq(s, n + 1, n) = <<>>
    BY <1>1, SubSeqEmpty
  <2> QED
    BY <2>3, <2>4
<1>12. id # <<>> /\ k # <<>>
  <2>1. Len(id) # 0 /\ Len(k) # 0
    BY <1>1, <1>2, <1>6, <1>7
  <2> QED
    BY <2>1, EmptySeq
<1>13. IsValidVoterId(id)
  <2>1. Len(id) \in 1..VoterLimit
    BY <1>1, <1>2, <1>4, <1>6
  <2>2. id \in Seq(Char)
    BY <1>1, <1>2, Part DEF n, id
  <2>3. ASSUME NEW i \in DOMAIN id PROVE id[i] \in Alnum
    <3>1. i \in 1..(v - b)
      BY <1>6, <2>2, LenProperties
    <3>2. b + i \in (b + 1)..v
      BY <1>1, <3>1
    <3> QED
      BY <1>2, <1>6, <3>1, <3>2
  <2> QED
    BY <2>1, <2>3 DEF IsValidVoterId
<1>14. Scan(s) = [voter |-> id, candidate |-> k]
  BY <1>2, <1>9, <1>10, <1>11, <1>12, <1>13 DEF Scan
<1> QED
  BY <1>14 DEF Reading, id, k, b, v, g, c

(* What is read has the format, and is read as it says.                    *)
LEMMA ReadIsFormat ==
  ASSUME NEW s \in Seq(Char), Scan(s) # Malformed
  PROVE  \E q \in Cuts(s) : HasFormat(s, q) /\ Scan(s) = Reading(s, q)
<1> DEFINE n == Len(s)
           voter == Field(s, 1, VoterLimit)
           cand == Field(s, voter.end, CandidateLimit)
           extra == Field(s, cand.end, 1)
<1>1. n \in Nat /\ 1 \in 1..(n + 1)
  BY LenProperties
<1>2. VoterLimit \in Nat \ {0} /\ CandidateLimit \in Nat \ {0} /\ 1 \in Nat \ {0}
  BY LimitAssumption
<1>3. \A x \in Alnum : x \notin Blanks
  BY CharAssumption
<1>4. /\ voter.text # <<>> /\ cand.text # <<>> /\ extra.text = <<>>
      /\ IsValidVoterId(voter.text) /\ cand.text \in Candidates
      /\ Scan(s) = [voter |-> voter.text, candidate |-> cand.text]
  BY DEF Scan
<1>5. PICK f1 \in 1..(n + 1), t1 \in 1..(n + 1) :
        /\ Scanned(s, 1, VoterLimit, f1, t1)
        /\ voter = [text |-> SubSeq(s, f1, t1 - 1), end |-> t1]
  BY <1>1, <1>2, FieldIs, Zenon
<1>6. voter.end = t1 /\ voter.text = SubSeq(s, f1, t1 - 1)
  BY <1>5
<1> HIDE DEF voter
<1>7. PICK f2 \in 1..(n + 1), t2 \in 1..(n + 1) :
        /\ Scanned(s, t1, CandidateLimit, f2, t2)
        /\ cand = [text |-> SubSeq(s, f2, t2 - 1), end |-> t2]
  BY <1>1, <1>2, <1>6, FieldIs, Zenon
<1>8. cand.end = t2 /\ cand.text = SubSeq(s, f2, t2 - 1)
  BY <1>7
<1> HIDE DEF cand
<1>9. PICK f3 \in 1..(n + 1), t3 \in 1..(n + 1) :
        /\ Scanned(s, t2, 1, f3, t3)
        /\ extra = [text |-> SubSeq(s, f3, t3 - 1), end |-> t3]
  <2>1. cand.end \in 1..(n + 1) /\ 1 \in Nat \ {0}
    BY <1>8
  <2>2. \A p \in 1..(n + 1) : \E f, t \in 1..(n + 1) :
          Scanned(s, p, 1, f, t) /\ Field(s, p, 1) = [text |-> SubSeq(s, f, t - 1), end |-> t]
    BY <1>1, <1>2, FieldIs
  <2> QED
    BY <1>8, <2>1, <2>2, Zenon
<1>10. extra.text = SubSeq(s, f3, t3 - 1)
  BY <1>9
<1> HIDE DEF extra, n
<1>11. f1 < t1 /\ f2 < t2 /\ ~ (f3 < t3) /\ f1 <= t1 /\ f2 <= t2 /\ f3 <= t3
  <2>1. f1 <= t1 /\ f2 <= t2 /\ f3 <= t3
    BY <1>5, <1>7, <1>9 DEF Scanned
  <2>2. f1 # t1 /\ f2 # t2
    <3>1. \A m \in 1..(n + 1) : SubSeq(s, m, m - 1) = <<>>
      BY SubSeqEmpty
    <3> QED
      BY <1>4, <1>6, <1>8, <3>1, Zenon
  <2>3. ~ (f3 < t3)
    <3> SUFFICES ASSUME f3 < t3 PROVE FALSE
      OBVIOUS
    <3>1. Len(SubSeq(s, f3, t3 - 1)) = (t3 - 1) - f3 + 1
      BY <1>1, Part DEF n
    <3>2. Len(SubSeq(s, f3, t3 - 1)) # 0
      BY <3>1
    <3> QED
      BY <1>4, <1>10, <3>2, EmptySeq
  <2> QED
    BY <2>1, <2>2, <2>3
<1> DEFINE q == [before |-> f1 - 1, voter |-> t1 - 1, gap |-> f2 - 1, candidate |-> t2 - 1]
<1>12. q \in Cuts(s)
  <2>1. f1 - 1 \in 0..n /\ t1 - 1 \in 0..n /\ f2 - 1 \in 0..n /\ t2 - 1 \in 0..n
    BY <1>1
  <2> QED
    BY <2>1 DEF Cuts, n
<1>13. /\ t1 <= f2 /\ t1 - f1 <= VoterLimit
       /\ \A i \in 1..(f1 - 1) : s[i] \in Blanks
       /\ \A i \in t1..(f2 - 1) : s[i] \in Blanks
       /\ \A i \in t2..n : s[i] \in Blanks
  <2>1. \A i \in 1..(f1 - 1) : s[i] \in Blanks
    BY <1>5 DEF Scanned
  <2>2. t1 <= f2 /\ \A i \in t1..(f2 - 1) : s[i] \in Blanks
    BY <1>7 DEF Scanned
  <2>3. f3 = n + 1
    BY <1>1, <1>9, <1>11 DEF Scanned, n
  <2>4. \A i \in t2..(f3 - 1) : s[i] \in Blanks
    BY <1>9 DEF Scanned
  <2>5. t1 - f1 <= VoterLimit
    BY <1>5 DEF Scanned
  <2> QED
    BY <1>1, <2>1, <2>2, <2>3, <2>4, <2>5
<1>14. t1 = f2 => t1 - f1 = VoterLimit
  <2> SUFFICES ASSUME t1 = f2, t1 - f1 < VoterLimit PROVE FALSE
    BY <1>2, <1>13
  <2>1. t1 <= n
    BY <1>1, <1>11
  <2>2. s[t1] \in Blanks
    BY <1>5, <2>1 DEF Scanned, n
  <2>3. f2 \in f2..(t2 - 1)
    BY <1>1, <1>11
  <2>4. s[f2] \notin Blanks
    BY <1>7, <2>3 DEF Scanned
  <2> QED
    BY <2>2, <2>4
<1>15. \A i \in f1..(t1 - 1) : s[i] \in Alnum
  <2> SUFFICES ASSUME NEW i \in f1..(t1 - 1) PROVE s[i] \in Alnum
    OBVIOUS
  <2>1. /\ voter.text \in Seq(Char) /\ Len(voter.text) = (t1 - 1) - f1 + 1
        /\ \A j \in 1..((t1 - 1) - f1 + 1) : voter.text[j] = s[(f1 + j) - 1]
    BY <1>1, <1>6, <1>11, Part DEF n
  <2>2. i - f1 + 1 \in 1..((t1 - 1) - f1 + 1) /\ (f1 + ((i - f1) + 1)) - 1 = i
    BY <1>1
  <2>3. (i - f1) + 1 \in DOMAIN voter.text
    BY <1>1, <2>1, <2>2, LenProperties
  <2>4. voter.text[(i - f1) + 1] \in Alnum
    BY <1>4, <2>3 DEF IsValidVoterId
  <2>5. voter.text[(i - f1) + 1] = s[i]
    BY <1>1, <2>1, <2>2
  <2> QED
    BY <2>4, <2>5
<1>16. HasFormat(s, q)
  <2>1. /\ f1 - 1 < t1 - 1 /\ t1 - 1 <= f2 - 1 /\ f2 - 1 < t2 - 1
        /\ (t1 - 1) - (f1 - 1) = t1 - f1 /\ (t1 - 1 = f2 - 1 => t1 = f2)
        /\ (f1 - 1) + 1 = f1 /\ (t1 - 1) + 1 = t1
        /\ (f2 - 1) + 1 = f2 /\ (t2 - 1) + 1 = t2
    BY <1>1, <1>11, <1>13
  <2>2. SubSeq(s, (f2 - 1) + 1, t2 - 1) \in Candidates
    BY <1>4, <1>8, <2>1
  <2>3. \A i \in ((f1 - 1) + 1)..(t1 - 1) : s[i] \in Alnum
    BY <1>15, <2>1
  <2>4. /\ IsBlank(s, 1, f1 - 1) /\ IsBlank(s, (t1 - 1) + 1, f2 - 1)
        /\ IsBlank(s, (t2 - 1) + 1, Len(s))
    BY <1>13, <2>1 DEF IsBlank, n
  <2> QED
    BY <1>13, <1>14, <2>1, <2>2, <2>3, <2>4 DEF HasFormat
<1>17. Scan(s) = Reading(s, q)
  <2>1. (f1 - 1) + 1 = f1 /\ (f2 - 1) + 1 = f2
    BY <1>1
  <2> QED
    BY <1>4, <1>6, <1>8, <2>1 DEF Reading
<1> QED
  BY <1>12, <1>16, <1>17

LEMMA ReadingIsVote ==
  ASSUME NEW s \in Seq(Char), NEW q \in Cuts(s), HasFormat(s, q)
  PROVE  Reading(s, q) # Malformed
<1>1. /\ Len(s) \in Nat /\ q.before \in 0..Len(s) /\ q.voter \in 0..Len(s)
      /\ q.before < q.voter
  BY LenProperties DEF Cuts, HasFormat
<1>2. SubSeq(s, q.before + 1, q.voter) \in Seq(Char)
  BY <1>1, Part
<1>3. SubSeq(s, q.gap + 1, q.candidate) \in Candidates
  BY DEF HasFormat
<1>4. Reading(s, q) \in [voter : Seq(Char), candidate : Candidates]
  BY <1>2, <1>3 DEF Reading
<1> QED
  BY <1>4, OutcomeAssumption

(* Every text has one reading or none, and the server finds it.            *)
THEOREM FormatExact ==
  ASSUME NEW s \in Seq(Char)
  PROVE  Readings(s) = IF Scan(s) = Malformed THEN {} ELSE {Scan(s)}
<1>1. \A q \in Cuts(s) : HasFormat(s, q) =>
        Reading(s, q) = Scan(s) /\ Scan(s) # Malformed
  BY FormatIsRead, ReadingIsVote
<1>2. Readings(s) \subseteq {Scan(s)}
  BY <1>1 DEF Readings
<1>3. CASE Scan(s) = Malformed
  <2>1. Readings(s) = {}
    BY <1>1, <1>3 DEF Readings
  <2> QED
    BY <1>3, <2>1
<1>4. CASE Scan(s) # Malformed
  <2>1. Scan(s) \in Readings(s)
    BY <1>4, ReadIsFormat DEF Readings
  <2> QED
    BY <1>2, <1>4, <2>1
<1> QED
  BY <1>3, <1>4

(* The string in a buffer.                                                 *)
LEMMA StringIs ==
  ASSUME NEW b \in Seq(Char \cup {Nul})
  PROVE  /\ CString(b) \in Seq(Char)
         /\ b \in Seq(Char) => CString(b) = b
<1> DEFINE S == {i \in DOMAIN b : b[i] = Nul} \cup {Len(b) + 1}
           m == Least(S)
<1>1. Len(b) \in Nat /\ DOMAIN b = 1..Len(b)
  BY LenProperties
<1>2. S \in SUBSET Nat /\ S # {}
  BY <1>1
<1>3. m \in S /\ \A j \in S : m <= j
  <2> HIDE DEF S
  <2> QED
    BY <1>2, LeastIs
<1>4. CString(b) = SubSeq(b, 1, m - 1)
  BY DEF CString
<1> HIDE DEF m
<1>5. m \in 1..(Len(b) + 1) /\ m <= Len(b) + 1
  BY <1>1, <1>3
<1>6. ASSUME NEW i \in 1..(m - 1) PROVE b[i] \in Char
  <2>1. i \in 1..Len(b) /\ ~ (m <= i)
    BY <1>1, <1>5
  <2>2. b[i] # Nul
    BY <1>1, <1>3, <2>1
  <2>3. b[i] \in Char \cup {Nul}
    BY <2>1, ElementOfSeq
  <2> QED
    BY <2>2, <2>3
<1>7. SubSeq(b, 1, m - 1) \in Seq(Char)
  BY <1>1, <1>5, <1>6, SubSeqProperties
<1>8. ASSUME b \in Seq(Char) PROVE CString(b) = b
  <2>1. \A i \in 1..Len(b) : b[i] # Nul
    BY <1>8, ElementOfSeq, CharAssumption
  <2>2. S = {Len(b) + 1}
    BY <1>1, <2>1
  <2>3. m = Len(b) + 1
    BY <1>3, <2>2
  <2>4. m - 1 = Len(b)
    BY <1>1, <2>3
  <2> QED
    BY <1>4, <2>4, SubSeqFull
<1> QED
  BY <1>4, <1>7, <1>8

-----------------------------------------------------------------------------
(* What the voter means. *)

(* What remains of the id typed: from its first character that is no blank *)
(* to its last.                                                            *)
LEMMA TrimmedIs ==
  ASSUME NEW id \in Seq(Char)
  PROVE  \/ Kept(id) = {} /\ Trimmed(id) = <<>>
         \/ \E f, l \in 1..Len(id) :
              /\ f <= l /\ id[f] \notin Blanks /\ id[l] \notin Blanks
              /\ \A i \in 1..(f - 1) : id[i] \in Blanks
              /\ \A i \in (l + 1)..Len(id) : id[i] \in Blanks
              /\ Trimmed(id) = SubSeq(id, f, l)
<1> DEFINE n == Len(id)
           K == Kept(id)
           f == Least(K)
           l == CHOOSE i \in K : \A j \in K : j <= i
<1>1. n \in Nat /\ DOMAIN id = 1..n
  BY LenProperties
<1>2. K \in SUBSET Nat /\ K \subseteq 1..n
  BY <1>1 DEF Kept
<1>3. CASE K = {}
  BY <1>3 DEF Trimmed
<1>4. CASE K # {}
  <2>1. f \in K /\ \A j \in K : f <= j
    <3> HIDE DEF K
    <3> QED
      BY <1>2, <1>4, LeastIs
  <2>2. l \in K /\ \A j \in K : j <= l
    <3> DEFINE T == {n - i : i \in K}
    <3>1. T \in SUBSET Nat /\ T # {}
      BY <1>1, <1>2, <1>4
    <3>2. Least(T) \in T /\ \A y \in T : Least(T) <= y
      <4> HIDE DEF T
      <4> QED
        BY <3>1, LeastIs
    <3>3. PICK i \in K : Least(T) = n - i
      BY <3>2
    <3>4. ASSUME NEW j \in K PROVE j <= i
      <4>1. n - i <= n - j
        BY <3>2, <3>3
      <4>2. i \in 1..n /\ j \in 1..n
        BY <1>2
      <4> HIDE DEF n, K
      <4> QED
        BY <1>1, <4>1, <4>2
    <3>5. \E k \in K : \A j \in K : j <= k
      BY <3>4
    <3> HIDE DEF K
    <3> QED
      BY <3>5, Zenon
  <2>3. Trimmed(id) = SubSeq(id, f, l)
    BY <1>4 DEF Trimmed
  <2> HIDE DEF f, l
  <2>4. f \in 1..n /\ l \in 1..n /\ f <= l
    BY <1>2, <2>1, <2>2
  <2>5. id[f] \notin Blanks /\ id[l] \notin Blanks
    BY <2>1, <2>2 DEF Kept
  <2>6. \A i \in 1..(f - 1) : id[i] \in Blanks
    <3> SUFFICES ASSUME NEW i \in 1..(f - 1), id[i] \notin Blanks PROVE FALSE
      OBVIOUS
    <3>1. i \in 1..n /\ ~ (f <= i)
      BY <1>1, <2>4
    <3>2. i \in K
      BY <1>1, <3>1 DEF Kept
    <3> QED
      BY <2>1, <3>1, <3>2
  <2>7. \A i \in (l + 1)..n : id[i] \in Blanks
    <3> SUFFICES ASSUME NEW i \in (l + 1)..n, id[i] \notin Blanks PROVE FALSE
      OBVIOUS
    <3>1. i \in 1..n /\ ~ (i <= l)
      BY <1>1, <2>4
    <3>2. i \in K
      BY <1>1, <3>1 DEF Kept
    <3> QED
      BY <2>2, <3>1, <3>2
  <2> QED
    BY <2>3, <2>4, <2>5, <2>6, <2>7
<1> QED
  BY <1>3, <1>4

(* The message, character by character.                                    *)
LEMMA MessageIs ==
  ASSUME NEW id \in Seq(Char), NEW k \in Candidates
  PROVE  LET n == Len(id)
             m == Message(id, k)
         IN  /\ n \in Nat /\ Len(k) \in Nat \ {0} /\ Len(k) <= VoterLimit
             /\ k \in Seq(Char) /\ \A i \in 1..Len(k) : k[i] \in Alnum
             /\ m \in Seq(Char) /\ Len(m) = n + 1 + Len(k)
             /\ \A i \in 1..n : m[i] = id[i]
             /\ m[n + 1] \in Blanks
             /\ \A i \in 1..Len(k) : m[n + 1 + i] = k[i]
<1> DEFINE n == Len(id)
           h == id \o <<Space>>
<1>1. n \in Nat /\ k \in Seq(Alnum) /\ Len(k) \in Nat \ {0} /\ Len(k) <= VoterLimit
  <2>1. k \in Seq(Alnum) /\ Len(k) \in 1..(CandidateLimit - 1) /\ Len(k) <= VoterLimit
    BY CandidateAssumption
  <2> QED
    BY <2>1, LimitAssumption, LenProperties
<1>2. \A i \in 1..Len(k) : k[i] \in Alnum
  BY <1>1, ElementOfSeq
<1>3. k \in Seq(Char)
  <2>1. \A i \in 1..Len(k) : k[i] \in Char
    BY <1>2 DEF Char
  <2>2. SubSeq(k, 1, Len(k)) \in Seq(Char)
    BY <1>1, <2>1, SubSeqProperties
  <2>3. SubSeq(k, 1, Len(k)) = k
    BY <1>1, SubSeqFull
  <2> QED
    BY <2>2, <2>3
<1>4. <<Space>> \in Seq(Char) /\ Len(<<Space>>) = 1 /\ <<Space>>[1] = Space
      /\ Space \in Blanks
  BY CharAssumption DEF Char
<1>5. /\ h \in Seq(Char) /\ Len(h) = n + 1
      /\ \A i \in 1..n : h[i] = id[i]
      /\ h[n + 1] = Space
  <2>1. /\ h \in Seq(Char) /\ Len(h) = n + 1
        /\ \A i \in 1..(n + 1) : h[i] = IF i <= n THEN id[i] ELSE <<Space>>[i - n]
    BY <1>4, ConcatProperties
  <2>2. n + 1 \in 1..(n + 1) /\ ~ (n + 1 <= n) /\ (n + 1) - n = 1
    BY <1>1
  <2>3. \A i \in 1..n : i \in 1..(n + 1) /\ i <= n
    BY <1>1
  <2> HIDE DEF n, h
  <2> QED
    BY <1>4, <2>1, <2>2, <2>3
<1> HIDE DEF n, h
<1>6. /\ Message(id, k) = h \o k
      /\ Message(id, k) \in Seq(Char) /\ Len(Message(id, k)) = (n + 1) + Len(k)
      /\ \A i \in 1..((n + 1) + Len(k)) :
           Message(id, k)[i] = IF i <= n + 1 THEN h[i] ELSE k[i - (n + 1)]
  <2>1. Message(id, k) = h \o k
    BY DEF Message, h
  <2>2. /\ h \o k \in Seq(Char) /\ Len(h \o k) = Len(h) + Len(k)
        /\ \A i \in 1..(Len(h) + Len(k)) :
             (h \o k)[i] = IF i <= Len(h) THEN h[i] ELSE k[i - Len(h)]
    BY <1>3, <1>5, ConcatProperties
  <2>3. Len(h) = n + 1
    BY <1>5
  <2> QED
    BY <2>1, <2>2, <2>3, Zenon
<1>7. \A i \in 1..n : Message(id, k)[i] = id[i]
  <2>1. \A i \in 1..n : i \in 1..((n + 1) + Len(k)) /\ i <= n + 1
    BY <1>1 DEF n
  <2> QED
    BY <1>5, <1>6, <2>1
<1>8. Message(id, k)[n + 1] = Space
  <2>1. n + 1 \in 1..((n + 1) + Len(k)) /\ n + 1 <= n + 1
    BY <1>1 DEF n
  <2> QED
    BY <1>5, <1>6, <2>1
<1>9. \A i \in 1..Len(k) : Message(id, k)[n + 1 + i] = k[i]
  <2> SUFFICES ASSUME NEW i \in 1..Len(k) PROVE Message(id, k)[n + 1 + i] = k[i]
    OBVIOUS
  <2>1. /\ n + 1 + i \in 1..((n + 1) + Len(k)) /\ ~ (n + 1 + i <= n + 1)
        /\ (n + 1 + i) - (n + 1) = i
    BY <1>1 DEF n
  <2> QED
    BY <1>6, <2>1
<1>10. Len(Message(id, k)) = n + 1 + Len(k)
  BY <1>1, <1>6 DEF n
<1> QED
  BY <1>1, <1>2, <1>3, <1>4, <1>6, <1>7, <1>8, <1>9, <1>10 DEF n

(* A reading of it is of that id and that candidate: the gap holds the     *)
(* blank between them, since neither the end of the message nor the name   *)
(* of a candidate has one, and no name has room for an id.                 *)
LEMMA ReadingOfMessage ==
  ASSUME NEW id \in Seq(Char), NEW k \in Candidates,
         NEW q \in Cuts(Message(id, k)), HasFormat(Message(id, k), q)
  PROVE  /\ q.voter <= Len(id) /\ q.gap = Len(id) + 1
         /\ q.candidate = Len(Message(id, k))
<1> DEFINE n == Len(id)
           m == Message(id, k)
           N == Len(m)
           b == q.before
           v == q.voter
           g == q.gap
           c == q.candidate
           name == SubSeq(m, g + 1, c)
<1>1. /\ n \in Nat /\ Len(k) \in Nat \ {0} /\ Len(k) <= VoterLimit
      /\ m \in Seq(Char) /\ N = n + 1 + Len(k)
      /\ \A i \in 1..Len(k) : k[i] \in Alnum
      /\ m[n + 1] \in Blanks
      /\ \A i \in 1..Len(k) : m[n + 1 + i] = k[i]
  BY MessageIs
<1>2. b \in 0..N /\ v \in 0..N /\ g \in 0..N /\ c \in 0..N
  BY DEF Cuts
<1>3. /\ b < v /\ v <= g /\ g < c
      /\ \A i \in (v + 1)..g : m[i] \in Blanks
      /\ \A i \in (c + 1)..N : m[i] \in Blanks
      /\ v - b <= VoterLimit /\ (v = g => v - b = VoterLimit)
      /\ \A i \in (b + 1)..v : m[i] \in Alnum
      /\ name \in Candidates
  BY DEF HasFormat, IsBlank
<1>4. \A x \in Alnum : x \notin Blanks
  BY CharAssumption
<1>5. VoterLimit \in Nat
  BY LimitAssumption
<1>6. \A i \in (n + 2)..N : m[i] \in Alnum
  <2> SUFFICES ASSUME NEW i \in (n + 2)..N PROVE m[i] \in Alnum
    OBVIOUS
  <2>1. i - (n + 1) \in 1..Len(k) /\ n + 1 + (i - (n + 1)) = i
    BY <1>1
  <2> HIDE DEF n, m, N
  <2> QED
    BY <1>1, <2>1
<1> HIDE DEF m, N, b, v, g, c
<1>7. \A i \in (g + 1)..c : m[i] \in Alnum
  <2> SUFFICES ASSUME NEW i \in (g + 1)..c PROVE m[i] \in Alnum
    OBVIOUS
  <2>1. name \in Seq(Alnum)
    BY <1>3, CandidateAssumption
  <2>2. /\ Len(name) = c - (g + 1) + 1
        /\ \A j \in 1..(c - (g + 1) + 1) : name[j] = m[(g + 1) + j - 1]
    BY <1>1, <1>2, <1>3, Part DEF N
  <2>3. i - g \in 1..(c - (g + 1) + 1) /\ (g + 1) + (i - g) - 1 = i
    BY <1>1, <1>2
  <2> HIDE DEF name
  <2>4. name[i - g] = m[i]
    BY <2>2, <2>3
  <2>5. name[i - g] \in Alnum
    BY <2>1, <2>2, <2>3, ElementOfSeq
  <2> QED
    BY <2>4, <2>5
<1> HIDE DEF n, name
<1>8. c = N
  <2> SUFFICES ASSUME c # N PROVE FALSE
    OBVIOUS
  <2>1. N \in (c + 1)..N /\ N \in (n + 2)..N
    BY <1>1, <1>2
  <2> QED
    BY <1>3, <1>4, <1>6, <2>1
<1>9. g >= n + 1
  <2> SUFFICES ASSUME g < n + 1 PROVE FALSE
    BY <1>1, <1>2
  <2>1. n + 1 \in (g + 1)..c
    BY <1>1, <1>2, <1>8
  <2> QED
    BY <1>1, <1>4, <1>7, <2>1
<1>10. g <= n + 1 /\ v <= n
  <2>1. ASSUME v >= n + 2 PROVE FALSE
    <3>1. b >= n + 1
      <4> SUFFICES ASSUME b < n + 1 PROVE FALSE
        BY <1>1, <1>2
      <4>1. n + 1 \in (b + 1)..v
        BY <1>1, <1>2, <2>1
      <4> QED
        BY <1>1, <1>3, <1>4, <4>1
    <3>2. v = g
      <4> SUFFICES ASSUME v < g PROVE FALSE
        BY <1>2, <1>3
      <4>1. g \in (v + 1)..g /\ g \in (n + 2)..N
        BY <1>1, <1>2, <2>1
      <4> QED
        BY <1>3, <1>4, <1>6, <4>1
    <3> QED
      BY <1>1, <1>2, <1>3, <1>5, <3>1, <3>2
  <2>2. v # n + 1
    <3> SUFFICES ASSUME v = n + 1 PROVE FALSE
      OBVIOUS
    <3>1. n + 1 \in (b + 1)..v
      BY <1>1, <1>2, <1>3
    <3> QED
      BY <1>1, <1>3, <1>4, <3>1
  <2>3. v <= n
    BY <1>1, <1>2, <2>1, <2>2
  <2>4. g <= n + 1
    <3> SUFFICES ASSUME g >= n + 2 PROVE FALSE
      BY <1>1, <1>2
    <3>1. g \in (v + 1)..g /\ g \in (n + 2)..N
      BY <1>1, <1>2, <2>3
    <3> QED
      BY <1>3, <1>4, <1>6, <3>1
  <2> QED
    BY <2>3, <2>4
<1>11. g = n + 1
  BY <1>1, <1>2, <1>9, <1>10
<1> QED
  BY <1>8, <1>10, <1>11 DEF n, m, N, v, g, c

(* Whatever is typed, what the server reads of it is the id typed and the  *)
(* candidate chosen, or no vote.                                           *)
THEOREM Meant ==
  ASSUME NEW id \in Seq(Char), NEW k \in Candidates
  PROVE  Scan(Message(id, k)) =
           IF IsValidVoterId(Trimmed(id))
           THEN [voter |-> Trimmed(id), candidate |-> k] ELSE Malformed
<1> DEFINE n == Len(id)
           m == Message(id, k)
           N == Len(m)
           vote == [voter |-> Trimmed(id), candidate |-> k]
<1>1. /\ n \in Nat /\ Len(k) \in Nat \ {0} /\ k \in Seq(Char)
      /\ m \in Seq(Char) /\ N = n + 1 + Len(k)
      /\ \A i \in 1..n : m[i] = id[i]
      /\ m[n + 1] \in Blanks
      /\ \A i \in 1..Len(k) : m[n + 1 + i] = k[i]
  BY MessageIs
<1>2. \A x \in Alnum : x \notin Blanks
  BY CharAssumption
<1>3. SubSeq(m, (n + 1) + 1, N) = k
  <2>1. /\ SubSeq(m, (n + 1) + 1, N) \in Seq(Char)
        /\ Len(SubSeq(m, (n + 1) + 1, N)) = N - ((n + 1) + 1) + 1
        /\ \A i \in 1..(N - ((n + 1) + 1) + 1) :
             SubSeq(m, (n + 1) + 1, N)[i] = m[((n + 1) + 1) + i - 1]
    <3>1. (n + 1) + 1 \in 1..(N + 1) /\ N \in Nat /\ (n + 1) + 1 <= N + 1 /\ N <= N
      <4> HIDE DEF n, m, N
      <4> QED
        BY <1>1
    <3> QED
      BY <1>1, <3>1, Part
  <2> HIDE DEF n, m, N
  <2>2. /\ N - ((n + 1) + 1) + 1 = Len(k)
        /\ \A i \in 1..Len(k) : ((n + 1) + 1) + i - 1 = n + 1 + i
    BY <1>1
  <2>3. \A i \in 1..Len(k) : SubSeq(m, (n + 1) + 1, N)[i] = k[i]
    BY <1>1, <2>1, <2>2
  <2>4. Len(SubSeq(m, (n + 1) + 1, N)) = Len(k)
    BY <2>1, <2>2
  <2> QED
    BY <1>1, <2>1, <2>3, <2>4, SeqEqual
<1>4. ASSUME NEW f \in 1..n, NEW l \in 1..n, f <= l
      PROVE  SubSeq(m, f, l) = SubSeq(id, f, l) /\ SubSeq(id, f, l) \in Seq(Char)
             /\ Len(SubSeq(id, f, l)) = l - f + 1
             /\ \A i \in 1..(l - f + 1) : SubSeq(id, f, l)[i] = id[f + i - 1]
  <2>1. f \in 1..(n + 1) /\ l \in Nat /\ f <= l + 1 /\ l <= n
    BY <1>1, <1>4
  <2>2. f \in 1..(N + 1) /\ l <= N
    <3> HIDE DEF n, m, N
    <3> QED
      BY <1>1
  <2>3. /\ SubSeq(id, f, l) \in Seq(Char) /\ Len(SubSeq(id, f, l)) = l - f + 1
        /\ \A i \in 1..(l - f + 1) : SubSeq(id, f, l)[i] = id[f + i - 1]
    BY <2>1, Part
  <2>4. /\ SubSeq(m, f, l) \in Seq(Char) /\ Len(SubSeq(m, f, l)) = l - f + 1
        /\ \A i \in 1..(l - f + 1) : SubSeq(m, f, l)[i] = m[f + i - 1]
    BY <1>1, <2>1, <2>2, Part
  <2> HIDE DEF n, m, N
  <2>5. \A i \in 1..(l - f + 1) : f + i - 1 \in 1..n
    BY <1>1
  <2>6. \A i \in 1..(l - f + 1) : SubSeq(m, f, l)[i] = SubSeq(id, f, l)[i]
    BY <1>1, <2>3, <2>4, <2>5
  <2>7. SubSeq(m, f, l) = SubSeq(id, f, l)
    BY <2>3, <2>4, <2>6, SeqEqual
  <2> QED
    BY <2>3, <2>7
<1>5. ASSUME IsValidVoterId(Trimmed(id)) PROVE Scan(m) = vote
  <2>1. Len(Trimmed(id)) \in 1..VoterLimit
        /\ \A i \in DOMAIN Trimmed(id) : Trimmed(id)[i] \in Alnum
    BY <1>5 DEF IsValidVoterId
  <2>2. Trimmed(id) # <<>>
    BY <2>1, EmptySeq
  <2>3. PICK f \in 1..n, l \in 1..n :
          /\ f <= l
          /\ \A i \in 1..(f - 1) : id[i] \in Blanks
          /\ \A i \in (l + 1)..n : id[i] \in Blanks
          /\ Trimmed(id) = SubSeq(id, f, l)
    BY <2>2, TrimmedIs
  <2>4. /\ SubSeq(m, f, l) = Trimmed(id) /\ Trimmed(id) \in Seq(Char)
        /\ Len(Trimmed(id)) = l - f + 1
        /\ \A i \in 1..(l - f + 1) : Trimmed(id)[i] = id[f + i - 1]
    BY <1>4, <2>3
  <2>5. \A i \in f..l : id[i] \in Alnum
    <3> SUFFICES ASSUME NEW i \in f..l PROVE id[i] \in Alnum
      OBVIOUS
    <3>1. i - f + 1 \in 1..(l - f + 1) /\ f + (i - f + 1) - 1 = i
      BY <1>1
    <3>2. i - f + 1 \in DOMAIN Trimmed(id)
      BY <2>4, <3>1, LenProperties
    <3> QED
      BY <2>1, <2>4, <3>1, <3>2
  <2> DEFINE q == [before |-> f - 1, voter |-> l, gap |-> n + 1, candidate |-> N]
  <2>6. f - 1 \in 0..N /\ l \in 0..N /\ n + 1 \in 0..N /\ N \in 0..N /\ (f - 1) + 1 = f
    <3> HIDE DEF n, m, N
    <3> QED
      BY <1>1
  <2>7. q \in Cuts(m)
    BY <2>6 DEF Cuts
  <2>8. HasFormat(m, q)
    <3> HIDE DEF n, m, N
    <3>1. f - 1 < l /\ l < n + 1 /\ n + 1 < N /\ l - (f - 1) <= VoterLimit
      BY <1>1, <2>1, <2>3, <2>4, LimitAssumption
    <3>2. IsBlank(m, 1, f - 1)
      <4>1. \A i \in 1..(f - 1) : i \in 1..n
        BY <1>1
      <4> QED
        BY <1>1, <2>3, <4>1 DEF IsBlank
    <3>3. IsBlank(m, l + 1, n + 1)
      <4>1. \A i \in (l + 1)..(n + 1) : i = n + 1 \/ (i \in 1..n /\ i \in (l + 1)..n)
        BY <1>1
      <4> QED
        BY <1>1, <2>3, <4>1 DEF IsBlank
    <3>4. IsBlank(m, N + 1, N)
      BY <1>1 DEF IsBlank
    <3>5. \A i \in f..l : m[i] \in Alnum
      <4>1. \A i \in f..l : i \in 1..n
        BY <1>1
      <4> QED
        BY <1>1, <2>5, <4>1
    <3>6. l # n + 1 /\ l <= n + 1 /\ (f - 1) + 1 = f
      BY <1>1, <3>1
    <3>7. Len(m) = N
      BY DEF N
    <3> QED
      BY <1>3, <2>6, <3>1, <3>2, <3>3, <3>4, <3>5, <3>6, <3>7 DEF HasFormat
  <2>9. Reading(m, q) = vote
    <3>1. SubSeq(m, (f - 1) + 1, l) = Trimmed(id)
      BY <2>4, <2>6
    <3> HIDE DEF n, m, N
    <3> QED
      BY <1>3, <3>1 DEF Reading
  <2> HIDE DEF q, m, vote
  <2>10. Scan(m) = Reading(m, q)
    BY <1>1, <2>7, <2>8, FormatIsRead
  <2> QED
    BY <2>9, <2>10
<1>6. ASSUME Scan(m) # Malformed PROVE IsValidVoterId(Trimmed(id))
  <2>1. PICK q \in Cuts(m) : HasFormat(m, q)
    BY <1>1, <1>6, ReadIsFormat
  <2> DEFINE b == q.before
             v == q.voter
  <2>2. v <= n /\ q.gap = n + 1
    BY <2>1, ReadingOfMessage
  <2>3. /\ b < v /\ v - b <= VoterLimit
        /\ \A i \in 1..b : m[i] \in Blanks
        /\ \A i \in (v + 1)..(n + 1) : m[i] \in Blanks
        /\ \A i \in (b + 1)..v : m[i] \in Alnum
    BY <2>1, <2>2 DEF HasFormat, IsBlank
  <2>4. b \in Nat /\ v \in Nat
    BY <1>1 DEF Cuts
  <2> HIDE DEF b, v, m, N
  <2>5. /\ \A i \in 1..b : id[i] \in Blanks
        /\ \A i \in (v + 1)..n : id[i] \in Blanks
        /\ \A i \in (b + 1)..v : id[i] \in Alnum /\ id[i] \notin Blanks
    <3>1. \A i \in 1..b : i \in 1..n
      BY <1>1, <2>2, <2>3, <2>4
    <3>2. \A i \in (v + 1)..n : i \in 1..n /\ i \in (v + 1)..(n + 1)
      BY <1>1, <2>2, <2>3, <2>4
    <3>3. \A i \in (b + 1)..v : i \in 1..n
      BY <1>1, <2>2, <2>3, <2>4
    <3> QED
      BY <1>1, <1>2, <2>3, <3>1, <3>2, <3>3
  <2>6. b + 1 \in 1..n /\ v \in 1..n /\ b + 1 \in (b + 1)..v /\ v \in (b + 1)..v
    BY <1>1, <2>2, <2>3, <2>4
  <2>7. Kept(id) # {}
    <3>1. DOMAIN id = 1..n
      BY LenProperties
    <3> QED
      BY <2>5, <2>6, <3>1 DEF Kept
  <2>8. PICK f \in 1..n, l \in 1..n :
          /\ f <= l /\ id[f] \notin Blanks /\ id[l] \notin Blanks
          /\ \A i \in 1..(f - 1) : id[i] \in Blanks
          /\ \A i \in (l + 1)..n : id[i] \in Blanks
          /\ Trimmed(id) = SubSeq(id, f, l)
    BY <2>7, TrimmedIs
  <2>9. f = b + 1
    <3>1. ~ (f < b + 1)
      <4>1. f < b + 1 => f \in 1..b
        BY <2>4
      <4> QED
        BY <2>5, <2>8, <4>1
    <3>2. ~ (b + 1 < f)
      <4>1. b + 1 < f => b + 1 \in 1..(f - 1)
        BY <2>4
      <4> QED
        BY <2>5, <2>6, <2>8, <4>1
    <3> QED
      BY <2>4, <3>1, <3>2
  <2>10. l = v
    <3>1. ~ (v < l)
      <4>1. v < l => l \in (v + 1)..n
        BY <1>1, <2>4
      <4> QED
        BY <2>5, <2>8, <4>1
    <3>2. ~ (l < v)
      <4>1. l < v => v \in (l + 1)..n
        BY <1>1, <2>6
      <4> QED
        BY <2>5, <2>6, <2>8, <4>1
    <3> QED
      BY <2>4, <3>1, <3>2
  <2>11. /\ Trimmed(id) \in Seq(Char) /\ Len(Trimmed(id)) = l - f + 1
         /\ \A i \in 1..(l - f + 1) : Trimmed(id)[i] = id[f + i - 1]
    BY <1>4, <2>8
  <2>12. Len(Trimmed(id)) \in 1..VoterLimit
    BY <2>3, <2>4, <2>9, <2>10, <2>11, LimitAssumption
  <2>13. ASSUME NEW i \in DOMAIN Trimmed(id) PROVE Trimmed(id)[i] \in Alnum
    <3>1. i \in 1..(l - f + 1)
      BY <2>11, LenProperties
    <3>2. f + i - 1 \in (b + 1)..v
      BY <2>4, <2>9, <2>10, <3>1
    <3> QED
      BY <2>5, <2>11, <3>1, <3>2
  <2> QED
    BY <2>12, <2>13 DEF IsValidVoterId
<1> QED
  BY <1>5, <1>6

-----------------------------------------------------------------------------
(* The theorems of the specification. *)

LEMMA ParseScans ==
  ASSUME NEW b
  PROVE  ParseVoteMessage(b) = Scan(CString(b))
BY DEF ParseVoteMessage, Scan

LEMMA TextsAre ==
  ASSUME NEW n, NEW t \in Texts(n)
  PROVE  t \in Seq(Char)
<1>1. PICK l \in 0..n : t \in [1..l -> Char]
  BY DEF Texts
<1>2. l \in Nat
  OBVIOUS
<1> QED
  BY <1>1, <1>2

LEMMA MessageStart == Init => MessageInv
BY EmptySeq DEF Init, MessageInv

LEMMA MessageStep == MessageInv /\ [Step]_vars => MessageInv'
<1> SUFFICES ASSUME MessageInv, [Step]_vars PROVE MessageInv'
  OBVIOUS
<1>1. CASE UNCHANGED vars
  BY <1>1 DEF vars, MessageInv, ParseVoteMessage, Message
<1>2. ASSUME NEW id \in Texts(EntryWidth), NEW k \in Candidates, SendVote(id, k)
      PROVE  MessageInv'
  <2>1. /\ buffer = <<>> /\ voter_id' = id /\ candidate' = k
        /\ buffer' = Message(id, k) /\ parsed' = parsed
    BY <1>2 DEF SendVote
  <2>2. parsed = Nothing
    BY <2>1 DEF MessageInv
  <2>3. Message(id, k) \in Seq(Char)
    BY TextsAre, MessageIs
  <2>4. Message(id, k) \in Seq(Char \cup {Nul})
    <3>1. \A i \in 1..Len(Message(id, k)) : Message(id, k)[i] \in Char \cup {Nul}
      BY <2>3, ElementOfSeq
    <3>2. SubSeq(Message(id, k), 1, Len(Message(id, k))) \in Seq(Char \cup {Nul})
      BY <2>3, <3>1, LenProperties, SubSeqProperties
    <3>3. SubSeq(Message(id, k), 1, Len(Message(id, k))) = Message(id, k)
      BY <2>3, SubSeqFull
    <3> QED
      BY <3>2, <3>3
  <2> QED
    BY <2>1, <2>2, <2>4 DEF MessageInv, Message
<1>3. ASSUME NEW ch \in Char \cup {Nul}, PeerWrites(ch) PROVE MessageInv'
  <2>1. /\ voter_id = Nothing /\ parsed = Nothing
        /\ buffer' = Append(buffer, ch) /\ UNCHANGED <<voter_id, candidate, parsed>>
    BY <1>3 DEF PeerWrites
  <2>2. Append(buffer, ch) \in Seq(Char \cup {Nul})
    BY AppendProperties DEF MessageInv
  <2> QED
    BY <2>1, <2>2 DEF MessageInv
<1>4. CASE Receive
  <2>1. /\ buffer # <<>> /\ parsed' = ParseVoteMessage(buffer)
        /\ UNCHANGED <<voter_id, candidate, buffer>>
    BY <1>4 DEF Receive
  <2> QED
    BY <2>1 DEF MessageInv, ParseVoteMessage, Message
<1> QED
  BY <1>1, <1>2, <1>3, <1>4 DEF Step

(* The buffer of handle_client holds the message of our client or what     *)
(* another peer has written, and the parse is of all of it.                *)
THEOREM MessageInvariance == Spec => []MessageInv
BY MessageStart, MessageStep, PTL DEF Spec

(* For any text in the buffer: it is taken for a vote exactly when it has  *)
(* the format, and for the one vote written there.                         *)
THEOREM FormatAccepted == Spec => []AcceptsExactlyTheFormat
<1>1. MessageInv => AcceptsExactlyTheFormat
  <2> SUFFICES ASSUME MessageInv, parsed # Nothing
               PROVE  Readings(CString(buffer)) =
                        IF parsed = Malformed THEN {} ELSE {parsed}
    BY DEF AcceptsExactlyTheFormat
  <2>1. buffer \in Seq(Char \cup {Nul}) /\ parsed = Scan(CString(buffer))
    BY ParseScans DEF MessageInv
  <2>2. CString(buffer) \in Seq(Char)
    BY <2>1, StringIs
  <2> QED
    BY <2>1, <2>2, FormatExact
<1> QED
  BY <1>1, MessageInvariance, PTL

(* For any id typed and any candidate chosen: the vote read is for them,   *)
(* or there is none.                                                       *)
THEOREM VoteMeant == Spec => []VoteIsTheOneMeant
<1>1. MessageInv => VoteIsTheOneMeant
  <2> SUFFICES ASSUME MessageInv, parsed # Nothing, voter_id # Nothing
               PROVE  parsed = IF IsValidVoterId(Trimmed(voter_id))
                               THEN [voter |-> Trimmed(voter_id), candidate |-> candidate]
                               ELSE Malformed
    BY DEF VoteIsTheOneMeant
  <2>1. /\ voter_id \in Seq(Char) /\ candidate \in Candidates
        /\ buffer = Message(voter_id, candidate) /\ buffer \in Seq(Char \cup {Nul})
        /\ parsed = Scan(CString(buffer))
    BY TextsAre, ParseScans DEF MessageInv
  <2>2. buffer \in Seq(Char)
    BY <2>1, MessageIs
  <2>3. CString(buffer) = buffer
    BY <2>1, <2>2, StringIs
  <2> QED
    BY <2>1, <2>3, Meant
<1> QED
  BY <1>1, MessageInvariance, PTL

=============================================================================
