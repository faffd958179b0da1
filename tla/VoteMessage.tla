---------------------------- MODULE VoteMessage ----------------------------
(***************************************************************************)
(* The one message of the protocol: send_vote writes "%s %s", the handler  *)
(* ends what ssl_recv returned with a NUL, and parse_vote_message reads it *)
(* with sscanf "%63s %63s %1s" and checks both fields. ServerSocket takes  *)
(* the outcome of the parse as its message, and VotingSystem takes it that *)
(* a typed id gives the vote for that id or one the server rejects; here   *)
(* is why. A text is a sequence of characters; only their class counts.    *)
(***************************************************************************)
EXTENDS Integers, Sequences

CONSTANTS
  Alnum, Blanks, Others,  \* the characters, by what ctype says of them
  Nul,                    \* the one that ends a string
  Space,                  \* the one send_vote writes between the fields
  Candidates,             \* what is_valid_candidate accepts
  Malformed,              \* parse_vote_message returns 0
  Nothing,
  VoterLimit,             \* the widths in the format string
  CandidateLimit,
  EntryWidth,             \* columns of the entry "Eleitor ID"
  BufferSize              \* bound: characters a peer sends

Char == Alnum \cup Blanks \cup Others

Texts(n) == UNION {[1..l -> Char] : l \in 0..n}

ASSUME CharAssumption ==
  /\ Nul \notin Char
  /\ Blanks \cap (Alnum \cup Others) = {} /\ Alnum \cap Others = {}
  /\ Space \in Blanks
ASSUME LimitAssumption ==
  /\ VoterLimit \in Nat \ {0} /\ CandidateLimit \in Nat \ {0}
  /\ EntryWidth \in Nat /\ BufferSize \in Nat
\* The names of the candidates are shorter than either field.
ASSUME CandidateAssumption ==
  \A k \in Candidates : /\ k \in Seq(Alnum) /\ Len(k) \in 1..(CandidateLimit - 1)
                        /\ Len(k) <= VoterLimit
ASSUME OutcomeAssumption ==
  Malformed \notin [voter : Seq(Char), candidate : Candidates]

VARIABLES
  voter_id,   \* what the voter has typed, Nothing when the peer is not ours
  candidate,  \* and has chosen
  buffer,     \* buffer of handle_client
  parsed      \* what parse_vote_message made of it

vars == <<voter_id, candidate, buffer, parsed>>

-----------------------------------------------------------------------------
(* sscanf. *)

Least(S) == CHOOSE i \in S : \A j \in S : i <= j

(* The string in the buffer. *)
CString(b) ==
  SubSeq(b, 1, Least({i \in DOMAIN b : b[i] = Nul} \cup {Len(b) + 1}) - 1)

(* The first place of s from p on that is, or is not, in C. *)
Next(s, p, C) == Least({i \in p..Len(s) : s[i] \in C} \cup {Len(s) + 1})
Past(s, p, C) == Least({i \in p..Len(s) : s[i] \notin C} \cup {Len(s) + 1})

(* "%<limit>s" at place p: blanks are skipped, then characters taken up to *)
(* a blank, the end or the limit.                                          *)
Field(s, p, limit) ==
  LET from == Past(s, p, Blanks)
      to   == Least({Next(s, from, Blanks), from + limit})
  IN  [text |-> SubSeq(s, from, to - 1), end |-> to]

(* Mutant: any character goes. *)
IsValidVoterIdLoose(id) == Len(id) \in 1..VoterLimit

IsValidVoterId(id) ==
  /\ Len(id) \in 1..VoterLimit
  /\ \A i \in DOMAIN id : id[i] \in Alnum

(* Mutant: the format stops at the second field. *)
ParseNoExtra(b) ==
  LET s  == CString(b)
      f1 == Field(s, 1, VoterLimit)
      f2 == Field(s, f1.end, CandidateLimit)
  IN  IF IsValidVoterId(f1.text) /\ f2.text \in Candidates
      THEN [voter |-> f1.text, candidate |-> f2.text]
      ELSE Malformed

(* sscanf has to fill two fields and find no third. *)
ParseVoteMessage(b) ==
  LET s     == CString(b)
      voter == Field(s, 1, VoterLimit)
      cand  == Field(s, voter.end, CandidateLimit)
      extra == Field(s, cand.end, 1)
  IN  IF /\ voter.text # <<>> /\ cand.text # <<>> /\ extra.text = <<>>
         /\ IsValidVoterId(voter.text)
         /\ cand.text \in Candidates
      THEN [voter |-> voter.text, candidate |-> cand.text]
      ELSE Malformed

-----------------------------------------------------------------------------
(* send_vote; the entry is shorter than any of the buffers it goes         *)
(* through.                                                                *)
Message(id, k) == id \o <<Space>> \o k

Init ==
  /\ voter_id = Nothing /\ candidate = Nothing
  /\ buffer = <<>> /\ parsed = Nothing

SendVote(id, k) ==
  /\ buffer = <<>>
  /\ voter_id' = id /\ candidate' = k
  /\ buffer' = Message(id, k)
  /\ UNCHANGED parsed

(* A peer of another make sends one character after the other. *)
PeerWrites(ch) ==
  /\ voter_id = Nothing /\ parsed = Nothing /\ Len(buffer) < BufferSize
  /\ buffer' = Append(buffer, ch)
  /\ UNCHANGED <<voter_id, candidate, parsed>>

(* ssl_recv has returned more than 0 bytes. *)
Receive ==
  /\ buffer # <<>> /\ parsed = Nothing
  /\ parsed' = ParseVoteMessage(buffer)
  /\ UNCHANGED <<voter_id, candidate, buffer>>

Step ==
  \/ \E id \in Texts(EntryWidth), k \in Candidates : SendVote(id, k)
  \/ \E ch \in Char \cup {Nul} : PeerWrites(ch)
  \/ Receive

Spec == Init /\ [][Step]_vars

-----------------------------------------------------------------------------
(* The reading of a message by its format: an id, a gap and a candidate,   *)
(* with blanks before and after. The gap may be missing only after an id   *)
(* that fills its field.                                                   *)
IsBlank(s, from, to) == \A i \in from..to : s[i] \in Blanks

(* Where the id and the candidate end, and what comes before each of them. *)
Cuts(s) ==
  [before : 0..Len(s), voter : 0..Len(s), gap : 0..Len(s), candidate : 0..Len(s)]

HasFormat(s, q) ==
  /\ q.before < q.voter /\ q.voter <= q.gap /\ q.gap < q.candidate
  /\ IsBlank(s, 1, q.before) /\ IsBlank(s, q.voter + 1, q.gap)
  /\ IsBlank(s, q.candidate + 1, Len(s))
  /\ q.voter - q.before <= VoterLimit
  /\ q.voter = q.gap => q.voter - q.before = VoterLimit
  /\ \A i \in (q.before + 1)..q.voter : s[i] \in Alnum
  /\ SubSeq(s, q.gap + 1, q.candidate) \in Candidates

Reading(s, q) ==
  [voter     |-> SubSeq(s, q.before + 1, q.voter),
   candidate |-> SubSeq(s, q.gap + 1, q.candidate)]

Readings(s) == {Reading(s, q) : q \in {q \in Cuts(s) : HasFormat(s, q)}}

(* The id typed, without the blanks around it. *)
Kept(id) == {i \in DOMAIN id : id[i] \notin Blanks}

Trimmed(id) ==
  IF Kept(id) = {} THEN <<>>
  ELSE SubSeq(id, Least(Kept(id)),
              CHOOSE i \in Kept(id) : \A j \in Kept(id) : j <= i)

(* Whatever a peer sends, the server takes it for a vote exactly when it   *)
(* has the format, no message can be read in two ways, and the vote is the *)
(* one written there.                                                      *)
AcceptsExactlyTheFormat ==
  parsed # Nothing =>
    Readings(CString(buffer)) = IF parsed = Malformed THEN {} ELSE {parsed}

(* Whatever the voter types as an id, blanks, candidates or an id that is  *)
(* too long included, the server reads a vote for that id and for the      *)
(* candidate chosen, or none: never another voter's, never another choice. *)
VoteIsTheOneMeant ==
  parsed # Nothing /\ voter_id # Nothing =>
    parsed = IF IsValidVoterId(Trimmed(voter_id))
             THEN [voter |-> Trimmed(voter_id), candidate |-> candidate]
             ELSE Malformed

-----------------------------------------------------------------------------
(* The inductive invariant; VoteMessageProofs proves it.                   *)
MessageInv ==
  /\ buffer \in Seq(Char \cup {Nul})
  /\ voter_id # Nothing =>
       /\ voter_id \in Texts(EntryWidth) /\ candidate \in Candidates
       /\ buffer = Message(voter_id, candidate)
  /\ parsed # Nothing => buffer # <<>> /\ parsed = ParseVoteMessage(buffer)

=============================================================================
