----------------------------- MODULE BallotBox -----------------------------
(***************************************************************************)
(* What the voting service promises, whatever its threads, connections and *)
(* restarts do: a ballot is cast once per voter of the roll, a ballot that *)
(* is cast stays, and only a ballot that is already in the box is ever     *)
(* confirmed to a voter (the "ACK <receipt>" of server_socket.c).          *)
(***************************************************************************)
CONSTANTS
  Voters,      \* the electoral roll: table eleitores
  Candidates,
  Receipts

VARIABLES
  ballots,     \* the ballots cast: table votos
  confirmed    \* the ballots confirmed to the voters who cast them

vars == <<ballots, confirmed>>

Ballot == [voter : Voters, candidate : Candidates, receipt : Receipts]

Init ==
  /\ ballots = {}
  /\ confirmed = {}

(* A voter who has no ballot in the box casts one. *)
Cast(b) ==
  /\ \A a \in ballots : a.voter # b.voter
  /\ ballots' = ballots \cup {b}
  /\ UNCHANGED confirmed

(* The voter is told the receipt of the ballot in the box. *)
Confirm(b) ==
  /\ b \in ballots \ confirmed
  /\ confirmed' = confirmed \cup {b}
  /\ UNCHANGED ballots

Next == \E b \in Ballot : Cast(b) \/ Confirm(b)

Spec == Init /\ [][Next]_vars

=============================================================================
