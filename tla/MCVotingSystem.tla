--------------------------- MODULE MCVotingSystem ---------------------------
(* Instances of VotingSystem for TLC. *)
EXTENDS VotingSystem, TLC

(* Connections, candidates and receipts are only compared for equality.    *)
Symmetry ==
  Permutations(Conns) \cup Permutations(Candidates) \cup Permutations(Receipts)

=============================================================================
