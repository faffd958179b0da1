--------------------------- MODULE MCServerSocket ---------------------------
(* Instances of ServerSocket for TLC. *)
EXTENDS ServerSocket, TLC

(* Connections, candidates and receipts are only compared for equality.    *)
Symmetry ==
  Permutations(Conns) \cup Permutations(Candidates) \cup Permutations(Receipts)

=============================================================================
