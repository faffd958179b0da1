----------------------------- MODULE MCLogRing -----------------------------
(* Small instances of LogRing. *)
EXTENDS LogRing, TLC

CONSTANTS w1, w2, short, long

Threads == {w1, w2}

LineLength == short :> 1 @@ long :> 3

WriterSymmetry == Permutations(Threads)

=============================================================================
