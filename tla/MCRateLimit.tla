----------------------------- MODULE MCRateLimit -----------------------------
(* Small instances of RateLimit. *)
EXTENDS RateLimit, TLC

IpSymmetry == Permutations(Ips)

=============================================================================
