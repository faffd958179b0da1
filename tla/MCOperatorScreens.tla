------------------------- MODULE MCOperatorScreens -------------------------
(* An instance of OperatorScreens for TLC: one connection that may cast    *)
(* two votes, two starts, with and without a password.                     *)
EXTENDS OperatorScreens

=============================================================================
