--------------------------- MODULE MCVoteMessage ---------------------------
(* An instance of VoteMessage with fields of two characters. *)
EXTENDS VoteMessage

TwoCandidates == {<<"A">>, <<"B">>}

=============================================================================
