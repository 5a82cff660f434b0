---------------------------- MODULE MCTwoPCClass ----------------------------
(* The two-phase commit queue on a ring of a few bytes; see the .cfg files. *)
EXTENDS TwoPCClass
=============================================================================
