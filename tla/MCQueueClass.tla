---------------------------- MODULE MCQueueClass ----------------------------
(* The queue class on a ring of a few bytes; the constants are in the .cfg. *)
EXTENDS QueueClass
=============================================================================
