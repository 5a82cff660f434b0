------------------------- MODULE MCPersistentNotify -------------------------
(* Small instances of PersistentNotify; see the .cfg files. *)
EXTENDS PersistentNotify, TLC

\* Gateways are alike.
Symmetry == Permutations(Daemons)
=============================================================================
