----------------------------- MODULE MCElector -----------------------------
(* Three monitors, the smallest monmap in which a minority can be left out. *)
EXTENDS Elector

ThreeMons == {0, 1, 2}
NoneOrSome == {{}, {0}, {0, 1}}
=============================================================================
