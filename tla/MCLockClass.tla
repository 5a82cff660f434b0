----------------------------- MODULE MCLockClass -----------------------------
(* Three lockers (two of them of one client) of one lock; see the .cfg file.  *)
EXTENDS LockClass
=============================================================================
