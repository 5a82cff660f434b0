------------------------------- MODULE ClsLock -------------------------------
(***************************************************************************)
(* Advisory locks on a RADOS object (cls/lock/cls_lock.cc): one named lock *)
(* of one object, as operators that map the object's lock to the return    *)
(* code and the lock that is left.  A locker is an (entity, cookie) pair;  *)
(* a lock expires by itself, noticed by whoever reads it next.             *)
(***************************************************************************)
EXTENDS Integers

CONSTANTS
    Entities,    \* clients, as the OSD sees them
    Cookies,     \* what a client tells its own lockers apart by
    Tags         \* lockers of one lock must agree on a tag

LockTypes == {"exclusive", "shared", "exclusive_ephemeral"}
LockFlags == {"none", "may_renew", "must_renew", "both"}

cls_lock_is_exclusive(type) == type \in {"exclusive", "exclusive_ephemeral"}
cls_lock_is_ephemeral(type) == type = "exclusive_ephemeral"

Lockers == Entities \X Cookies

\* When a locker's lock ends: -1 for one that does not hold the lock, 0 for never.
NotHeld == -1
Forever == 0

LOCK_OK     == 0
LOCK_ENOENT == -2
LOCK_EBUSY  == -16
LOCK_EEXIST == -17
LOCK_EINVAL == -22

\* The object with the lock's attribute.
LockState ==
    [exists : BOOLEAN, type : LockTypes \cup {"none"}, tag : Tags \cup {"none"},
     lockers : [Lockers -> Nat \cup {NotHeld}]]

Unlocked(exists) ==
    [exists |-> exists, type |-> "none", tag |-> "none",
     lockers |-> [l \in Lockers |-> NotHeld]]

\* The lockers that are left once the expired ones are trimmed.  (An ephemeral lock of
\* which nobody is left takes its object with it; the granted request that noticed it
\* creates the object again, and a request that fails changes nothing.)
Expired(end, now) == end > Forever /\ end < now
read_lock(lk, now) ==
    [l \in Lockers |-> IF Expired(lk.lockers[l], now) THEN NotHeld ELSE lk.lockers[l]]
Holders(lockers) == {l \in Lockers : lockers[l] # NotHeld}

\* Fault: an exclusive lock is granted beside a shared one.
LockRetBesideShared(lk, now, l, type, tag, flags) ==
    LET holders == Holders(read_lock(lk, now))
    IN  IF flags = "both" THEN LOCK_EINVAL
        ELSE IF holders # {} /\ tag # lk.tag THEN LOCK_EBUSY
        ELSE IF l \in holders /\ flags = "none" THEN LOCK_EEXIST
        ELSE IF l \notin holders /\ flags = "must_renew" THEN LOCK_ENOENT
        ELSE IF holders \ {l} # {} /\ lk.type # "shared" THEN LOCK_EBUSY
        ELSE LOCK_OK

\* The checks of a lock request, in their order.
LockRet(lk, now, l, type, tag, flags) ==
    LET holders == Holders(read_lock(lk, now))
        others  == holders \ {l}
    IN  CASE flags = "both" -> LOCK_EINVAL
          [] flags # "both" /\ holders # {} /\ tag # lk.tag -> LOCK_EBUSY
          [] OTHER ->
               IF l \in holders /\ flags = "none" THEN LOCK_EEXIST
               ELSE IF l \notin holders /\ flags = "must_renew" THEN LOCK_ENOENT
               ELSE IF others # {} /\ (cls_lock_is_exclusive(type) \/ type # lk.type)
                    THEN LOCK_EBUSY
               ELSE LOCK_OK

\* Fault: the stored lockers are replaced instead of extended.
lock_obj_replacing(lk, now, l, type, tag, duration, flags) ==
    LET ret == LockRet(lk, now, l, type, tag, flags)
        end == IF duration = 0 THEN Forever ELSE now + duration
    IN  [ret |-> ret,
         lk  |-> IF ret # LOCK_OK THEN lk
                 ELSE [exists |-> TRUE, type |-> type, tag |-> tag,
                       lockers |-> [m \in Lockers |-> IF m = l THEN end ELSE NotHeld]]]

\* A granted or renewed lock; the object is created if need be.
lock_obj(lk, now, l, type, tag, duration, flags) ==
    LET ret == LockRet(lk, now, l, type, tag, flags)
        end == IF duration = 0 THEN Forever ELSE now + duration
    IN  [ret |-> ret,
         lk  |-> IF ret # LOCK_OK THEN lk
                 ELSE [exists |-> TRUE, type |-> type, tag |-> tag,
                       lockers |-> [read_lock(lk, now) EXCEPT ![l] = end]]]

\* Fault: an ephemeral lock's object is gone, its lock is not.
remove_lock_object_only(lk, now, l) ==
    IF l \notin Holders(read_lock(lk, now))
    THEN [ret |-> LOCK_ENOENT, lk |-> lk]
    ELSE [ret |-> LOCK_OK, lk |-> [lk EXCEPT !.exists = ~cls_lock_is_ephemeral(lk.type)]]

\* Fault: an ephemeral lock leaves its object and type behind.
remove_lock_keeping(lk, now, l) ==
    IF l \notin Holders(read_lock(lk, now))
    THEN [ret |-> LOCK_ENOENT, lk |-> lk]
    ELSE [ret |-> LOCK_OK,
          lk  |-> [lk EXCEPT !.lockers = [read_lock(lk, now) EXCEPT ![l] = NotHeld]]]

\* Unlock and break_lock: an ephemeral lock takes the object with it.
remove_lock(lk, now, l) ==
    IF l \notin Holders(read_lock(lk, now))
    THEN [ret |-> LOCK_ENOENT, lk |-> lk]
    ELSE [ret |-> LOCK_OK,
          lk  |-> IF cls_lock_is_ephemeral(lk.type)
                  THEN Unlocked(FALSE)
                  ELSE [lk EXCEPT !.lockers = [read_lock(lk, now) EXCEPT ![l] = NotHeld]]]

assert_locked(lk, now, l, type, tag) ==
    IF ~lk.exists THEN LOCK_ENOENT
    ELSE IF /\ l \in Holders(read_lock(lk, now))
            /\ lk.type = type
            /\ lk.tag = tag
         THEN LOCK_OK
         ELSE LOCK_EBUSY

\* Fault: the locker with the old cookie stays.
set_cookie_keeping_old(lk, now, l, cookie, type, tag) ==
    LET ret == assert_locked(lk, now, l, type, tag)
    IN  [ret |-> ret,
         lk  |-> IF ret # LOCK_OK THEN lk
                 ELSE [lk EXCEPT !.lockers[<<l[1], cookie>>] = lk.lockers[l]]]

\* The lock goes over to another cookie of the same entity.
set_cookie(lk, now, l, cookie, type, tag) ==
    LET new == <<l[1], cookie>>
        ret == IF assert_locked(lk, now, l, type, tag) # LOCK_OK
               THEN assert_locked(lk, now, l, type, tag)
               ELSE IF new \in Holders(read_lock(lk, now)) THEN LOCK_EBUSY
               ELSE LOCK_OK
    IN  [ret |-> ret,
         lk  |-> IF ret # LOCK_OK THEN lk
                 ELSE [lk EXCEPT !.lockers =
                          [read_lock(lk, now) EXCEPT ![l] = NotHeld, ![new] = lk.lockers[l]]]]
=============================================================================
