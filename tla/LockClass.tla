------------------------------ MODULE LockClass ------------------------------
(***************************************************************************)
(* One lock of one object under arbitrary clients, with the OSD's clock.   *)
(***************************************************************************)
EXTENDS ClsLock, FiniteSets

CONSTANTS
    Durations,   \* how long a lock is asked for; 0 is for ever
    MaxTime      \* bound on the clock

ASSUME LockConstants == Durations \subseteq Nat /\ MaxTime \in Nat

VARIABLES
    lk,    \* the lock as stored with the object
    now    \* the clock of the OSD, from 1: zero means "never" in an expiration

vars == <<lk, now>>

Init == lk = Unlocked(FALSE) /\ now = 1

Lock(l, type, tag, duration, flags) ==
    /\ lk' = lock_obj(lk, now, l, type, tag, duration, flags).lk
    /\ UNCHANGED now

\* By the locker itself (unlock_op), or by anybody on its behalf (break_lock).
Unlock(l) ==
    /\ lk' = remove_lock(lk, now, l).lk
    /\ UNCHANGED now

SetCookie(l, cookie, type, tag) ==
    /\ lk' = set_cookie(lk, now, l, cookie, type, tag).lk
    /\ UNCHANGED now

Tick ==
    /\ now < MaxTime
    /\ now' = now + 1
    /\ UNCHANGED lk

Next ==
    \/ \E l \in Lockers, type \in LockTypes, tag \in Tags, d \in Durations, f \in LockFlags :
           Lock(l, type, tag, d, f)
    \/ \E l \in Lockers : Unlock(l)
    \/ \E l \in Lockers, cookie \in Cookies, type \in LockTypes, tag \in Tags :
           SetCookie(l, cookie, type, tag)
    \/ Tick

Spec == Init /\ [][Next]_vars

-----------------------------------------------------------------------------
\* The stored lock has its type, and without the object there is none.
TypeOK ==
    /\ lk \in LockState
    /\ now \in Nat \ {0}
    /\ lk.exists \/ lk = Unlocked(FALSE)

\* Two lockers are stored together only under a shared lock, so an exclusive lock
\* has one holder; the assertion in remove_lock (cls_lock.cc:308) that nobody else
\* holds an ephemeral lock cannot fail.
MutualExclusion ==
    \A l, m \in Holders(lk.lockers) : l # m => lk.type = "shared"

\* Operations guarded by assert_locked with an exclusive lock are never admitted for
\* two lockers at one time.
OneGuardedOwner ==
    \A l, m \in Lockers, t, u \in Tags :
        /\ assert_locked(lk, now, l, "exclusive", t) = LOCK_OK
        /\ assert_locked(lk, now, m, "exclusive", u) = LOCK_OK
        => l = m

\* A lock that has not expired is taken from its holder only by an unlock or a break
\* of that holder, or by the holder itself: no request of another locker, renewal or
\* clean-up of expired lockers drops it.
LosesOnlyByItself ==
    \A l \in Lockers :
        l \in Holders(read_lock(lk, now)) /\ l \notin Holders(lk'.lockers) =>
            \/ Unlock(l)
            \/ \E cookie \in Cookies, type \in LockTypes, tag \in Tags :
                   SetCookie(l, cookie, type, tag)
NoTheft == [][LosesOnlyByItself]_vars

\* The object of an ephemeral lock exists exactly while somebody is stored as its
\* holder; without lockers an unlocked object has no stored lock of that kind.
EphemeralObject ==
    cls_lock_is_ephemeral(lk.type) => lk.exists /\ Cardinality(Holders(lk.lockers)) = 1
=============================================================================
