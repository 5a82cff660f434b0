--------------------------- MODULE LockClassProofs ---------------------------
(***************************************************************************)
(* The lock class keeps its promises for any number of clients, cookies    *)
(* and tags, any durations and any time.  The inductive invariant is       *)
(* TypeOK, MutualExclusion and EphemeralObject together: an unlock of an   *)
(* ephemeral lock removes the whole object, which is harmless to others    *)
(* only because the lock is exclusive.                                     *)
(***************************************************************************)
EXTENDS LockClass, TLAPS, FiniteSetTheorems

\* Trimming expired lockers yields stored ones, with the ends they had.
LEMMA TrimmedAreStored ==
    ASSUME TypeOK
    PROVE  /\ read_lock(lk, now) \in [Lockers -> Nat \cup {NotHeld}]
           /\ Holders(read_lock(lk, now)) \subseteq Holders(lk.lockers)
BY DEF TypeOK, LockState, read_lock, Holders, NotHeld, Expired

\* Every operation leaves a lock of the right type (cls_lock.cc: lock_obj,
\* remove_lock, set_cookie).
LEMMA InitType == Init => TypeOK
BY DEF Init, TypeOK, Unlocked, LockState, NotHeld

\* Lock, unlock, break, change of cookie and the clock keep the type of the lock.
LEMMA NextType == TypeOK /\ [Next]_vars => TypeOK'
<1> SUFFICES ASSUME TypeOK, [Next]_vars PROVE TypeOK'
    OBVIOUS
<1> DEFINE trimmed == read_lock(lk, now)
<1>t. trimmed \in [Lockers -> Nat \cup {NotHeld}]
    BY TrimmedAreStored
<1>1. CASE UNCHANGED vars
    BY <1>1 DEF vars, TypeOK, Unlocked
<1>2. ASSUME NEW l \in Lockers, NEW type \in LockTypes, NEW tag \in Tags,
             NEW d \in Durations, NEW f \in LockFlags, Lock(l, type, tag, d, f)
      PROVE  TypeOK'
    <2>1. CASE LockRet(lk, now, l, type, tag, f) = LOCK_OK
        <3> DEFINE end == IF d = 0 THEN Forever ELSE now + d
        <3>1. end \in Nat
            BY LockConstants DEF TypeOK, Forever
        <3>2. [trimmed EXCEPT ![l] = end] \in [Lockers -> Nat \cup {NotHeld}]
            BY <1>t, <3>1
        <3>3. lk' = [exists |-> TRUE, type |-> type, tag |-> tag,
                     lockers |-> [trimmed EXCEPT ![l] = end]] /\ now' = now
            BY <1>2, <2>1 DEF Lock, lock_obj
        <3> HIDE DEF trimmed, end
        <3> QED
            BY <3>2, <3>3 DEF TypeOK, LockState
    <2>2. CASE LockRet(lk, now, l, type, tag, f) # LOCK_OK
        BY <1>2, <2>2 DEF Lock, lock_obj, TypeOK, Unlocked
    <2> QED
        BY <2>1, <2>2
<1>3. ASSUME NEW l \in Lockers, Unlock(l)
      PROVE  TypeOK'
    <2>1. CASE lk' = lk
        BY <1>3, <2>1 DEF Unlock, TypeOK, Unlocked
    <2>2. CASE lk' = Unlocked(FALSE)
        BY <1>3, <2>2 DEF Unlock, TypeOK, Unlocked, LockState, NotHeld
    <2>3. CASE /\ lk' = [lk EXCEPT !.lockers = [trimmed EXCEPT ![l] = NotHeld]]
               /\ l \in Holders(trimmed)
        <3>1. [trimmed EXCEPT ![l] = NotHeld] \in [Lockers -> Nat \cup {NotHeld}]
            BY <1>t
        <3>2. lk.exists
            BY <2>3, TrimmedAreStored DEF TypeOK, Unlocked, Holders
        <3> HIDE DEF trimmed
        <3> QED
            BY <1>3, <2>3, <3>1, <3>2 DEF Unlock, TypeOK, LockState
    <2> QED
        BY <1>3, <2>1, <2>2, <2>3 DEF Unlock, remove_lock
<1>4. ASSUME NEW l \in Lockers, NEW cookie \in Cookies, NEW type \in LockTypes,
             NEW tag \in Tags, SetCookie(l, cookie, type, tag)
      PROVE  TypeOK'
    <2> DEFINE new == <<l[1], cookie>>
    <2>1. new \in Lockers
        BY DEF Lockers
    <2>2. CASE lk' = lk
        BY <1>4, <2>2 DEF SetCookie, TypeOK, Unlocked
    <2>3. CASE /\ lk' = [lk EXCEPT !.lockers =
                            [trimmed EXCEPT ![l] = NotHeld, ![new] = lk.lockers[l]]]
               /\ assert_locked(lk, now, l, type, tag) = LOCK_OK
        <3>1. [trimmed EXCEPT ![l] = NotHeld, ![new] = lk.lockers[l]]
                  \in [Lockers -> Nat \cup {NotHeld}]
            BY <1>t, <2>1 DEF TypeOK, LockState
        <3>2. lk.exists
            BY <2>3 DEF assert_locked, LOCK_OK, LOCK_ENOENT
        <3> HIDE DEF trimmed, new
        <3> QED
            BY <1>4, <2>3, <3>1, <3>2 DEF SetCookie, TypeOK, LockState
    <2> QED
        BY <1>4, <2>2, <2>3 DEF SetCookie, set_cookie, LOCK_OK, LOCK_EBUSY
<1>5. CASE Tick
    BY <1>5 DEF Tick, TypeOK, Unlocked
<1> QED
    BY <1>1, <1>2, <1>3, <1>4, <1>5 DEF Next

\* The type invariant holds in every behaviour of the lock class.
THEOREM LockTypeCorrect == Spec => []TypeOK
BY InitType, NextType, PTL DEF Spec

-----------------------------------------------------------------------------
(* Exclusiveness *)

\* What each operation does to the set of holders.
LEMMA LockEffect ==
    ASSUME TypeOK, NEW l \in Lockers, NEW type \in LockTypes, NEW tag \in Tags,
           NEW d \in Durations, NEW f \in LockFlags, Lock(l, type, tag, d, f)
    PROVE  \/ lk' = lk
           \/ /\ lk'.type = type /\ lk'.exists = TRUE
              /\ Holders(lk'.lockers) = Holders(read_lock(lk, now)) \cup {l}
              /\ Holders(read_lock(lk, now)) \ {l} # {} => type = "shared"
<1> DEFINE trimmed == read_lock(lk, now)
           end == IF d = 0 THEN Forever ELSE now + d
<1>1. CASE LockRet(lk, now, l, type, tag, f) = LOCK_OK
    <2>1. trimmed \in [Lockers -> Nat \cup {NotHeld}]
        BY TrimmedAreStored
    <2>2. end # NotHeld
        BY LockConstants DEF TypeOK, Forever, NotHeld
    <2>3. lk' = [exists |-> TRUE, type |-> type, tag |-> tag,
                 lockers |-> [trimmed EXCEPT ![l] = end]]
        BY <1>1 DEF Lock, lock_obj
    <2>4. Holders(trimmed) \ {l} # {} => type = "shared"
        BY <1>1 DEF LockRet, LOCK_OK, LOCK_EBUSY, LOCK_EINVAL, LOCK_EEXIST, LOCK_ENOENT,
                    cls_lock_is_exclusive, LockTypes, LockFlags
    <2> HIDE DEF trimmed, end
    <2>5. Holders([trimmed EXCEPT ![l] = end]) = Holders(trimmed) \cup {l}
        BY <2>1, <2>2 DEF Holders
    <2> QED
        BY <2>3, <2>4, <2>5 DEF trimmed
<1>2. CASE LockRet(lk, now, l, type, tag, f) # LOCK_OK
    BY <1>2 DEF Lock, lock_obj
<1> QED
    BY <1>1, <1>2

\* An unlock or a break takes one holder away at most, or the whole object of an
\* ephemeral lock (cls_lock.cc: remove_lock).
LEMMA UnlockEffect ==
    ASSUME TypeOK, NEW l \in Lockers, Unlock(l)
    PROVE  \/ lk' = lk
           \/ /\ lk' = Unlocked(FALSE)
              /\ cls_lock_is_ephemeral(lk.type)
              /\ l \in Holders(read_lock(lk, now))
           \/ /\ lk'.type = lk.type /\ ~cls_lock_is_ephemeral(lk.type)
              /\ Holders(lk'.lockers) = Holders(read_lock(lk, now)) \ {l}
<1> DEFINE trimmed == read_lock(lk, now)
<1>1. CASE lk' = [lk EXCEPT !.lockers = [trimmed EXCEPT ![l] = NotHeld]]
    <2>1. trimmed \in [Lockers -> Nat \cup {NotHeld}]
        BY TrimmedAreStored
    <2> HIDE DEF trimmed
    <2>2. lk'.lockers = [trimmed EXCEPT ![l] = NotHeld] /\ lk'.type = lk.type
        BY <1>1 DEF TypeOK, LockState
    <2>3. Holders([trimmed EXCEPT ![l] = NotHeld]) = Holders(trimmed) \ {l}
        BY <2>1 DEF Holders
    <2>4. Holders(lk'.lockers) = Holders(trimmed) \ {l}
        BY <2>2, <2>3
    <2>5. \/ lk' = lk
          \/ lk' = Unlocked(FALSE) /\ cls_lock_is_ephemeral(lk.type)
                 /\ l \in Holders(trimmed)
          \/ ~cls_lock_is_ephemeral(lk.type)
        BY DEF Unlock, remove_lock, trimmed
    <2> QED
        BY <2>2, <2>4, <2>5 DEF trimmed
<1> QED
    BY <1>1 DEF Unlock, remove_lock

\* A change of cookie replaces its own holder by one with the new cookie and lets the
\* others stay as they are (cls_lock.cc: set_cookie).
LEMMA SetCookieEffect ==
    ASSUME TypeOK, NEW l \in Lockers, NEW cookie \in Cookies, NEW type \in LockTypes,
           NEW tag \in Tags, SetCookie(l, cookie, type, tag)
    PROVE  \/ lk' = lk
           \/ /\ lk'.type = lk.type /\ lk'.exists = lk.exists /\ lk.exists
              /\ l \in Holders(read_lock(lk, now))
              /\ <<l[1], cookie>> \in Lockers
              /\ <<l[1], cookie>> \notin Holders(read_lock(lk, now))
              /\ Holders(lk'.lockers) =
                     (Holders(read_lock(lk, now)) \ {l}) \cup {<<l[1], cookie>>}
<1> DEFINE trimmed == read_lock(lk, now)
           new == <<l[1], cookie>>
<1>1. CASE /\ assert_locked(lk, now, l, type, tag) = LOCK_OK
           /\ new \notin Holders(trimmed)
    <2>1. trimmed \in [Lockers -> Nat \cup {NotHeld}] /\ new \in Lockers
              /\ Holders(trimmed) \subseteq Holders(lk.lockers)
        BY TrimmedAreStored DEF Lockers
    <2>2. lk.exists /\ l \in Holders(trimmed)
        BY <1>1 DEF assert_locked, LOCK_OK, LOCK_ENOENT, LOCK_EBUSY
    <2>3. lk.lockers[l] # NotHeld
        BY <2>1, <2>2 DEF Holders
    <2>4. lk' = [lk EXCEPT !.lockers =
                    [trimmed EXCEPT ![l] = NotHeld, ![new] = lk.lockers[l]]]
        BY <1>1 DEF SetCookie, set_cookie, LOCK_OK
    <2> HIDE DEF trimmed, new
    <2>5. /\ lk'.lockers = [trimmed EXCEPT ![l] = NotHeld, ![new] = lk.lockers[l]]
          /\ lk'.type = lk.type /\ lk'.exists = lk.exists
        BY <2>4 DEF TypeOK, LockState
    <2>6. Holders([trimmed EXCEPT ![l] = NotHeld, ![new] = lk.lockers[l]])
              = (Holders(trimmed) \ {l}) \cup {new}
        BY <2>1, <2>3 DEF Holders
    <2>7. Holders(lk'.lockers) = (Holders(trimmed) \ {l}) \cup {new}
        BY <2>5, <2>6
    <2> QED
        BY <1>1, <2>1, <2>2, <2>5, <2>7 DEF trimmed, new
<1>2. CASE ~ (/\ assert_locked(lk, now, l, type, tag) = LOCK_OK
              /\ new \notin Holders(trimmed))
    BY <1>2 DEF SetCookie, set_cookie, LOCK_OK, LOCK_EBUSY
<1> QED
    BY <1>1, <1>2

\* The inductive invariant.
LockInv == TypeOK /\ MutualExclusion /\ EphemeralObject

\* An object on which nobody ever took a lock satisfies the invariant.
LEMMA InitInv == Init => LockInv
<1> SUFFICES ASSUME Init PROVE LockInv
    OBVIOUS
<1>1. Holders(lk.lockers) = {} /\ lk.type = "none"
    BY DEF Init, Unlocked, Holders
<1> QED
    BY <1>1, InitType DEF LockInv, MutualExclusion, EphemeralObject, cls_lock_is_ephemeral

\* A lock with one stored holder at most, or a shared one, stays so under trimming.
LEMMA NextMutualExclusion == LockInv /\ [Next]_vars => MutualExclusion'
<1> SUFFICES ASSUME LockInv, [Next]_vars PROVE MutualExclusion'
    OBVIOUS
<1> USE DEF LockInv
<1>u. CASE lk' = lk
    BY <1>u DEF MutualExclusion
<1>s. Holders(read_lock(lk, now)) \subseteq Holders(lk.lockers)
    BY TrimmedAreStored
<1>1. ASSUME NEW l \in Lockers, NEW type \in LockTypes, NEW tag \in Tags,
             NEW d \in Durations, NEW f \in LockFlags, Lock(l, type, tag, d, f)
      PROVE  MutualExclusion'
    BY <1>1, <1>u, LockEffect DEF MutualExclusion
<1>2. ASSUME NEW l \in Lockers, Unlock(l)
      PROVE  MutualExclusion'
    <2>1. CASE lk' = Unlocked(FALSE)
        BY <2>1 DEF MutualExclusion, Unlocked, Holders
    <2> QED
        BY <1>2, <1>u, <1>s, <2>1, UnlockEffect DEF MutualExclusion
<1>3. ASSUME NEW l \in Lockers, NEW cookie \in Cookies, NEW type \in LockTypes,
             NEW tag \in Tags, SetCookie(l, cookie, type, tag)
      PROVE  MutualExclusion'
    <2> DEFINE new == <<l[1], cookie>>
               rest == Holders(read_lock(lk, now)) \ {l}
    <2>1. CASE /\ lk'.type = lk.type
               /\ l \in Holders(read_lock(lk, now))
               /\ Holders(lk'.lockers) = rest \cup {new}
        <3>1. rest # {} => lk.type = "shared"
            BY <1>s, <2>1 DEF MutualExclusion
        <3> HIDE DEF new, rest
        <3> QED
            BY <2>1, <3>1 DEF MutualExclusion
    <2> QED
        BY <1>3, <1>u, <2>1, SetCookieEffect
<1> QED
    BY <1>u, <1>1, <1>2, <1>3 DEF Next, Tick, vars

\* The object of an ephemeral lock goes with its holder: only the holder unlocks, and
\* trimming is stored only together with a new holder.
LEMMA NextEphemeral == LockInv /\ [Next]_vars => EphemeralObject'
<1> SUFFICES ASSUME LockInv, [Next]_vars, cls_lock_is_ephemeral(lk'.type)
             PROVE  lk'.exists /\ \E m : Holders(lk'.lockers) = {m}
    BY FS_Singleton DEF EphemeralObject
<1> USE DEF LockInv
<1>u. CASE lk' = lk
    <2>1. lk.exists /\ Cardinality(Holders(lk.lockers)) = 1
        BY <1>u DEF EphemeralObject
    <2>2. PICK m \in Holders(lk.lockers) : TRUE
        <3>1. Holders(lk.lockers) # {}
            BY <2>1, FS_EmptySet
        <3> QED
            BY <3>1
    <2>3. Holders(lk.lockers) = {m}
        BY <1>u, <2>2 DEF MutualExclusion, cls_lock_is_ephemeral
    <2> QED
        BY <1>u, <2>1, <2>3
<1>1. ASSUME NEW l \in Lockers, NEW type \in LockTypes, NEW tag \in Tags,
             NEW d \in Durations, NEW f \in LockFlags, Lock(l, type, tag, d, f), lk' # lk
      PROVE  lk'.exists /\ \E m : Holders(lk'.lockers) = {m}
    <2>1. Holders(read_lock(lk, now)) \ {l} = {}
        BY <1>1, LockEffect DEF cls_lock_is_ephemeral
    <2>2. Holders(lk'.lockers) = {l}
        BY <1>1, <2>1, LockEffect
    <2> QED
        BY <1>1, <2>2, LockEffect
<1>2. ASSUME NEW l \in Lockers, Unlock(l), lk' # lk
      PROVE  FALSE
    BY <1>2, UnlockEffect DEF Unlocked, cls_lock_is_ephemeral
<1>3. ASSUME NEW l \in Lockers, NEW cookie \in Cookies, NEW type \in LockTypes,
             NEW tag \in Tags, SetCookie(l, cookie, type, tag), lk' # lk
      PROVE  lk'.exists /\ \E m : Holders(lk'.lockers) = {m}
    <2>1. /\ l \in Holders(read_lock(lk, now)) /\ cls_lock_is_ephemeral(lk.type)
          /\ Holders(read_lock(lk, now)) \subseteq Holders(lk.lockers)
        BY <1>3, SetCookieEffect, TrimmedAreStored
    <2>2. Holders(read_lock(lk, now)) \ {l} = {}
        BY <2>1 DEF MutualExclusion, cls_lock_is_ephemeral
    <2>3. Holders(lk'.lockers) = {<<l[1], cookie>>}
        BY <1>3, <2>2, SetCookieEffect
    <2> QED
        BY <1>3, <2>3, SetCookieEffect
<1> QED
    BY <1>u, <1>1, <1>2, <1>3 DEF Next, Tick, vars

\* Type, exclusiveness and the life of the object of an ephemeral lock hold together
\* in every behaviour of the lock class (cls_lock.cc).
THEOREM LockInvariant == Spec => []LockInv
<1>1. LockInv /\ [Next]_vars => LockInv'
    BY NextType, NextMutualExclusion, NextEphemeral DEF LockInv
<1> QED
    BY <1>1, InitInv, PTL DEF Spec

\* An exclusive lock never has two holders (cls_lock.cc: lock_obj), so the assertion
\* in remove_lock (cls_lock.cc:308) never fails.
THEOREM LockMutualExclusion == Spec => []MutualExclusion
<1>1. LockInv => MutualExclusion
    BY DEF LockInv
<1> QED
    BY <1>1, LockInvariant, PTL

\* The object of an ephemeral lock lives exactly as long as its one holder is stored
\* (cls_lock.cc: lock_obj creates it, remove_lock removes it).
THEOREM LockEphemeralObject == Spec => []EphemeralObject
<1>1. LockInv => EphemeralObject
    BY DEF LockInv
<1> QED
    BY <1>1, LockInvariant, PTL

\* Operations guarded with assert_locked on an exclusive lock, as the notification
\* manager's are, are admitted for one locker at a time.
THEOREM LockOneGuardedOwner == Spec => []OneGuardedOwner
<1>1. LockInv => OneGuardedOwner
    <2> SUFFICES ASSUME LockInv,
                        NEW l \in Lockers, NEW m \in Lockers, NEW t \in Tags, NEW u \in Tags,
                        assert_locked(lk, now, l, "exclusive", t) = LOCK_OK,
                        assert_locked(lk, now, m, "exclusive", u) = LOCK_OK
                 PROVE  l = m
        BY DEF OneGuardedOwner
    <2>1. /\ lk.type = "exclusive"
          /\ l \in Holders(read_lock(lk, now)) /\ m \in Holders(read_lock(lk, now))
        BY DEF assert_locked, LOCK_OK, LOCK_ENOENT, LOCK_EBUSY
    <2> QED
        BY <2>1, TrimmedAreStored DEF LockInv, MutualExclusion
<1> QED
    BY <1>1, LockInvariant, PTL

\* A lock that has not expired is taken from its holder only by its own unlock (or a
\* break in its name) or its own change of cookie.
THEOREM LockNoTheft == Spec => NoTheft
<1>1. LockInv /\ [Next]_vars => [LosesOnlyByItself]_vars
    <2> SUFFICES ASSUME LockInv, Next, NEW h \in Lockers,
                        h \in Holders(read_lock(lk, now)), h \notin Holders(lk'.lockers)
                 PROVE  \/ Unlock(h)
                        \/ \E cookie \in Cookies, type \in LockTypes, tag \in Tags :
                               SetCookie(h, cookie, type, tag)
        BY DEF LosesOnlyByItself
    <2> USE DEF LockInv
    <2>1. lk' # lk /\ h \in Holders(lk.lockers)
        BY TrimmedAreStored
    <2>2. ASSUME NEW l \in Lockers, NEW type \in LockTypes, NEW tag \in Tags,
                 NEW d \in Durations, NEW f \in LockFlags, Lock(l, type, tag, d, f)
          PROVE  FALSE
        BY <2>1, <2>2, LockEffect
    <2>3. ASSUME NEW l \in Lockers, Unlock(l)
          PROVE  l = h
        <3>1. CASE cls_lock_is_ephemeral(lk.type) /\ l \in Holders(read_lock(lk, now))
            BY <2>1, <3>1, TrimmedAreStored DEF MutualExclusion, cls_lock_is_ephemeral
        <3> QED
            BY <2>1, <2>3, <3>1, UnlockEffect
    <2>4. ASSUME NEW l \in Lockers, NEW cookie \in Cookies, NEW type \in LockTypes,
                 NEW tag \in Tags, SetCookie(l, cookie, type, tag)
          PROVE  l = h
        BY <2>1, <2>4, SetCookieEffect
    <2> QED
        BY <2>1, <2>2, <2>3, <2>4 DEF Next, Tick
<1> QED
    BY <1>1, LockInvariant, PTL DEF Spec, NoTheft
=============================================================================
