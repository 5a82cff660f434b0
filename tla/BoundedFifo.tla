----------------------------- MODULE BoundedFifo -----------------------------
(***************************************************************************)
(* What the queue class promises: a first-in first-out sequence of entries *)
(* with a capacity in bytes.  A vector of entries is appended as a whole   *)
(* exactly when it fits; a removal drops a prefix.                         *)
(***************************************************************************)
EXTENDS Integers, Sequences

CONSTANTS
    Capacity,    \* bytes for entries and their overhead
    Overhead,    \* bytes each entry takes besides its data
    Done,        \* the answers to a caller
    NoSpace,
    Refused

VARIABLES
    contents,    \* the entries, oldest first
    reply        \* the last answer, and the bytes the caller wanted to add

fifoVars == <<contents, reply>>

\* The bytes a sequence of entries takes.
Bytes(es) ==
    LET upto[i \in 0 .. Len(es)] ==
            IF i = 0 THEN 0 ELSE upto[i - 1] + Overhead + es[i].size
    IN  upto[Len(es)]

FifoInit == contents = <<>> /\ reply = [ret |-> Done, bytes |-> 0]

Put ==
    LET es == SubSeq(contents', Len(contents) + 1, Len(contents'))
    IN  /\ es # <<>>
        /\ contents' = contents \o es
        /\ Bytes(contents') <= Capacity
        /\ reply' = [ret |-> Done, bytes |-> Bytes(es)]

\* Entries are turned away only when the capacity cannot hold them.
TurnAway ==
    /\ reply'.ret = NoSpace
    /\ Bytes(contents) + reply'.bytes > Capacity
    /\ UNCHANGED contents

DropPrefix ==
    /\ \E n \in 0 .. Len(contents) :
           contents' = SubSeq(contents, n + 1, Len(contents))
    /\ reply' = [ret |-> Done, bytes |-> 0]

Refuse == reply' = [ret |-> Refused, bytes |-> 0] /\ UNCHANGED contents

FifoNext == Put \/ TurnAway \/ DropPrefix \/ Refuse

FifoSpec == FifoInit /\ [][FifoNext]_fifoVars
=============================================================================
