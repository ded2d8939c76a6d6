------------------------------- MODULE SemOps -------------------------------
(***************************************************************************)
(* The operations of engine/priority_sem.go as functions from semaphore    *)
(* states to semaphore states.  Every method of PrioritySem runs under     *)
(* s.mu, so each operator below is one critical section.                   *)
(*                                                                         *)
(* A semaphore is a record: avail (unreserved free slots), reserved (slots *)
(* parked for a high-priority reacquire) and the two FIFO queues of        *)
(* waiters, high and low.  A waiter is named by the caller that blocks in  *)
(* Acquire; closing its channel is taking it out of its queue.  The field  *)
(* cap never changes and is left to the modules that use this one.         *)
(***************************************************************************)
EXTENDS Integers, Sequences, SequencesExt

Semaphores(Callers) ==
    [avail : Nat, reserved : Nat, high : Seq(Callers), low : Seq(Callers)]

\* NewPrioritySem: a non-positive size means one slot.
Capacity(slots) == IF slots <= 0 THEN 1 ELSE slots

NewPrioritySem(slots) ==
    [avail |-> Capacity(slots), reserved |-> 0, high |-> <<>>, low |-> <<>>]

\* The test TryAcquireAt and the fast path of Acquire share.  A user may take
\* any free slot; background work only an unreserved one, and only when no
\* user is queued.
Admits(s, user) ==
    IF user THEN s.reserved > 0 \/ s.avail > 0
            ELSE s.avail > 0 /\ s.high = <<>>

\* The slot an admitted caller takes: users consume a reservation first.
Take(s, user) ==
    IF user /\ s.reserved > 0 THEN [s EXCEPT !.reserved = @ - 1]
                              ELSE [s EXCEPT !.avail = @ - 1]

\* The slow path of Acquire: join the queue of the caller's priority.
Enqueue(s, c, user) ==
    IF user THEN [s EXCEPT !.high = Append(@, c)]
            ELSE [s EXCEPT !.low = Append(@, c)]

\* Mutant of Dispatch: background waiters first.
DispatchLowFirst(s) ==
    IF s.low # <<>> THEN [s EXCEPT !.low = Tail(@)]
    ELSE IF s.high # <<>> THEN [s EXCEPT !.high = Tail(@)]
    ELSE [s EXCEPT !.avail = @ + 1]

\* Wake the first user, else the first background waiter, else free the slot.
Dispatch(s) ==
    IF s.high # <<>> THEN [s EXCEPT !.high = Tail(@)]
    ELSE IF s.low # <<>> THEN [s EXCEPT !.low = Tail(@)]
    ELSE [s EXCEPT !.avail = @ + 1]

Release(s) == Dispatch(s)

\* Mutant of ReleaseReserved: the slot is parked although a user is queued.
ReleaseReservedParks(s) == [s EXCEPT !.reserved = @ + 1]

\* Hand the slot to a queued user, else park it for one.
ReleaseReserved(s) ==
    IF s.high # <<>> THEN [s EXCEPT !.high = Tail(@)]
                     ELSE [s EXCEPT !.reserved = @ + 1]

\* The slot becomes available AND is dispatched, as the code does it.
CancelReservation(s) ==
    IF s.reserved <= 0 THEN s
    ELSE Dispatch([s EXCEPT !.reserved = @ - 1, !.avail = @ + 1])

\* A waiter is in its queue until its channel is closed.
Queued(s, c) == Contains(s.high, c) \/ Contains(s.low, c)

\* removeWaiterCh on the queue of the caller's priority.
RemoveWaiter(s, c, user) ==
    IF user THEN [s EXCEPT !.high = RemoveFirst(@, c)]
            ELSE [s EXCEPT !.low = RemoveFirst(@, c)]

SlotsInUse(s, cap) == cap - s.avail - s.reserved
=============================================================================
