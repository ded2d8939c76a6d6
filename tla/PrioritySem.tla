----------------------------- MODULE PrioritySem -----------------------------
(***************************************************************************)
(* One backend's semaphore (engine/priority_sem.go) and the callers that   *)
(* use it through the slot router (engine/slot_router.go): acquire, think, *)
(* give the slot up while a tool runs, reacquire it, release it.           *)
(*                                                                         *)
(* Users are the PriorityUser callers (message_loop.go): they call         *)
(* ReleaseReserved when a tool starts.  Background are the                 *)
(* PriorityBackground callers (engine.go, runOrchestrator, and the clients *)
(* of clients/): they call Release.  Both reacquire through                *)
(* OrchestratorChoice.Reacquire, which calls CancelReservation on failure. *)
(*                                                                         *)
(* The callers of the program: the message loop is a user and orchestrator *)
(* with context.Background(); a background job is a user whose context     *)
(* cancel_job ends and that keeps its slot while tools run (dispatch.go);  *)
(* the heartbeat and the task scheduler are background orchestrators with  *)
(* context.Background(); a routine is one with a timeout and a watchdog; a *)
(* request of the clients is background work with a deadline and no tools. *)
(***************************************************************************)
EXTENDS SemOps, FiniteSets

CONSTANTS
    Slots,        \* the size given to NewPrioritySem
    Users,        \* callers at PriorityUser
    Background,   \* callers at PriorityBackground
    Orchestrators,\* callers that give the slot up while a tool runs
    Cancellable,  \* callers whose context can end
    MaxCancels    \* bound on the contexts that end

Callers == Users \cup Background

ASSUME SemAssumption ==
    /\ Slots \in Int
    /\ Users \cap Background = {}
    /\ IsFiniteSet(Users) /\ IsFiniteSet(Background)
    /\ Orchestrators \subseteq Callers /\ Cancellable \subseteq Callers
    /\ MaxCancels \in Nat

VARIABLES
    sem,      \* the PrioritySem
    pc,       \* where each caller is
    done,     \* callers whose ctx.Done() is closed
    cancels   \* history: reservations CancelReservation has cancelled

vars == <<sem, pc, done, cancels>>

\* idle: no orchestrator call; wait: in the select of Acquire; hold: owns a
\* slot, the LLM is thinking; tool: slot given up, a tool runs; rewait: in the
\* select of Reacquire's Acquire; giveBack, reGiveBack: woken but cancelled,
\* about to Release; cancelRes: Reacquire failed, about to CancelReservation.
Phases == {"idle", "wait", "hold", "tool", "rewait",
           "giveBack", "reGiveBack", "cancelRes"}

IsUser(c) == c \in Users
Goto(c, p) == pc' = [pc EXCEPT ![c] = p]

Init ==
    /\ sem = NewPrioritySem(Slots)
    /\ pc = [c \in Callers |-> "idle"]
    /\ done = {}
    /\ cancels = 0
-----------------------------------------------------------------------------
\* TryAcquireAt, or Acquire on its fast path: no look at the context.
AcquireFast(c) ==
    /\ pc[c] \in {"idle", "tool"}
    /\ Admits(sem, IsUser(c))
    /\ sem' = Take(sem, IsUser(c))
    /\ Goto(c, "hold")
    /\ UNCHANGED <<done, cancels>>

\* Acquire on its slow path.  A caller that comes back from a tool is in
\* Reacquire.
AcquireSlow(c) ==
    /\ pc[c] \in {"idle", "tool"}
    /\ ~Admits(sem, IsUser(c))
    /\ sem' = Enqueue(sem, c, IsUser(c))
    /\ Goto(c, IF pc[c] = "idle" THEN "wait" ELSE "rewait")
    /\ UNCHANGED <<done, cancels>>

\* The select takes "<-ch".
Wake(c) ==
    /\ pc[c] \in {"wait", "rewait"}
    /\ ~Queued(sem, c)
    /\ Goto(c, "hold")
    /\ UNCHANGED <<sem, done, cancels>>

\* Mutant of CancelQueued: the first acquire cancels a reservation as a failed
\* reacquire does.
CancelQueuedUnreserves(c) ==
    /\ pc[c] \in {"wait", "rewait"} /\ c \in done /\ Queued(sem, c)
    /\ sem' = CancelReservation(RemoveWaiter(sem, c, IsUser(c)))
    /\ Goto(c, "idle") /\ done' = done \ {c} /\ UNCHANGED cancels

\* The select takes "<-ctx.Done()" and the waiter is still queued.  The first
\* acquire then runs uncoordinated (or returns the error); a reacquire goes on
\* to CancelReservation.
CancelQueued(c) ==
    /\ pc[c] \in {"wait", "rewait"}
    /\ c \in done
    /\ Queued(sem, c)
    /\ sem' = RemoveWaiter(sem, c, IsUser(c))
    /\ IF pc[c] = "wait" THEN Goto(c, "idle") /\ done' = done \ {c}
                         ELSE Goto(c, "cancelRes") /\ UNCHANGED done
    /\ UNCHANGED cancels

\* Mutant of CancelWoken: the slot that was granted is forgotten.
CancelWokenLeaks(c) ==
    /\ pc[c] \in {"wait", "rewait"} /\ c \in done /\ ~Queued(sem, c)
    /\ Goto(c, "idle") /\ done' = done \ {c} /\ UNCHANGED <<sem, cancels>>

\* The select takes "<-ctx.Done()" although the channel is closed: the caller
\* owns a slot it must return.  It has dropped s.mu and not yet called Release.
CancelWoken(c) ==
    /\ pc[c] \in {"wait", "rewait"}
    /\ c \in done
    /\ ~Queued(sem, c)
    /\ Goto(c, IF pc[c] = "wait" THEN "giveBack" ELSE "reGiveBack")
    /\ UNCHANGED <<sem, done, cancels>>

GiveBack(c) ==
    /\ pc[c] \in {"giveBack", "reGiveBack"}
    /\ sem' = Release(sem)
    /\ IF pc[c] = "giveBack" THEN Goto(c, "idle") /\ done' = done \ {c}
                             ELSE Goto(c, "cancelRes") /\ UNCHANGED done
    /\ UNCHANGED cancels

\* The error path of OrchestratorChoice.Reacquire.  The orchestrator loop then
\* ends on its dead context, with acquired = false: no Release follows.
ReacquireFailed(c) ==
    /\ pc[c] = "cancelRes"
    /\ sem' = CancelReservation(sem)
    /\ cancels' = IF sem.reserved > 0 THEN cancels + 1 ELSE cancels
    /\ Goto(c, "idle")
    /\ done' = done \ {c}

\* OnToolStart: users keep a reservation, background callers do not.
OnToolStart(c) ==
    /\ c \in Orchestrators
    /\ pc[c] = "hold"
    /\ sem' = IF IsUser(c) THEN ReleaseReserved(sem) ELSE Release(sem)
    /\ Goto(c, "tool")
    /\ UNCHANGED <<done, cancels>>

\* The deferred choice.Release() at the end of the orchestrator call.
Finish(c) ==
    /\ pc[c] = "hold"
    /\ sem' = Release(sem)
    /\ Goto(c, "idle")
    /\ done' = done \ {c}
    /\ UNCHANGED cancels

\* A timeout or a cancel function ends the context of a running call.
CtxDone(c) ==
    /\ c \in Cancellable \ done
    /\ pc[c] # "idle"
    /\ cancels + Cardinality(done) < MaxCancels
    /\ done' = done \cup {c}
    /\ UNCHANGED <<sem, pc, cancels>>

Proceed(c) ==
    \/ Wake(c) \/ CancelQueued(c) \/ CancelWoken(c) \/ GiveBack(c)
    \/ ReacquireFailed(c) \/ OnToolStart(c) \/ Finish(c)
    \/ (pc[c] = "tool" /\ (AcquireFast(c) \/ AcquireSlow(c)))

Next == \E c \in Callers :
    \/ AcquireFast(c) \/ AcquireSlow(c) \/ Wake(c)
    \/ CancelQueued(c) \/ CancelWoken(c) \/ GiveBack(c) \/ ReacquireFailed(c)
    \/ OnToolStart(c) \/ Finish(c) \/ CtxDone(c)

Spec == Init /\ [][Next]_vars

\* The Go scheduler runs every goroutine that can run, and LLM calls and tools
\* end: a call that has started takes its next step.  New calls need not come,
\* contexts need not end.
Fairness == \A c \in Callers : WF_vars(Proceed(c))
FairSpec == Spec /\ Fairness
-----------------------------------------------------------------------------
\* A caller owns a slot from the moment its channel is closed, or it took the
\* fast path, until it calls Release or ReleaseReserved.
Owns(c) ==
    \/ pc[c] \in {"hold", "giveBack", "reGiveBack"}
    \/ pc[c] \in {"wait", "rewait"} /\ ~Queued(sem, c)
Owners == {c \in Callers : Owns(c)}

\* The counters never go negative: what Take and CancelReservation decrement
\* they have seen to be positive.
TypeOK ==
    /\ sem \in Semaphores(Callers)
    /\ pc \in [Callers -> Phases]
    /\ done \in SUBSET Callers
    /\ cancels \in Nat

\* Each queue holds each caller at most once, of its own priority, and only
\* callers blocked in Acquire: no channel is closed for nobody and no caller
\* waits in both queues (append, removeWaiterCh and dispatch keep this).
QueuesSound ==
    /\ IsInjective(sem.high) /\ IsInjective(sem.low)
    /\ \A c \in Callers :
          /\ Contains(sem.high, c) => c \in Users /\ pc[c] \in {"wait", "rewait"}
          /\ Contains(sem.low, c) => c \in Background /\ pc[c] \in {"wait", "rewait"}

\* The books balance: free, reserved and owned slots add up to the capacity
\* plus one slot for every reservation CancelReservation has cancelled.  No
\* interleaving of dispatch with a cancelled waiter loses or duplicates a slot,
\* and CancelReservation is the only operation that creates one.
SlotLedger ==
    sem.avail + sem.reserved + Cardinality(Owners) = Capacity(Slots) + cancels

\* No lost wakeup for users: as long as a slot is free or parked nobody waits
\* in the high queue, so a reacquiring user never sleeps beside its own slot.
NoUserWaitsForFreeSlot == sem.avail + sem.reserved > 0 => sem.high = <<>>

\* What the comment of SubagentClient promises: never more concurrent requests
\* than the server has slots.
SlotBound == Cardinality(Owners) <= Capacity(Slots)

\* What the comment of PrioritySem promises of a reservation: background work
\* does not take the slot a user gave up for a tool.  Only a user that gets a
\* slot uses a reservation up, or a reacquire that failed cancels one.
ReservationKept == [][sem'.reserved < sem.reserved =>
    \/ cancels' = cancels + 1
    \/ \E u \in Users : ~Owns(u) /\ Owns(u)']_vars

\* A user that asks for the slot, first or after a tool, gets it, unless its
\* context ends.
UserServed ==
    \A u \in Users : pc[u] \in {"wait", "rewait"} ~> pc[u] \in {"hold"} \/ u \in done

\* To its users the semaphore is a FIFO pool of slots (SlotPool), whatever the
\* reservations and the background queue do inside it; the pool grows with
\* every reservation CancelReservation cancels, and at no other time.
Pool == INSTANCE SlotPool WITH
    Size <- Capacity(Slots), Clients <- Callers, First <- Users,
    size <- Capacity(Slots) + cancels, owners <- Owners, line <- sem.high
PoolSpec == Pool!Spec
=============================================================================
