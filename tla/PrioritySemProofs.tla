-------------------------- MODULE PrioritySemProofs --------------------------
(***************************************************************************)
(* Theorems about PrioritySem, for every number of slots and every finite  *)
(* set of callers: its invariants, and that it implements SlotPool.        *)
(***************************************************************************)
EXTENDS PrioritySem, SemOpsProofs

\* The inductive invariant: the ledger alone is not inductive, since a dispatch
\* moves a slot to a queued caller, and only sound queues make that caller one
\* that did not own a slot.
IInv == TypeOK /\ QueuesSound /\ SlotLedger

\* There are finitely many callers, hence owners.
LEMMA OwnersFinite == IsFiniteSet(Owners)
<1>1. IsFiniteSet(Callers)
  BY FS_Union, SemAssumption DEF Callers
<1>. QED  BY <1>1, FS_Subset, Owners \subseteq Callers DEF Owners

\* The queues of a reachable semaphore hold no caller twice.
LEMMA SoundSemaphore ==
    ASSUME TypeOK, QueuesSound
    PROVE  SemOK(Callers, sem)
<1>1. \A x : Contains(sem.high, x) \/ Contains(sem.low, x) => x \in Callers
  BY DEF TypeOK, Semaphores, Contains
<1>. QED
  BY <1>1, SemAssumption DEF TypeOK, QueuesSound, SemOK

\* A caller that is not blocked in Acquire moves on and a slot is given back to
\* the semaphore: if it was the caller's, the ledger does not change.
LEMMA GiveStep ==
    ASSUME TypeOK, QueuesSound, NEW c \in Callers,
           pc[c] \notin {"wait", "rewait"}, Gives(Callers, sem, sem'),
           NEW p \in {"idle", "tool", "cancelRes"}, Goto(c, p)
    PROVE  /\ sem' \in Semaphores(Callers) /\ pc' \in [Callers -> Phases]
           /\ QueuesSound'
           /\ sem'.avail + sem'.reserved + Cardinality(Owners')
                = sem.avail + sem.reserved + 1 + Cardinality(Owners \ {c})
<1>1. sem' \in Semaphores(Callers) /\ pc' \in [Callers -> Phases]
  BY DEF Gives, SemOK, Goto, TypeOK, Phases
<1>2. /\ \A x \in Callers : x # c => pc'[x] = pc[x]
      /\ pc'[c] = p
  BY DEF Goto, TypeOK
<1>3. ~Queued(sem, c)
  BY DEF QueuesSound, Queued
<1>4. QueuesSound'
  BY <1>2, <1>3 DEF QueuesSound, Gives, SemOK, Narrows, Queued
<1>5. /\ IsFiniteSet(Owners \ {c})
      /\ Cardinality(Owners \ {c}) \in Nat
  BY OwnersFinite, FS_RemoveElement, FS_CardinalityType
<1>6. sem.avail \in Nat /\ sem.reserved \in Nat
      /\ sem'.avail \in Nat /\ sem'.reserved \in Nat
  BY <1>1 DEF TypeOK, Semaphores
<1>7. CASE Frees(sem, sem')
  <2>1. Owners' = Owners \ {c}
    BY <1>2, <1>7 DEF Owners, Owns, Frees
  <2>. QED  BY <2>1, <1>1, <1>4, <1>5, <1>6, <1>7 DEF Frees
<1>8. CASE Hands(Callers, sem, sem')
  <2>1. PICK w \in Callers :
          Queued(sem, w) /\ \A x : Queued(sem', x) <=> Queued(sem, x) /\ x # w
    BY <1>8 DEF Hands
  <2>2. w # c /\ pc[w] \in {"wait", "rewait"}
    BY <1>3, <2>1 DEF QueuesSound, Queued
  <2>3. w \notin Owners \ {c}
    BY <2>1, <2>2 DEF Owners, Owns
  <2>4. Owners' = (Owners \ {c}) \cup {w}
    BY <1>2, <2>1, <2>2 DEF Owners, Owns
  <2>5. Cardinality(Owners') = Cardinality(Owners \ {c}) + 1
    BY <1>5, <2>3, <2>4, FS_AddElement
  <2>. QED  BY <2>5, <1>1, <1>4, <1>5, <1>6, <1>8 DEF Hands
<1>. QED  BY <1>1, <1>4, <1>7, <1>8 DEF Gives

\* An owner returns its slot: OnToolStart, Finish and GiveBack.
LEMMA ReturnStep ==
    ASSUME IInv, NEW c \in Callers,
           pc[c] \in {"hold", "giveBack", "reGiveBack"}, Gives(Callers, sem, sem'),
           NEW p \in {"idle", "tool", "cancelRes"}, Goto(c, p),
           cancels' = cancels, done' \in SUBSET Callers
    PROVE  IInv'
<1>1. /\ sem' \in Semaphores(Callers) /\ pc' \in [Callers -> Phases]
      /\ QueuesSound'
      /\ sem'.avail + sem'.reserved + Cardinality(Owners')
           = sem.avail + sem.reserved + 1 + Cardinality(Owners \ {c})
  BY GiveStep DEF IInv
<1>2. c \in Owners
  BY DEF Owners, Owns
<1>3. /\ Cardinality(Owners \ {c}) = Cardinality(Owners) - 1
      /\ Cardinality(Owners) \in Nat
  BY <1>2, OwnersFinite, FS_RemoveElement, FS_CardinalityType
<1>4. sem.avail \in Nat /\ sem.reserved \in Nat
  BY DEF IInv, TypeOK, Semaphores
<1>5. sem'.avail + sem'.reserved + Cardinality(Owners')
        = sem.avail + sem.reserved + Cardinality(Owners)
  BY <1>1, <1>3, <1>4
<1>. QED
  BY <1>1, <1>5 DEF IInv, TypeOK, SlotLedger

\* A new semaphore satisfies the invariant.
LEMMA InitIInv == Init => IInv
<1>. SUFFICES ASSUME Init PROVE IInv
  OBVIOUS
<1>1. Capacity(Slots) \in Nat
  BY SemAssumption DEF Capacity
<1>2. TypeOK
  BY <1>1 DEF Init, TypeOK, NewPrioritySem, Semaphores, Phases
<1>3. sem.high = <<>> /\ sem.low = <<>>
  BY DEF Init, NewPrioritySem
<1>4. QueuesSound
  BY <1>3 DEF QueuesSound, IsInjective, Contains
<1>5. Owners = {}
  BY DEF Init, Owners, Owns
<1>6. SlotLedger
  BY <1>1, <1>5, FS_EmptySet DEF Init, NewPrioritySem, SlotLedger
<1>. QED  BY <1>2, <1>4, <1>6 DEF IInv

\* AcquireFast: one free slot becomes one owner.
LEMMA AcquireFastIInv ==
    ASSUME IInv, NEW c \in Callers, AcquireFast(c)
    PROVE  /\ IInv'
           /\ sem'.high = sem.high
           /\ c \notin Owners /\ Owners' = Owners \cup {c}
<1>1. /\ sem' \in Semaphores(Callers)
      /\ sem'.high = sem.high /\ sem'.low = sem.low
      /\ sem'.avail + sem'.reserved = sem.avail + sem.reserved - 1
  <2>1. sem.avail \in Nat /\ sem.reserved \in Nat /\ sem \in Semaphores(Callers)
    BY DEF IInv, TypeOK, Semaphores
  <2>2. CASE IsUser(c) /\ sem.reserved > 0
    <3>1. sem.reserved - 1 \in Nat
      BY <2>1, <2>2
    <3>. QED  BY <2>1, <2>2, <3>1 DEF AcquireFast, Take, Semaphores
  <2>3. CASE ~(IsUser(c) /\ sem.reserved > 0)
    <3>1. sem.avail - 1 \in Nat
      BY <2>1, <2>3 DEF AcquireFast, Admits
    <3>. QED  BY <2>1, <2>3, <3>1 DEF AcquireFast, Take, Semaphores
  <2>. QED  BY <2>2, <2>3
<1>2. /\ \A x \in Callers : x # c => pc'[x] = pc[x]
      /\ pc'[c] = "hold" /\ pc[c] \in {"idle", "tool"}
      /\ pc' \in [Callers -> Phases]
  BY DEF AcquireFast, Goto, IInv, TypeOK, Phases
<1>3. TypeOK'
  BY <1>1, <1>2 DEF AcquireFast, IInv, TypeOK
<1>4. QueuesSound'
  BY <1>1, <1>2 DEF IInv, QueuesSound
<1>5. c \notin Owners
  BY <1>2 DEF Owners, Owns
<1>6. Owners' = Owners \cup {c}
  BY <1>1, <1>2 DEF Owners, Owns, Queued
<1>7. Cardinality(Owners') = Cardinality(Owners) + 1 /\ Cardinality(Owners) \in Nat
  BY <1>5, <1>6, OwnersFinite, FS_AddElement, FS_CardinalityType
<1>8. SlotLedger'
  <2>1. /\ sem.avail \in Nat /\ sem.reserved \in Nat
        /\ sem'.avail \in Nat /\ sem'.reserved \in Nat
    BY <1>1 DEF IInv, TypeOK, Semaphores
  <2>. QED  BY <2>1, <1>1, <1>7 DEF AcquireFast, IInv, SlotLedger
<1>. QED  BY <1>1, <1>3, <1>4, <1>5, <1>6, <1>8 DEF IInv

\* AcquireSlow: the caller joins one queue and owns nothing.
LEMMA AcquireSlowIInv ==
    ASSUME IInv, NEW c \in Callers, AcquireSlow(c)
    PROVE  IInv' /\ Owners' = Owners
<1>1. /\ \A x \in Callers : x # c => pc'[x] = pc[x]
      /\ pc'[c] \in {"wait", "rewait"} /\ pc[c] \in {"idle", "tool"}
      /\ pc' \in [Callers -> Phases]
  BY DEF AcquireSlow, Goto, IInv, TypeOK, Phases
<1>2. ~Contains(sem.high, c) /\ ~Contains(sem.low, c)
  BY <1>1 DEF IInv, QueuesSound
<1>3. /\ sem.high \in Seq(Callers) /\ sem.low \in Seq(Callers)
      /\ sem \in Semaphores(Callers)
      /\ IsInjective(sem.high) /\ IsInjective(sem.low)
  BY DEF IInv, TypeOK, QueuesSound, Semaphores
<1>4. /\ sem' \in Semaphores(Callers)
      /\ sem'.avail = sem.avail /\ sem'.reserved = sem.reserved
      /\ IsInjective(sem'.high) /\ IsInjective(sem'.low)
      /\ \A x : Contains(sem'.high, x) <=>
                  Contains(sem.high, x) \/ (IsUser(c) /\ x = c)
      /\ \A x : Contains(sem'.low, x) <=>
                  Contains(sem.low, x) \/ (~IsUser(c) /\ x = c)
  <2>1. CASE IsUser(c)
    <3>1. /\ Append(sem.high, c) \in Seq(Callers)
          /\ IsInjective(Append(sem.high, c))
          /\ \A x : Contains(Append(sem.high, c), x) <=> Contains(sem.high, x) \/ x = c
      BY <1>2, <1>3, AppendToQueue
    <3>2. sem' = [sem EXCEPT !.high = Append(@, c)]
      BY <2>1 DEF AcquireSlow, Enqueue
    <3>. QED  BY <2>1, <3>1, <3>2, <1>3 DEF Semaphores
  <2>2. CASE ~IsUser(c)
    <3>1. /\ Append(sem.low, c) \in Seq(Callers)
          /\ IsInjective(Append(sem.low, c))
          /\ \A x : Contains(Append(sem.low, c), x) <=> Contains(sem.low, x) \/ x = c
      BY <1>2, <1>3, AppendToQueue
    <3>2. sem' = [sem EXCEPT !.low = Append(@, c)]
      BY <2>2 DEF AcquireSlow, Enqueue
    <3>. QED  BY <2>2, <3>1, <3>2, <1>3 DEF Semaphores
  <2>. QED  BY <2>1, <2>2
<1>5. TypeOK'
  BY <1>1, <1>4 DEF AcquireSlow, IInv, TypeOK
<1>6. QueuesSound'
  BY <1>1, <1>4 DEF IInv, QueuesSound, IsUser, Callers
<1>7. Owners' = Owners
  BY <1>1, <1>4 DEF Owners, Owns, Queued
<1>8. SlotLedger'
  BY <1>4, <1>7 DEF AcquireSlow, IInv, SlotLedger
<1>. QED  BY <1>5, <1>6, <1>7, <1>8 DEF IInv

\* Wake and CancelWoken: the caller already owned its slot and still does.
LEMMA WokenIInv ==
    ASSUME IInv, NEW c \in Callers, Wake(c) \/ CancelWoken(c)
    PROVE  IInv' /\ Owners' = Owners
<1>1. /\ \A x \in Callers : x # c => pc'[x] = pc[x]
      /\ pc'[c] \in {"hold", "giveBack", "reGiveBack"}
      /\ pc[c] \in {"wait", "rewait"} /\ ~Queued(sem, c)
      /\ pc' \in [Callers -> Phases]
      /\ sem' = sem /\ done' = done /\ cancels' = cancels
  BY DEF Wake, CancelWoken, Goto, IInv, TypeOK, Phases
<1>2. TypeOK' /\ QueuesSound'
  BY <1>1 DEF IInv, TypeOK, QueuesSound, Queued
<1>3. Owners' = Owners
  BY <1>1 DEF Owners, Owns
<1>. QED  BY <1>1, <1>2, <1>3 DEF IInv, SlotLedger

\* CancelQueued: the waiter leaves its queue and never owned a slot.
LEMMA CancelQueuedIInv ==
    ASSUME IInv, NEW c \in Callers, CancelQueued(c)
    PROVE  IInv' /\ Owners' = Owners
<1>1. /\ \A x \in Callers : x # c => pc'[x] = pc[x]
      /\ pc'[c] \in {"idle", "cancelRes"} /\ pc[c] \in {"wait", "rewait"}
      /\ pc' \in [Callers -> Phases]
      /\ done' \in SUBSET Callers
  BY DEF CancelQueued, Goto, IInv, TypeOK, Phases
<1>2. IF IsUser(c) THEN Contains(sem.high, c) /\ ~Contains(sem.low, c)
                   ELSE Contains(sem.low, c) /\ ~Contains(sem.high, c)
  BY SemAssumption DEF CancelQueued, Queued, IInv, QueuesSound, IsUser
<1>3. /\ sem.high \in Seq(Callers) /\ sem.low \in Seq(Callers)
      /\ sem \in Semaphores(Callers)
      /\ IsInjective(sem.high) /\ IsInjective(sem.low)
  BY DEF IInv, TypeOK, QueuesSound, Semaphores
<1>4. /\ sem' \in Semaphores(Callers)
      /\ sem'.avail = sem.avail /\ sem'.reserved = sem.reserved
      /\ IsInjective(sem'.high) /\ IsInjective(sem'.low)
      /\ \A x : Contains(sem'.high, x) <=> Contains(sem.high, x) /\ x # c
      /\ \A x : Contains(sem'.low, x) <=> Contains(sem.low, x) /\ x # c
  <2>1. CASE IsUser(c)
    <3>1. /\ RemoveFirst(sem.high, c) \in Seq(Callers)
          /\ IsInjective(RemoveFirst(sem.high, c))
          /\ \A x : Contains(RemoveFirst(sem.high, c), x)
                      <=> Contains(sem.high, x) /\ x # c
      BY <1>2, <1>3, <2>1, RemoveFromQueue
    <3>2. sem' = [sem EXCEPT !.high = RemoveFirst(@, c)]
      BY <2>1 DEF CancelQueued, RemoveWaiter
    <3>. QED  BY <2>1, <3>1, <3>2, <1>2, <1>3 DEF Semaphores
  <2>2. CASE ~IsUser(c)
    <3>1. /\ RemoveFirst(sem.low, c) \in Seq(Callers)
          /\ IsInjective(RemoveFirst(sem.low, c))
          /\ \A x : Contains(RemoveFirst(sem.low, c), x)
                      <=> Contains(sem.low, x) /\ x # c
      BY <1>2, <1>3, <2>2, RemoveFromQueue
    <3>2. sem' = [sem EXCEPT !.low = RemoveFirst(@, c)]
      BY <2>2 DEF CancelQueued, RemoveWaiter
    <3>. QED  BY <2>2, <3>1, <3>2, <1>2, <1>3 DEF Semaphores
  <2>. QED  BY <2>1, <2>2
<1>5. TypeOK'
  BY <1>1, <1>4 DEF CancelQueued, IInv, TypeOK
<1>6. QueuesSound'
  BY <1>1, <1>4 DEF IInv, QueuesSound
<1>7. Owners' = Owners
  BY <1>1, <1>4 DEF CancelQueued, Owners, Owns, Queued
<1>8. SlotLedger'
  BY <1>4, <1>7 DEF CancelQueued, IInv, SlotLedger
<1>. QED  BY <1>5, <1>6, <1>7, <1>8 DEF IInv

\* ReacquireFailed: the caller owns nothing; a reservation that is cancelled
\* creates one slot, and the history counts it.
LEMMA ReacquireFailedIInv ==
    ASSUME IInv, NEW c \in Callers, ReacquireFailed(c)
    PROVE  IInv'
<1>1. pc[c] = "cancelRes" /\ Goto(c, "idle") /\ done' \in SUBSET Callers
  BY DEF ReacquireFailed, IInv, TypeOK
<1>2. sem.avail \in Nat /\ sem.reserved \in Nat /\ cancels \in Nat
  BY DEF IInv, TypeOK, Semaphores
<1>3. CASE sem.reserved > 0
  <2>1. Gives(Callers, sem, sem') /\ cancels' = cancels + 1
    BY <1>3, SoundSemaphore, CancelReservationGives DEF ReacquireFailed, IInv
  <2>2. /\ sem' \in Semaphores(Callers) /\ pc' \in [Callers -> Phases]
        /\ QueuesSound'
        /\ sem'.avail + sem'.reserved + Cardinality(Owners')
             = sem.avail + sem.reserved + 1 + Cardinality(Owners \ {c})
    BY <1>1, <2>1, GiveStep DEF IInv
  <2>3. Owners \ {c} = Owners
    BY <1>1 DEF Owners, Owns
  <2>4. Cardinality(Owners) \in Nat /\ Capacity(Slots) \in Int
    BY OwnersFinite, FS_CardinalityType, SemAssumption DEF Capacity
  <2>5. SlotLedger'
    BY <1>2, <2>1, <2>2, <2>3, <2>4 DEF IInv, SlotLedger
  <2>. QED
    BY <1>1, <1>2, <2>1, <2>2, <2>5 DEF IInv, TypeOK
<1>4. CASE ~(sem.reserved > 0)
  <2>1. sem' = sem /\ cancels' = cancels
    BY <1>2, <1>4 DEF ReacquireFailed, CancelReservation
  <2>2. /\ \A x \in Callers : x # c => pc'[x] = pc[x]
        /\ pc'[c] = "idle" /\ pc' \in [Callers -> Phases]
    BY <1>1 DEF Goto, IInv, TypeOK, Phases
  <2>3. TypeOK' /\ QueuesSound'
    BY <1>1, <2>1, <2>2 DEF IInv, TypeOK, QueuesSound
  <2>4. Owners' = Owners
    BY <1>1, <2>1, <2>2 DEF Owners, Owns
  <2>. QED  BY <2>1, <2>3, <2>4 DEF IInv, SlotLedger
<1>. QED  BY <1>3, <1>4

\* Every critical section and every wakeup keeps it.
LEMMA NextIInv == IInv /\ [Next]_vars => IInv'
<1>. SUFFICES ASSUME IInv, [Next]_vars PROVE IInv'
  OBVIOUS
<1>0. SemOK(Callers, sem)
  BY SoundSemaphore DEF IInv
<1>1. ASSUME NEW c \in Callers, AcquireFast(c) PROVE IInv'
  BY <1>1, AcquireFastIInv
<1>2. ASSUME NEW c \in Callers, AcquireSlow(c) PROVE IInv'
  BY <1>2, AcquireSlowIInv
<1>3. ASSUME NEW c \in Callers, Wake(c) \/ CancelWoken(c) PROVE IInv'
  BY <1>3, WokenIInv
<1>4. ASSUME NEW c \in Callers, CancelQueued(c) PROVE IInv'
  BY <1>4, CancelQueuedIInv
<1>5. ASSUME NEW c \in Callers, GiveBack(c) PROVE IInv'
  <2>1. Gives(Callers, sem, sem')
    BY <1>0, <1>5, ReleaseGives DEF GiveBack
  <2>2. /\ pc[c] \in {"hold", "giveBack", "reGiveBack"}
        /\ cancels' = cancels /\ done' \in SUBSET Callers
        /\ Goto(c, "idle") \/ Goto(c, "cancelRes")
    BY <1>5 DEF GiveBack, IInv, TypeOK
  <2>. QED  BY <2>1, <2>2, ReturnStep
<1>6. ASSUME NEW c \in Callers, ReacquireFailed(c) PROVE IInv'
  BY <1>6, ReacquireFailedIInv
<1>7. ASSUME NEW c \in Callers, OnToolStart(c) PROVE IInv'
  <2>1. Gives(Callers, sem, sem')
    BY <1>0, <1>7, ReleaseGives, ReleaseReservedGives DEF OnToolStart
  <2>2. /\ pc[c] \in {"hold", "giveBack", "reGiveBack"} /\ Goto(c, "tool")
        /\ cancels' = cancels /\ done' \in SUBSET Callers
    BY <1>7 DEF OnToolStart, IInv, TypeOK
  <2>. QED  BY <2>1, <2>2, ReturnStep
<1>8. ASSUME NEW c \in Callers, Finish(c) PROVE IInv'
  <2>1. Gives(Callers, sem, sem')
    BY <1>0, <1>8, ReleaseGives DEF Finish
  <2>2. /\ pc[c] \in {"hold", "giveBack", "reGiveBack"} /\ Goto(c, "idle")
        /\ cancels' = cancels /\ done' \in SUBSET Callers
    BY <1>8 DEF Finish, IInv, TypeOK
  <2>. QED  BY <2>1, <2>2, ReturnStep
<1>9. ASSUME NEW c \in Callers, CtxDone(c) PROVE IInv'
  BY <1>9 DEF CtxDone, IInv, TypeOK, QueuesSound, SlotLedger, Owners, Owns
<1>10. CASE UNCHANGED vars
  BY <1>10 DEF vars, IInv, TypeOK, QueuesSound, SlotLedger, Owners, Owns
<1>. QED
  BY <1>1, <1>2, <1>3, <1>4, <1>5, <1>6, <1>7, <1>8, <1>9, <1>10 DEF Next

\* The inductive invariant holds in every reachable state.
THEOREM SemInvariant == Spec => []IInv
<1>1. Init => IInv
  BY InitIInv
<1>2. IInv /\ [Next]_vars => IInv'
  BY NextIInv
<1>. QED  BY <1>1, <1>2, PTL DEF Spec

\* The type invariant, in particular: avail and reserved never go negative.
THEOREM TypeCorrect == Spec => []TypeOK
<1>1. IInv => TypeOK
  BY DEF IInv
<1>. QED  BY <1>1, SemInvariant, PTL

\* Each waiter is queued once, in the queue of its priority.
THEOREM QueuesAreSound == Spec => []QueuesSound
<1>1. IInv => QueuesSound
  BY DEF IInv
<1>. QED  BY <1>1, SemInvariant, PTL

\* Slots are conserved except by CancelReservation, which creates one.
THEOREM LedgerBalances == Spec => []SlotLedger
<1>1. IInv => SlotLedger
  BY DEF IInv
<1>. QED  BY <1>1, SemInvariant, PTL
-----------------------------------------------------------------------------
\* A user never sleeps in Acquire while a slot is free or reserved: the fast
\* path, the two ways to return a slot and a cancelled reservation keep it.
THEOREM UserNeverWaitsForFreeSlot == Spec => []NoUserWaitsForFreeSlot
<1>1. Init => NoUserWaitsForFreeSlot
  BY DEF Init, NewPrioritySem, NoUserWaitsForFreeSlot
<1>2. TypeOK /\ NoUserWaitsForFreeSlot /\ [Next]_vars => NoUserWaitsForFreeSlot'
  <2>. SUFFICES ASSUME TypeOK, NoUserWaitsForFreeSlot, [Next]_vars
                PROVE  NoUserWaitsForFreeSlot'
    OBVIOUS
  <2>1. sem \in Semaphores(Callers) /\ NoneWaits(sem, FALSE)
    BY DEF TypeOK, NoUserWaitsForFreeSlot, NoneWaits
  <2>2. \A c : IsUser(c) \in BOOLEAN
    BY DEF IsUser
  <2>3. ASSUME NEW c \in Callers PROVE
          /\ Admits(sem, IsUser(c)) => NoneWaits(Take(sem, IsUser(c)), FALSE)
          /\ ~Admits(sem, IsUser(c)) => NoneWaits(Enqueue(sem, c, IsUser(c)), FALSE)
          /\ NoneWaits(Release(sem), FALSE) /\ NoneWaits(ReleaseReserved(sem), FALSE)
          /\ NoneWaits(RemoveWaiter(sem, c, IsUser(c)), FALSE)
          /\ NoneWaits(CancelReservation(sem), FALSE)
    <3>. PICK all \in BOOLEAN : all = FALSE
      OBVIOUS
    <3>1. NoneWaits(sem, all) /\ IsUser(c) \in BOOLEAN
      BY <2>1, <2>2
    <3>2. /\ Admits(sem, IsUser(c)) => NoneWaits(Take(sem, IsUser(c)), all)
          /\ ~Admits(sem, IsUser(c)) => NoneWaits(Enqueue(sem, c, IsUser(c)), all)
          /\ NoneWaits(Release(sem), all) /\ NoneWaits(ReleaseReserved(sem), all)
          /\ NoneWaits(RemoveWaiter(sem, c, IsUser(c)), all)
          /\ NoneWaits(CancelReservation(sem), all /\ sem.reserved = 0)
      BY <2>1, <3>1, OperationsServe
    <3>. QED  BY <3>2 DEF NoneWaits
  <2>4. ASSUME NEW c \in Callers,
               \/ AcquireFast(c) \/ AcquireSlow(c) \/ CancelQueued(c) \/ GiveBack(c)
               \/ ReacquireFailed(c) \/ OnToolStart(c) \/ Finish(c)
        PROVE  NoneWaits(sem', FALSE)
    BY <2>3, <2>4 DEF AcquireFast, AcquireSlow, CancelQueued, GiveBack,
                      ReacquireFailed, OnToolStart, Finish
  <2>5. ASSUME NEW c \in Callers, Wake(c) \/ CancelWoken(c) \/ CtxDone(c)
        PROVE  NoneWaits(sem', FALSE)
    BY <2>1, <2>5 DEF Wake, CancelWoken, CtxDone
  <2>6. CASE UNCHANGED vars
    BY <2>6 DEF vars, NoUserWaitsForFreeSlot
  <2>. QED
    BY <2>4, <2>5, <2>6 DEF Next, NoneWaits, NoUserWaitsForFreeSlot
<1>. QED
  BY <1>1, <1>2, TypeCorrect, PTL DEF Spec

\* No step takes a reservation away except a user that takes the slot, and the
\* failed reacquire whose CancelReservation the history counts.
THEOREM ReservationsKept == Spec => ReservationKept
<1>. DEFINE Kept == sem'.reserved < sem.reserved =>
        \/ cancels' = cancels + 1
        \/ \E u \in Users : ~Owns(u) /\ Owns(u)'
<1>1. IInv /\ [Next]_vars => [Kept]_vars
  <2>. SUFFICES ASSUME IInv, Next, sem'.reserved < sem.reserved
                PROVE  \/ cancels' = cancels + 1
                       \/ \E u \in Users : ~Owns(u) /\ Owns(u)'
    OBVIOUS
  <2>0. /\ sem \in Semaphores(Callers)
        /\ sem.avail \in Nat /\ sem.reserved \in Nat
    BY DEF IInv, TypeOK, Semaphores
  <2>1. ASSUME NEW c \in Callers, AcquireFast(c)
        PROVE  \E u \in Users : ~Owns(u) /\ Owns(u)'
    <3>1. c \in Users
      BY <2>0, <2>1 DEF AcquireFast, Take, IsUser, Semaphores
    <3>2. ~Owns(c) /\ Owns(c)'
      BY <2>1 DEF AcquireFast, Goto, Owns, IInv, TypeOK
    <3>. QED  BY <3>1, <3>2
  <2>2. ASSUME NEW c \in Callers, ReacquireFailed(c) PROVE cancels' = cancels + 1
    BY <2>0, <2>2 DEF ReacquireFailed, CancelReservation
  <2>3. ASSUME NEW c \in Callers,
               \/ AcquireSlow(c) \/ Wake(c) \/ CancelQueued(c) \/ CancelWoken(c)
               \/ GiveBack(c) \/ OnToolStart(c) \/ Finish(c) \/ CtxDone(c)
        PROVE  FALSE
    <3>1. \/ sem' = sem \/ sem' = Release(sem) \/ sem' = ReleaseReserved(sem)
          \/ sem' = Enqueue(sem, c, IsUser(c)) \/ sem' = RemoveWaiter(sem, c, IsUser(c))
      BY <2>3 DEF AcquireSlow, Wake, CancelQueued, CancelWoken, GiveBack,
                  OnToolStart, Finish, CtxDone
    <3>. QED
      BY <2>0, <3>1 DEF Release, Dispatch, ReleaseReserved, Enqueue, RemoveWaiter,
                        Semaphores
  <2>. QED  BY <2>1, <2>2, <2>3 DEF Next
<1>. QED  BY <1>1, SemInvariant, PTL DEF Spec, ReservationKept

\* No call that reacquires has a context that ends, so none fails to reacquire
\* and no reservation is cancelled.
Undisturbed ==
    /\ cancels = 0
    /\ done \cap Orchestrators = {}
    /\ \A c \in Callers :
          /\ pc[c] \notin {"reGiveBack", "cancelRes"}
          /\ pc[c] \in {"tool", "rewait"} => c \in Orchestrators

\* Without cancelled orchestrators no reservation is cancelled.
LEMMA UndisturbedInvariant ==
    ASSUME Cancellable \cap Orchestrators = {} PROVE Spec => []Undisturbed
<1>1. Init => Undisturbed
  BY DEF Init, Undisturbed
<1>2. TypeOK /\ Undisturbed /\ [Next]_vars => Undisturbed'
  <2>. SUFFICES ASSUME TypeOK, Undisturbed, [Next]_vars PROVE Undisturbed'
    OBVIOUS
  <2>1. ASSUME NEW c \in Callers,
               \/ AcquireFast(c) \/ AcquireSlow(c) \/ Wake(c)
               \/ CancelWoken(c) \/ OnToolStart(c) \/ Finish(c)
        PROVE  Undisturbed'
    BY <2>1 DEF AcquireFast, AcquireSlow, Wake, CancelWoken, OnToolStart,
                Finish, Goto, TypeOK, Undisturbed
  <2>2. ASSUME NEW c \in Callers, CancelQueued(c) \/ GiveBack(c)
        PROVE  Undisturbed'
    <3>1. pc[c] \in {"wait", "giveBack"}
      BY <2>2 DEF CancelQueued, GiveBack, Undisturbed
    <3>. QED
      BY <2>2, <3>1 DEF CancelQueued, GiveBack, Goto, TypeOK, Undisturbed
  <2>3. ASSUME NEW c \in Callers, ReacquireFailed(c) PROVE FALSE
    BY <2>3 DEF ReacquireFailed, Undisturbed
  <2>4. ASSUME NEW c \in Callers, CtxDone(c) PROVE Undisturbed'
    BY <2>4 DEF CtxDone, Undisturbed
  <2>5. CASE UNCHANGED vars
    BY <2>5 DEF vars, Undisturbed
  <2>. QED  BY <2>1, <2>2, <2>3, <2>4, <2>5 DEF Next
<1>. QED  BY <1>1, <1>2, TypeCorrect, PTL DEF Spec

\* As long as only calls that never reacquire are cancelled (the clients, the
\* background jobs), the backend never serves more calls than it has slots.
THEOREM SlotBoundUncancelled ==
    ASSUME Cancellable \cap Orchestrators = {} PROVE Spec => []SlotBound
<1>1. TypeOK /\ SlotLedger /\ Undisturbed => SlotBound
  <2>. SUFFICES ASSUME TypeOK, SlotLedger, Undisturbed PROVE SlotBound
    OBVIOUS
  <2>1. Cardinality(Owners) \in Nat /\ Capacity(Slots) \in Int
    BY OwnersFinite, FS_CardinalityType, SemAssumption DEF Capacity
  <2>2. sem.avail \in Nat /\ sem.reserved \in Nat
    BY DEF TypeOK, Semaphores
  <2>. QED  BY <2>1, <2>2 DEF SlotLedger, Undisturbed, SlotBound
<1>. QED
  BY <1>1, UndisturbedInvariant, TypeCorrect, LedgerBalances, PTL
-----------------------------------------------------------------------------
(***************************************************************************)
(* PrioritySem implements SlotPool, whichever calls are cancelled.         *)
(***************************************************************************)

\* The two modules mean the same by the operators of the libraries.
LEMMA SameCardinality == \A S : Pool!Cardinality(S) = Cardinality(S)
BY DEF Pool!Cardinality, Cardinality

\* The operators of the pool are those of the semaphore.
LEMMA SameContains == \A s, e : Pool!Contains(s, e) <=> Contains(s, e)
BY DEF Pool!Contains, Contains

\* The operators of the pool are those of the semaphore.
LEMMA SameRemoveFirst == \A s, e : Pool!RemoveFirst(s, e) = RemoveFirst(s, e)
BY DEF Pool!RemoveFirst, RemoveFirst, Pool!RemoveAt, RemoveAt,
       Pool!SelectInSeq, SelectInSeq, Pool!Min, Min

\* What the mapping needs of a reachable state.
PoolInv == IInv /\ NoUserWaitsForFreeSlot
poolVars == <<Capacity(Slots) + cancels, Owners, sem.high>>

\* Free, parked and owned slots are the pool's slots.
LEMMA PoolCount ==
    ASSUME PoolInv
    PROVE  /\ sem.avail \in Nat /\ sem.reserved \in Nat
           /\ Capacity(Slots) + cancels \in Int
           /\ Cardinality(Owners)
                = (Capacity(Slots) + cancels) - (sem.avail + sem.reserved)
           /\ sem.high \in Seq(Callers) /\ sem.low \in Seq(Callers)
<1>1. sem.avail \in Nat /\ sem.reserved \in Nat
      /\ sem.high \in Seq(Callers) /\ sem.low \in Seq(Callers)
  BY DEF PoolInv, IInv, TypeOK, Semaphores
<1>2. Cardinality(Owners) \in Nat /\ Capacity(Slots) \in Int /\ cancels \in Nat
  BY OwnersFinite, FS_CardinalityType, SemAssumption
     DEF Capacity, PoolInv, IInv, TypeOK
<1>. QED  BY <1>1, <1>2 DEF PoolInv, IInv, SlotLedger

\* The fast path of Acquire takes a slot nobody owns.
LEMMA FastIsGrant ==
    ASSUME PoolInv, NEW c \in Callers, AcquireFast(c)
    PROVE  Pool!Grant(c)
<1>1. Owners' = Owners \cup {c} /\ sem'.high = sem.high /\ c \notin Owners
  BY AcquireFastIInv DEF PoolInv
<1>2. sem.avail + sem.reserved > 0
  BY PoolCount DEF AcquireFast, Admits
<1>3. Cardinality(Owners) < Capacity(Slots) + cancels
  BY <1>2, PoolCount
<1>. QED  BY <1>1, <1>3, SameCardinality DEF Pool!Grant, AcquireFast

\* A user takes the slow path only when every slot is owned; a background
\* caller's wait does not show.
LEMMA SlowIsJoin ==
    ASSUME PoolInv, NEW c \in Callers, AcquireSlow(c)
    PROVE  Pool!Join(c) \/ UNCHANGED poolVars
<1>1. Owners' = Owners
  BY AcquireSlowIInv DEF PoolInv
<1>2. CASE IsUser(c)
  <2>1. sem'.high = Append(sem.high, c)
    BY <1>2 DEF AcquireSlow, Enqueue, PoolInv, IInv, TypeOK, Semaphores
  <2>2. sem.avail + sem.reserved = 0
    BY <1>2, PoolCount DEF AcquireSlow, Admits
  <2>3. Cardinality(Owners) = Capacity(Slots) + cancels
    BY <2>2, PoolCount
  <2>4. c \in Users \ Owners
    BY <1>2 DEF AcquireSlow, IsUser, Owners, Owns
  <2>. QED  BY <1>1, <2>1, <2>3, <2>4, SameCardinality DEF Pool!Join, AcquireSlow
<1>3. CASE ~IsUser(c)
  BY <1>1, <1>3 DEF poolVars, AcquireSlow, Enqueue, PoolInv, IInv, TypeOK, Semaphores
<1>. QED  BY <1>2, <1>3

\* A cancelled user leaves the line; a cancelled background caller does not
\* show.
LEMMA CancelIsLeave ==
    ASSUME PoolInv, NEW c \in Callers, CancelQueued(c)
    PROVE  Pool!Leave(c) \/ UNCHANGED poolVars
<1>1. Owners' = Owners
  BY CancelQueuedIInv DEF PoolInv
<1>2. CASE IsUser(c)
  <2>1. sem'.high = RemoveFirst(sem.high, c)
    BY <1>2 DEF CancelQueued, RemoveWaiter, PoolInv, IInv, TypeOK, Semaphores
  <2>2. Contains(sem.high, c)
    BY <1>2, SemAssumption
       DEF CancelQueued, Queued, PoolInv, IInv, QueuesSound, IsUser
  <2>. QED  BY <1>1, <2>1, <2>2, SameContains, SameRemoveFirst
     DEF Pool!Leave, CancelQueued
<1>3. CASE ~IsUser(c)
  BY <1>1, <1>3 DEF poolVars, CancelQueued, RemoveWaiter, PoolInv, IInv, TypeOK, Semaphores
<1>. QED  BY <1>2, <1>3
-----------------------------------------------------------------------------
\* An owner moves on and one waiter's channel is closed: the slot is now that
\* waiter's.
LEMMA SlotChangesHands ==
    ASSUME IInv, NEW c \in Callers, pc[c] \in {"hold", "giveBack", "reGiveBack"},
           NEW p \in {"idle", "tool", "cancelRes"}, Goto(c, p),
           NEW w \in Callers, Queued(sem, w),
           \A x : Queued(sem', x) <=> Queued(sem, x) /\ x # w
    PROVE  w \notin Owners /\ Owners' = (Owners \ {c}) \cup {w}
<1>1. /\ \A x \in Callers : x # c => pc'[x] = pc[x]
      /\ pc'[c] = p
  BY DEF Goto, IInv, TypeOK
<1>2. w # c /\ pc[w] \in {"wait", "rewait"}
  BY DEF IInv, QueuesSound, Queued
<1>. QED  BY <1>1, <1>2 DEF Owners, Owns

\* An owner moves on and no channel is closed.
LEMMA SlotIsFreed ==
    ASSUME IInv, NEW c \in Callers, pc[c] \in {"hold", "giveBack", "reGiveBack"},
           NEW p \in {"idle", "tool", "cancelRes"}, Goto(c, p),
           \A x : Queued(sem', x) <=> Queued(sem, x)
    PROVE  Owners' = Owners \ {c}
<1>1. /\ \A x \in Callers : x # c => pc'[x] = pc[x]
      /\ pc'[c] = p
  BY DEF Goto, IInv, TypeOK
<1>. QED  BY <1>1 DEF Owners, Owns

\* Release and ReleaseReserved: the slot goes to the head of the line, else
\* (Release) to a background caller, else to the pool.
LEMMA GiveIsPassOrReturn ==
    ASSUME PoolInv, NEW c \in Callers, pc[c] \in {"hold", "giveBack", "reGiveBack"},
           NEW p \in {"idle", "tool", "cancelRes"}, Goto(c, p),
           sem' = Release(sem) \/ sem' = ReleaseReserved(sem),
           cancels' = cancels
    PROVE  Pool!Next
<1>0. /\ IInv /\ c \in Owners /\ SemOK(Callers, sem)
      /\ sem \in Semaphores(Callers)
      /\ sem.high \in Seq(Callers) /\ sem.low \in Seq(Callers)
      /\ IsInjective(sem.high) /\ IsInjective(sem.low)
  BY SoundSemaphore DEF PoolInv, IInv, TypeOK, Semaphores, Owners, Owns, QueuesSound
<1>1. CASE sem.high # <<>>
  <2>1. sem' = [sem EXCEPT !.high = Tail(@)]
    BY <1>1 DEF Release, Dispatch, ReleaseReserved
  <2>2. sem'.high = Tail(sem.high) /\ sem'.low = sem.low
    BY <1>0, <2>1 DEF Semaphores
  <2>3. /\ Head(sem.high) \in Callers /\ Contains(sem.high, Head(sem.high))
        /\ \A x : Contains(Tail(sem.high), x)
                    <=> Contains(sem.high, x) /\ x # Head(sem.high)
    BY <1>0, <1>1, TailOfQueue
  <2>4. /\ Queued(sem, Head(sem.high))
        /\ \A x : Queued(sem', x) <=> Queued(sem, x) /\ x # Head(sem.high)
    BY <1>0, <2>2, <2>3 DEF Queued, SemOK
  <2>5. Owners' = (Owners \ {c}) \cup {Head(sem.high)}
    BY <1>0, <2>3, <2>4, SlotChangesHands
  <2>6. Pool!PassToFirst(c)
    BY <1>0, <1>1, <2>2, <2>5 DEF Pool!PassToFirst
  <2>. QED  BY <2>6 DEF Pool!Next
<1>2. CASE sem.high = <<>> /\ sem.low # <<>> /\ sem' = Release(sem)
  <2>1. sem' = [sem EXCEPT !.low = Tail(@)]
    BY <1>2 DEF Release, Dispatch
  <2>2. sem'.low = Tail(sem.low) /\ sem'.high = sem.high
    BY <1>0, <2>1 DEF Semaphores
  <2>3. /\ Head(sem.low) \in Callers /\ Contains(sem.low, Head(sem.low))
        /\ \A x : Contains(Tail(sem.low), x)
                    <=> Contains(sem.low, x) /\ x # Head(sem.low)
    BY <1>0, <1>2, TailOfQueue
  <2>4. /\ Queued(sem, Head(sem.low))
        /\ \A x : Queued(sem', x) <=> Queued(sem, x) /\ x # Head(sem.low)
    BY <1>0, <2>2, <2>3 DEF Queued, SemOK
  <2>5. /\ Head(sem.low) \notin Owners
        /\ Owners' = (Owners \ {c}) \cup {Head(sem.low)}
    BY <1>0, <2>3, <2>4, SlotChangesHands
  <2>6. Head(sem.low) \notin Users
    BY <2>3, SemAssumption DEF PoolInv, IInv, QueuesSound
  <2>7. Pool!PassToOther(c, Head(sem.low))
    BY <1>0, <1>2, <2>2, <2>3, <2>5, <2>6 DEF Pool!PassToOther
  <2>. QED  BY <2>3, <2>7 DEF Pool!Next
<1>3. CASE sem.high = <<>> /\ ~(sem.low # <<>> /\ sem' = Release(sem))
  <2>1. sem'.high = sem.high /\ sem'.low = sem.low
    BY <1>0, <1>3 DEF Release, Dispatch, ReleaseReserved, Semaphores
  <2>2. \A x : Queued(sem', x) <=> Queued(sem, x)
    BY <2>1 DEF Queued
  <2>3. Owners' = Owners \ {c}
    BY <1>0, <2>2, SlotIsFreed
  <2>4. Pool!Return(c)
    BY <1>0, <1>3, <2>1, <2>3 DEF Pool!Return
  <2>. QED  BY <2>4 DEF Pool!Next
<1>. QED  BY <1>1, <1>2, <1>3

\* A failed reacquire that cancels a reservation: no user is in line, since a
\* slot was parked, and the slot too many is free or a background caller's.
LEMMA CancelIsGrow ==
    ASSUME PoolInv, NEW c \in Callers, ReacquireFailed(c)
    PROVE  Pool!Grow \/ UNCHANGED poolVars
<1>0. /\ sem \in Semaphores(Callers) /\ sem.reserved \in Nat /\ sem.avail \in Nat
      /\ sem.high \in Seq(Callers) /\ sem.low \in Seq(Callers)
      /\ IsInjective(sem.low) /\ SemOK(Callers, sem) /\ cancels \in Nat
      /\ Capacity(Slots) \in Int
  BY SoundSemaphore, SemAssumption
     DEF PoolInv, IInv, TypeOK, Semaphores, QueuesSound, Capacity
<1>1. /\ \A x \in Callers : x # c => pc'[x] = pc[x]
      /\ pc[c] = "cancelRes" /\ pc'[c] = "idle"
  BY DEF ReacquireFailed, Goto, PoolInv, IInv, TypeOK
<1>2. CASE sem.reserved > 0
  <2>1. sem.high = <<>> /\ cancels' = cancels + 1
    BY <1>0, <1>2 DEF PoolInv, NoUserWaitsForFreeSlot, ReacquireFailed
  <2>2. CASE sem.low = <<>>
    <3>1. sem'.high = sem.high /\ sem'.low = sem.low
      BY <1>0, <1>2, <2>1, <2>2
         DEF ReacquireFailed, CancelReservation, Dispatch, Semaphores
    <3>2. Owners' = Owners
      BY <1>1, <3>1 DEF Owners, Owns, Queued
    <3>. QED  BY <1>0, <2>1, <3>1, <3>2 DEF Pool!Grow
  <2>3. CASE sem.low # <<>>
    <3>. DEFINE w == Head(sem.low)
    <3>1. sem'.high = sem.high /\ sem'.low = Tail(sem.low)
      BY <1>0, <1>2, <2>1, <2>3
         DEF ReacquireFailed, CancelReservation, Dispatch, Semaphores
    <3>2. /\ w \in Callers /\ Contains(sem.low, w)
          /\ \A x : Contains(Tail(sem.low), x) <=> Contains(sem.low, x) /\ x # w
      BY <1>0, <2>3, TailOfQueue
    <3>. HIDE DEF w
    <3>3. w \notin Users /\ pc[w] \in {"wait", "rewait"}
      BY <3>2, SemAssumption DEF PoolInv, IInv, QueuesSound
    <3>4. /\ Queued(sem, w)
          /\ \A x : Queued(sem', x) <=> Queued(sem, x) /\ x # w
      BY <1>0, <3>1, <3>2 DEF Queued, SemOK
    <3>5. w \notin Owners /\ Owners' = Owners \cup {w}
      BY <1>1, <3>2, <3>3, <3>4 DEF Owners, Owns
    <3>. QED  BY <1>0, <2>1, <3>1, <3>2, <3>3, <3>5 DEF Pool!Grow
  <2>. QED  BY <2>2, <2>3
<1>3. CASE ~(sem.reserved > 0)
  <2>1. sem' = sem /\ cancels' = cancels
    BY <1>0, <1>3 DEF ReacquireFailed, CancelReservation
  <2>. QED  BY <1>1, <2>1 DEF poolVars, Owners, Owns
<1>. QED  BY <1>2, <1>3
-----------------------------------------------------------------------------
\* A new semaphore is a new pool.
LEMMA PoolInit == Init => Pool!Init
<1>1. Capacity(Slots) \in Int
  BY SemAssumption DEF Capacity
<1>. QED  BY <1>1 DEF Init, NewPrioritySem, Owners, Owns, Pool!Init

\* Every step of the semaphore is one of the pool, or does not show.
LEMMA PoolStep == PoolInv /\ [Next]_vars => [Pool!Next]_poolVars
<1>. SUFFICES ASSUME PoolInv, [Next]_vars
              PROVE  Pool!Next \/ UNCHANGED poolVars
  OBVIOUS
<1>1. ASSUME NEW c \in Callers, AcquireFast(c)
      PROVE  Pool!Next
  BY <1>1, FastIsGrant DEF Pool!Next
<1>2. ASSUME NEW c \in Callers, AcquireSlow(c)
      PROVE  Pool!Next \/ UNCHANGED poolVars
  BY <1>2, SlowIsJoin DEF Pool!Next
<1>3. ASSUME NEW c \in Callers, Wake(c) \/ CancelWoken(c)
      PROVE  UNCHANGED poolVars
  BY <1>3, WokenIInv DEF PoolInv, Wake, CancelWoken, poolVars
<1>4. ASSUME NEW c \in Callers, CancelQueued(c)
      PROVE  Pool!Next \/ UNCHANGED poolVars
  BY <1>4, CancelIsLeave DEF Pool!Next
<1>5. ASSUME NEW c \in Callers, GiveBack(c) \/ OnToolStart(c) \/ Finish(c)
      PROVE  Pool!Next
  <2>1. /\ pc[c] \in {"hold", "giveBack", "reGiveBack"}
        /\ sem' = Release(sem) \/ sem' = ReleaseReserved(sem)
        /\ Goto(c, "idle") \/ Goto(c, "tool") \/ Goto(c, "cancelRes")
        /\ cancels' = cancels
    BY <1>5 DEF GiveBack, OnToolStart, Finish
  <2>. QED  BY <2>1, GiveIsPassOrReturn
<1>6. ASSUME NEW c \in Callers, ReacquireFailed(c)
      PROVE  Pool!Next \/ UNCHANGED poolVars
  BY <1>6, CancelIsGrow DEF Pool!Next
<1>7. ASSUME NEW c \in Callers, CtxDone(c)
      PROVE  UNCHANGED poolVars
  BY <1>7 DEF CtxDone, Owners, Owns, poolVars
<1>8. CASE UNCHANGED vars
  BY <1>8 DEF vars, Owners, Owns, poolVars
<1>. QED  BY <1>1, <1>2, <1>3, <1>4, <1>5, <1>6, <1>7, <1>8 DEF Next

\* The semaphore of priority_sem.go, with its reservations and its two queues,
\* implements the FIFO pool of slots that SlotPool describes to its users; a
\* cancelled reservation is the one thing that makes the pool grow.
THEOREM SemImplementsPool == Spec => PoolSpec
<1>1. Spec => []PoolInv
  BY SemInvariant, UserNeverWaitsForFreeSlot, PTL DEF PoolInv
<1>2. Init => Pool!Init
  BY PoolInit
<1>3. PoolInv /\ [Next]_vars => [Pool!Next]_poolVars
  BY PoolStep
<1>. QED  BY <1>1, <1>2, <1>3, PTL DEF Spec, PoolSpec, Pool!Spec, poolVars
=============================================================================
