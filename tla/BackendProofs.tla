---------------------------- MODULE BackendProofs ----------------------------
(***************************************************************************)
(* Theorems about the calls on the LLM backends: SlotRouter, for any       *)
(* numbers of slots, loops, jobs and requests and any number of tools and  *)
(* cancellations, and CircuitBreaker, for any number of calls, any         *)
(* threshold and any cap of the open window.                               *)
(***************************************************************************)
EXTENDS SlotRouter, CircuitBreaker, SemOpsProofs

ToolPhases == {"tool", "toolDone", "asking", "served"}

Typed ==
    /\ sem \in [Backends -> Semaphores(Callers)]
    /\ pc \in [Callers -> Phases]
    /\ be \in [Callers -> Backends \cup {"none"}]
    /\ cancels \in [Backends -> Nat]
    /\ done \subseteq Cancellable

\* Where each kind of caller can be, and when its call has a backend.
Placed(c) ==
    /\ c \in Requests =>
          \/ pc[c] = "idle" /\ be[c] = "none"
          \/ pc[c] \in {"asking", "served"} /\ be[c] \in Backends
    /\ pc[c] = "lock" => c \in Loops
    /\ pc[c] \in {"rewait", "asking", "served"} => c \notin Jobs
    /\ pc[c] \in {"idle", "snapshot", "try", "retry", "block", "wait"} => be[c] = "none"
    /\ pc[c] = "rewait" => be[c] # "none"
Places == \A c \in Callers : Placed(c)

\* Mu belongs to a loop between withOrchestratorLock's Lock and its Unlock.
MuHeld ==
    mu # Free => mu \in Loops /\ pc[mu] \in ToolPhases \cup {"think", "rewait"}

\* A slot is parked only for the message loop, and only while its tool runs.
Parked ==
    \A b \in Backends :
        sem[b].reserved # 0 =>
            /\ sem[b].reserved = 1
            /\ \E m \in MessageLoop : be[m] = b /\ pc[m] \in ToolPhases

\* The backend a caller deals with where it is, and what it does there: it
\* holds a slot, or it is in Acquire as a user or as background work.
Uses(c) ==
    IF pc[c] \in {"asking", "served"} THEN Target(c)
    ELSE IF pc[c] = "wait" THEN "brain" ELSE be[c]
Stance(c) ==
    CASE pc[c] \in {"lock", "think", "release", "served"} -> "holds"
      [] pc[c] \in {"tool", "toolDone"} /\ c \in Jobs -> "holds"
      [] pc[c] \in {"wait", "rewait"} /\ IsUser(c) -> "user"
      [] pc[c] \in {"wait", "rewait"} /\ ~IsUser(c) -> "background"
      [] pc[c] = "asking" -> "background"
      [] OTHER -> "none"
At(c, b) == IF Uses(c) = b THEN Stance(c) ELSE "none"
Who(b, r) == {c \in Callers : At(c, b) = r}

\* The books of a backend balance up to the slots CancelReservation created.
Ledger(b) ==
    Books(Callers, sem[b], Who(b, "holds"), Who(b, "user"), Who(b, "background"),
          Size(b) + cancels[b])
Ledgers == \A b \in Backends : Ledger(b)

RInv == Typed /\ Places /\ MuHeld /\ Parked /\ Ledgers
-----------------------------------------------------------------------------
(***************************************************************************)
(* What a step of one caller does to the books of one backend.             *)
(***************************************************************************)
Moves(c) == \A x \in Callers : x # c => pc'[x] = pc[x] /\ be'[x] = be[x]

\* Only the caller that moves changes its place in the books.
LEMMA WhoMoves ==
    ASSUME NEW c \in Callers, Moves(c), NEW b, NEW r
    PROVE  Who(b, r)' = IF At(c, b)' = r THEN Who(b, r) \cup {c} ELSE Who(b, r) \ {c}
<1>1. ASSUME NEW x \in Callers, x # c
      PROVE  At(x, b)' = At(x, b)
  BY <1>1 DEF Moves, At, Uses, Stance, Target
<1>. QED  BY <1>1 DEF Who

\* A caller whose place does not change leaves the books as they are.
LEMMA LedgerSame ==
    ASSUME NEW c \in Callers, Moves(c), NEW b, Ledger(b), At(c, b)' = At(c, b),
           sem'[b] = sem[b], cancels'[b] = cancels[b]
    PROVE  Ledger(b)'
<1>1. \A r : Who(b, r)' = Who(b, r)
  BY WhoMoves DEF Who
<1>. QED  BY <1>1 DEF Ledger, Size

\* A caller takes a free slot.
LEMMA LedgerTake ==
    ASSUME NEW c \in Callers, Moves(c), NEW b, Ledger(b),
           At(c, b) = "none", At(c, b)' = "holds", NEW user \in BOOLEAN,
           Admits(sem[b], user), sem'[b] = Take(sem[b], user), cancels'[b] = cancels[b]
    PROVE  Ledger(b)'
<1>. DEFINE H == Who(b, "holds")
            U == Who(b, "user")
            L == Who(b, "background")
            n == Size(b) + cancels[b]
<1>1. Who(b, "holds")' = H \cup {c} /\ Who(b, "user")' = U /\ Who(b, "background")' = L
  BY WhoMoves DEF Who
<1>2. c \notin H \cup U \cup L
  BY DEF Who
<1>3. Books(Callers, sem[b], H, U, L, n)
  BY DEF Ledger
<1>. HIDE DEF H, U, L, n
<1>4. Books(Callers, Take(sem[b], user), H \cup {c}, U, L, n)
  BY <1>2, <1>3, BooksTake
<1>5. (Size(b) + cancels[b])' = n
  BY DEF n, Size
<1>. QED  BY <1>1, <1>4, <1>5 DEF Ledger

\* A caller is not admitted and joins the queue of its priority.
LEMMA LedgerJoin ==
    ASSUME NEW c \in Callers, Moves(c), NEW b, Ledger(b), NEW user \in BOOLEAN,
           At(c, b) = "none", At(c, b)' = (IF user THEN "user" ELSE "background"),
           sem'[b] = Enqueue(sem[b], c, user), cancels'[b] = cancels[b]
    PROVE  Ledger(b)'
<1>. DEFINE H == Who(b, "holds")
            U == Who(b, "user")
            L == Who(b, "background")
            n == Size(b) + cancels[b]
<1>1. /\ Who(b, "holds")' = H
      /\ Who(b, "user")' = IF user THEN U \cup {c} ELSE U
      /\ Who(b, "background")' = IF user THEN L ELSE L \cup {c}
  BY WhoMoves DEF Who
<1>2. c \notin H \cup U \cup L
  BY DEF Who
<1>3. Books(Callers, sem[b], H, U, L, n)
  BY DEF Ledger
<1>4. (Size(b) + cancels[b])' = n
  BY DEF Size
<1>. HIDE DEF H, U, L, n
<1>5. CASE user = TRUE
  <2>1. Books(Callers, Enqueue(sem[b], c, TRUE), H, U \cup {c}, L, n)
    BY <1>2, <1>3, BooksJoinUser
  <2>. QED  BY <1>1, <1>4, <1>5, <2>1 DEF Ledger
<1>6. CASE user = FALSE
  <2>1. Books(Callers, Enqueue(sem[b], c, FALSE), H, U, L \cup {c}, n)
    BY <1>2, <1>3, BooksJoinBackground
  <2>. QED  BY <1>1, <1>4, <1>6, <2>1 DEF Ledger
<1>. QED  BY <1>5, <1>6

Waiting == {"user", "background"}

\* A caller that was served returns from Acquire.
LEMMA LedgerWake ==
    ASSUME NEW c \in Callers, Moves(c), NEW b, Ledger(b),
           At(c, b) \in Waiting, At(c, b)' = "holds", ~Queued(sem[b], c),
           sem'[b] = sem[b], cancels'[b] = cancels[b]
    PROVE  Ledger(b)'
<1>. DEFINE H == Who(b, "holds")
            U == Who(b, "user")
            L == Who(b, "background")
            n == Size(b) + cancels[b]
<1>1. /\ Who(b, "holds")' = H \cup {c}
      /\ Who(b, "user")' = U \ {c} /\ Who(b, "background")' = L \ {c}
  BY WhoMoves
<1>2. c \in U \cup L
  BY DEF Who, Waiting
<1>3. Books(Callers, sem[b], H, U, L, n)
  BY DEF Ledger
<1>4. (Size(b) + cancels[b])' = n
  BY DEF Size
<1>. HIDE DEF H, U, L, n
<1>5. Books(Callers, sem[b], H \cup {c}, U \ {c}, L \ {c}, n)
  BY <1>2, <1>3, BooksWake
<1>. QED  BY <1>1, <1>4, <1>5 DEF Ledger

\* A holder gives its slot back.
LEMMA LedgerGive ==
    ASSUME NEW c \in Callers, Moves(c), NEW b, Ledger(b),
           At(c, b) = "holds", At(c, b)' = "none",
           Gives(Callers, sem[b], sem'[b]), cancels'[b] = cancels[b]
    PROVE  Ledger(b)'
<1>. DEFINE H == Who(b, "holds")
            U == Who(b, "user")
            L == Who(b, "background")
            n == Size(b) + cancels[b]
<1>1. Who(b, "holds")' = H \ {c} /\ Who(b, "user")' = U /\ Who(b, "background")' = L
  BY WhoMoves DEF Who
<1>2. c \in H
  BY DEF Who
<1>3. Books(Callers, sem[b], H, U, L, n)
  BY DEF Ledger
<1>4. (Size(b) + cancels[b])' = n
  BY DEF Size
<1>. HIDE DEF H, U, L, n
<1>5. Books(Callers, sem'[b], H \ {c}, U, L, n)
  BY <1>2, <1>3, BooksGive
<1>. QED  BY <1>1, <1>4, <1>5 DEF Ledger

\* A caller leaves Acquire on a dead context: out of its queue, or with a slot
\* that it gives back.
Abandons(s, c, t) ==
    \/ Queued(s, c) /\ Departs(Callers, s, c, t)
    \/ ~Queued(s, c) /\ Gives(Callers, s, t)

\* The two ways out of the select of Acquire leave the books as Abandons says.
LEMMA AbandonAbandons ==
    ASSUME NEW c \in Callers, NEW b, Ledger(b), At(c, b) \in Waiting, NEW user,
           user => At(c, b) = "user", ~user => At(c, b) = "background"
    PROVE  Abandons(sem[b], c, Abandon(sem[b], c, user))
<1>1. SemOK(Callers, sem[b])
  BY BooksSemOK DEF Ledger
<1>2. CASE Queued(sem[b], c)
  <2>1. /\ Contains(sem[b].high, c) => At(c, b) = "user"
        /\ Contains(sem[b].low, c) => At(c, b) = "background"
    BY DEF Ledger, Books, Who
  <2>2. /\ user => Contains(sem[b].high, c)
        /\ ~user => Contains(sem[b].low, c)
    BY <1>2, <2>1 DEF Queued
  <2>3. Departs(Callers, sem[b], c, RemoveWaiter(sem[b], c, user))
    BY <1>1, <2>2, RemoveWaiterDeparts
  <2>. QED  BY <1>2, <2>3 DEF Abandon, Abandons
<1>3. CASE ~Queued(sem[b], c)
  BY <1>1, <1>3, ReleaseGives DEF Abandon, Abandons
<1>. QED  BY <1>2, <1>3

\* A caller that gives up waiting is no longer counted, whatever it gave back.
LEMMA BooksAbandon ==
    ASSUME NEW c \in Callers, NEW b, Ledger(b), At(c, b) \in Waiting,
           NEW t, Abandons(sem[b], c, t)
    PROVE  Books(Callers, t, Who(b, "holds"),
                 Who(b, "user") \ {c}, Who(b, "background") \ {c}, Size(b) + cancels[b])
<1>. DEFINE H == Who(b, "holds")
            U == Who(b, "user")
            L == Who(b, "background")
            n == Size(b) + cancels[b]
<1>1. c \in U \cup L /\ c \notin H
  BY DEF Who, Waiting
<1>2. Books(Callers, sem[b], H, U, L, n)
  BY DEF Ledger
<1>. SUFFICES Books(Callers, t, H, U \ {c}, L \ {c}, n)
  OBVIOUS
<1>. HIDE DEF H, U, L, n
<1>3. CASE Queued(sem[b], c)
  BY <1>2, <1>3, BooksLeave DEF Abandons
<1>4. CASE ~Queued(sem[b], c)
  <2>1. Books(Callers, sem[b], H \cup {c}, U \ {c}, L \ {c}, n)
    BY <1>1, <1>2, <1>4, BooksWake
  <2>2. Gives(Callers, sem[b], t) /\ c \in H \cup {c}
    BY <1>4 DEF Abandons
  <2>3. Books(Callers, t, (H \cup {c}) \ {c}, U \ {c}, L \ {c}, n)
    BY <2>1, <2>2, BooksGive
  <2>4. (H \cup {c}) \ {c} = H
    BY <1>1
  <2>. QED  BY <2>3, <2>4
<1>. QED  BY <1>3, <1>4

\* So the books of the backend balance when its only change is such a caller.
LEMMA LedgerAbandon ==
    ASSUME NEW c \in Callers, Moves(c), NEW b, Ledger(b),
           At(c, b) \in Waiting, At(c, b)' = "none",
           Abandons(sem[b], c, sem'[b]), cancels'[b] = cancels[b]
    PROVE  Ledger(b)'
<1>1. /\ Who(b, "holds")' = Who(b, "holds")
      /\ Who(b, "user")' = Who(b, "user") \ {c}
      /\ Who(b, "background")' = Who(b, "background") \ {c}
  BY WhoMoves DEF Who, Waiting
<1>2. (Size(b) + cancels[b])' = Size(b) + cancels[b]
  BY DEF Size
<1>. QED  BY <1>1, <1>2, BooksAbandon DEF Ledger
-----------------------------------------------------------------------------
(***************************************************************************)
(* Where a step leaves its caller.                                         *)
(***************************************************************************)
Control == Typed /\ Places /\ MuHeld

\* Every step of a caller is its own: the others stay where they are, on the
\* backend they use; the semaphores stay a function of the backends.
Own(c) ==
    /\ Moves(c) /\ sem' = [b \in Backends |-> sem'[b]]
    /\ pc' \in [Callers -> Phases] /\ be' \in [Callers -> Backends \cup {"none"}]
    /\ cancels' \in [Backends -> Nat] /\ done' \subseteq Cancellable
    /\ Places' /\ MuHeld'

\* A call that begins, ends or locks Mu keeps its place and the mutex in order,
LEMMA ControlStart ==
    ASSUME Control, NEW c \in Callers, Start(c) \/ Snapshot(c) \/ Lock(c) \/ FinishCall(c)
                                       \/ CtxDone(c) \/ Rewake(c)
    PROVE  Own(c)
<1>. USE RouterAssumption DEF Control, Own, Moves, Typed, Places, Placed, MuHeld, Goto,
         Phases, Orchestrators, Callers, Backends, ToolPhases
<1>1. CASE Start(c)
  BY <1>1 DEF Start
<1>2. CASE Snapshot(c)
  BY <1>2 DEF Snapshot
<1>3. CASE Lock(c)
  BY <1>3 DEF Lock
<1>4. CASE FinishCall(c)
  BY <1>4 DEF FinishCall
<1>5. CASE CtxDone(c)
  BY <1>5 DEF CtxDone
<1>6. CASE Rewake(c)
  BY <1>6 DEF Rewake
<1>. QED  BY <1>1, <1>2, <1>3, <1>4, <1>5, <1>6

\* and so do the attempts of AcquireOrFallback and the wait on the Brain,
LEMMA ControlAcquire ==
    ASSUME Control, NEW c \in Callers, TryPreferred(c) \/ TrySecond(c) \/ BlockOnBrain(c)
                                       \/ Wake(c) \/ CancelWait(c)
    PROVE  Own(c)
<1>. USE RouterAssumption DEF Control, Own, Moves, Typed, Places, Placed, MuHeld, Goto,
         Phases, Orchestrators, Callers, Backends, ToolPhases, SetSem, Chosen
<1>1. CASE TryPreferred(c)
  BY <1>1 DEF TryPreferred, Try
<1>2. CASE TrySecond(c)
  BY <1>2 DEF TrySecond, Try
<1>3. CASE BlockOnBrain(c)
  BY <1>3 DEF BlockOnBrain
<1>4. CASE Wake(c)
  BY <1>4 DEF Wake
<1>5. CASE CancelWait(c)
  BY <1>5 DEF CancelWait
<1>. QED  BY <1>1, <1>2, <1>3, <1>4, <1>5

\* the release around a tool call and the way back (Reacquire),
LEMMA ControlTool ==
    ASSUME Control, NEW c \in Callers,
           ToolStart(c) \/ Reacquire(c) \/ CancelRewait(c) \/ ReleaseSlot(c)
    PROVE  Own(c)
<1>. USE RouterAssumption DEF Control, Own, Moves, Typed, Places, Placed, MuHeld, Goto,
         Phases, Orchestrators, Callers, Backends, ToolPhases, SetSem
<1>1. CASE ToolStart(c)
  BY <1>1 DEF ToolStart
<1>2. CASE Reacquire(c)
  BY <1>2 DEF Reacquire
<1>3. CASE CancelRewait(c)
  <2>1. /\ pc[c] = "rewait" /\ pc' = [pc EXCEPT ![c] = "think"]
        /\ be' = [be EXCEPT ![c] = "none"] /\ UNCHANGED <<mu, done>>
    BY <1>3 DEF CancelRewait
  <2>2. sem' = [b \in Backends |-> sem'[b]]
    BY <1>3 DEF CancelRewait
  <2>3. cancels' \in [Backends -> Nat]
    <3>1. cancels' = cancels \/ \E d : cancels' = [cancels EXCEPT ![d] = cancels[d] + 1]
      BY <1>3 DEF CancelRewait
    <3>. QED  BY <3>1
  <2>. QED  BY <2>1, <2>2, <2>3
<1>4. CASE ReleaseSlot(c)
  BY <1>4 DEF ReleaseSlot
<1>. QED  BY <1>1, <1>2, <1>3, <1>4

\* and the requests a tool makes of a client.
LEMMA ControlAsk ==
    ASSUME Control, NEW c \in Callers,
           (\E b \in Backends : Ask(c, b)) \/ AskGranted(c) \/ AskCancelled(c) \/ AskDone(c)
    PROVE  Own(c)
<1>. USE RouterAssumption DEF Control, Own, Moves, Typed, Places, Placed, MuHeld, Goto,
         Phases, Orchestrators, Callers, Backends, ToolPhases, SetSem, AskOver, Target
<1>1. ASSUME NEW b \in Backends, Ask(c, b) PROVE Own(c)
  <2>1. /\ pc' = [pc EXCEPT ![c] = "served"] \/ pc' = [pc EXCEPT ![c] = "asking"]
        /\ sem' = [d \in Backends |-> sem'[d]] /\ UNCHANGED <<mu, done, cancels>>
    BY <1>1 DEF Ask
  <2>2. \/ c \in Requests /\ pc[c] = "idle" /\ be' = [be EXCEPT ![c] = b]
        \/ c \in DeepThinkers /\ pc[c] = "tool" /\ be' = be
    BY <1>1 DEF Ask
  <2>. QED  BY <2>1, <2>2
<1>2. CASE AskGranted(c)
  BY <1>2 DEF AskGranted
<1>3. CASE AskCancelled(c) \/ AskDone(c)
  <2>1. /\ pc' = [pc EXCEPT ![c] = IF c \in Requests THEN "idle" ELSE "toolDone"]
        /\ be' = IF c \in Requests THEN [be EXCEPT ![c] = "none"] ELSE be
        /\ pc[c] \in {"asking", "served"} /\ sem' = [b \in Backends |-> sem'[b]]
        /\ UNCHANGED <<mu, done, cancels>>
    BY <1>3 DEF AskCancelled, AskDone
  <2>. QED  BY <2>1
<1>. QED  BY <1>1, <1>2, <1>3
-----------------------------------------------------------------------------
(***************************************************************************)
(* A slot stays parked exactly while the message loop runs a tool.         *)
(***************************************************************************)

\* A step that parks nothing, and that takes the reservation when the message
\* loop comes back from its tool.
LEMMA ParkedKept ==
    ASSUME Control, Parked, NEW c \in Callers, Own(c),
           \A b \in Backends : Sparing(sem[b], sem'[b]),
           c \in MessageLoop /\ pc[c] \in ToolPhases /\ be[c] \in Backends =>
              \/ pc'[c] \in ToolPhases /\ be'[c] = be[c]
              \/ sem'[be[c]].reserved = 0
    PROVE  Parked'
<1>. SUFFICES ASSUME NEW b \in Backends, sem'[b].reserved # 0
              PROVE  /\ sem'[b].reserved = 1
                     /\ \E m \in MessageLoop : be'[m] = b /\ pc'[m] \in ToolPhases
  BY DEF Parked
<1>1. sem[b].reserved \in Nat /\ sem'[b].reserved \in Nat
      /\ sem'[b].reserved <= sem[b].reserved
  BY DEF Sparing, Control, Typed, Semaphores
<1>2. sem[b].reserved = 1 /\ sem'[b].reserved = 1
  BY <1>1 DEF Parked
<1>3. PICK m \in MessageLoop : be[m] = b /\ pc[m] \in ToolPhases
  BY <1>2 DEF Parked
<1>4. m \in Callers
  BY DEF Callers, Orchestrators
<1>5. CASE m = c
  BY <1>2, <1>3, <1>5
<1>6. CASE m # c
  BY <1>2, <1>3, <1>4, <1>6 DEF Own, Moves
<1>. QED  BY <1>5, <1>6

\* SetSem writes one semaphore.
LEMMA SetOne ==
    ASSUME Typed, NEW b \in Backends, NEW s, SetSem(b, s)
    PROVE  sem'[b] = s /\ \A d \in Backends : d # b => sem'[d] = sem[d]
BY DEF SetSem, Typed

\* Steps that leave the semaphores alone.
LEMMA ParkedQuiet ==
    ASSUME Control, Parked, NEW c \in Callers, Own(c), sem' = sem,
           pc[c] \in ToolPhases =>
              (pc'[c] \in ToolPhases /\ be'[c] = be[c]) \/ be[c] = "none"
    PROVE  Parked'
<1>1. \A b \in Backends : Sparing(sem[b], sem'[b])
  BY OperationsSpare DEF Control, Typed
<1>. QED  BY <1>1, ParkedKept DEF Backends

\* A caller that looks for its first slot parks no reservation,
LEMMA ParkedAcquire ==
    ASSUME Control, Parked, NEW c \in Callers, Own(c),
           TryPreferred(c) \/ TrySecond(c) \/ BlockOnBrain(c) \/ CancelWait(c)
    PROVE  Parked'
<1>1. \A b \in Backends : sem[b] \in Semaphores(Callers)
  BY DEF Control, Typed
<1>2. \/ sem' = sem
      \/ \E b \in Backends : SetSem(b, Take(sem[b], IsUser(c)))
      \/ SetSem("brain", Enqueue(sem["brain"], c, IsUser(c)))
      \/ SetSem("brain", Abandon(sem["brain"], c, IsUser(c)))
  BY DEF TryPreferred, TrySecond, Try, BlockOnBrain, CancelWait, Backends
<1>3. \A b \in Backends : Sparing(sem[b], sem'[b])
  BY <1>1, <1>2, SetOne, OperationsSpare DEF Abandon, Control, Backends
<1>4. pc[c] \notin ToolPhases
  BY DEF TryPreferred, TrySecond, BlockOnBrain, CancelWait, ToolPhases
<1>. QED  BY <1>3, <1>4, ParkedKept

\* and neither does one that asks a client.
LEMMA ParkedAsk ==
    ASSUME Control, Parked, NEW c \in Callers, Own(c),
           (\E b \in Backends : Ask(c, b)) \/ AskCancelled(c) \/ AskDone(c)
    PROVE  Parked'
<1>1. \A b \in Backends : sem[b] \in Semaphores(Callers)
  BY DEF Control, Typed
<1>2. \E b \in Backends : \E s \in {Take(sem[b], FALSE), Enqueue(sem[b], c, FALSE),
                                   Abandon(sem[b], c, FALSE), Release(sem[b])} :
         SetSem(b, s)
  <2>1. CASE \E b \in Backends : Ask(c, b)
    BY <2>1 DEF Ask
  <2>2. CASE AskCancelled(c) \/ AskDone(c)
    <3>1. Target(c) \in Backends
      BY <2>2 DEF AskCancelled, AskDone, Target, Control, Places, Placed, Backends
    <3>. QED  BY <2>2, <3>1 DEF AskCancelled, AskDone
  <2>. QED  BY <2>1, <2>2
<1>3. \A b \in Backends : Sparing(sem[b], sem'[b])
  BY <1>1, <1>2, SetOne, OperationsSpare DEF Abandon, Control, Backends
<1>4. c \in MessageLoop => pc'[c] \in ToolPhases /\ be'[c] = be[c]
  <2>1. c \in MessageLoop => c \notin Requests
    BY RouterAssumption
  <2>2. pc \in [Callers -> Phases] /\ be \in [Callers -> Backends \cup {"none"}]
    BY DEF Control, Typed
  <2>3. CASE \E b \in Backends : Ask(c, b)
    BY <2>1, <2>2, <2>3 DEF Ask, Goto, ToolPhases
  <2>4. CASE AskCancelled(c) \/ AskDone(c)
    BY <2>1, <2>2, <2>4 DEF AskCancelled, AskDone, AskOver, Goto, ToolPhases
  <2>. QED  BY <2>3, <2>4
<1>. QED  BY <1>3, <1>4, ParkedKept

\* A message loop that starts a tool had no slot parked.
LEMMA ParkedToolStart ==
    ASSUME Control, Parked, NEW c \in Callers, Own(c), ToolStart(c)
    PROVE  Parked'
<1>1. /\ \A b \in Backends : sem[b] \in Semaphores(Callers) /\ sem[b].reserved \in Nat
      /\ pc \in [Callers -> Phases]
  BY DEF Control, Typed, Semaphores
<1>2. pc'[c] = "tool" /\ be' = be /\ pc[c] \notin ToolPhases
  BY <1>1 DEF ToolStart, Goto, ToolPhases
<1>3. CASE c \in Jobs \/ be[c] = "none"
  <2>1. sem' = sem
    BY <1>3 DEF ToolStart
  <2>. QED  BY <1>2, <2>1, ParkedQuiet
<1>4. CASE c \notin Jobs /\ be[c] # "none"
  <2>1. be[c] \in Backends
    BY <1>4 DEF Control, Typed
  <2>2. CASE ~IsUser(c)
    <3>1. SetSem(be[c], Release(sem[be[c]]))
      BY <1>4, <2>2 DEF ToolStart
    <3>2. \A b \in Backends : Sparing(sem[b], sem'[b])
      BY <1>1, <2>1, <3>1, SetOne, OperationsSpare DEF Control
    <3>. QED  BY <1>2, <3>2, ParkedKept
  <2>3. CASE IsUser(c)
    <3>1. c \in MessageLoop
      BY <1>4, <2>3 DEF IsUser
    <3>2. \A b \in Backends : sem[b].reserved = 0
      BY <1>2, <3>1, RouterAssumption DEF Parked
    <3>3. SetSem(be[c], ReleaseReserved(sem[be[c]]))
      BY <1>4, <2>3 DEF ToolStart
    <3>4. ReleaseReserved(sem[be[c]]).reserved \in {0, 1}
      BY <1>1, <2>1, <3>2 DEF ReleaseReserved, Semaphores
    <3>5. /\ sem'[be[c]].reserved \in {0, 1}
          /\ \A b \in Backends : b # be[c] => sem'[b].reserved = 0
      BY <2>1, <3>2, <3>3, <3>4, SetOne DEF Control
    <3>. QED  BY <1>2, <3>1, <3>5 DEF Parked, ToolPhases
  <2>. QED  BY <2>2, <2>3
<1>. QED  BY <1>3, <1>4

\* The message loop takes its parked slot back.
LEMMA ParkedReacquire ==
    ASSUME Control, Parked, NEW c \in Callers, Own(c), Reacquire(c)
    PROVE  Parked'
<1>1. \A b \in Backends : sem[b] \in Semaphores(Callers) /\ sem[b].reserved \in Nat
  BY DEF Control, Typed, Semaphores
<1>2. CASE be[c] = "none"
  <2>1. sem' = sem
    BY <1>2 DEF Reacquire
  <2>2. be' = be
    BY DEF Reacquire
  <2>3. \A b \in Backends : Sparing(sem[b], sem'[b])
    BY <1>1, <2>1, OperationsSpare
  <2>. QED  BY <1>2, <2>3, ParkedKept DEF Backends
<1>3. CASE c \in Jobs
  <2>1. sem' = sem /\ c \notin MessageLoop
    BY <1>3, RouterAssumption DEF Reacquire
  <2>2. \A b \in Backends : Sparing(sem[b], sem'[b])
    BY <1>1, <2>1, OperationsSpare
  <2>. QED  BY <2>1, <2>2, ParkedKept
<1>4. CASE c \notin Jobs /\ be[c] # "none"
  <2>. DEFINE s == sem[be[c]]
  <2>1. be[c] \in Backends
    BY <1>4 DEF Control, Typed
  <2>2. \/ Admits(s, IsUser(c)) /\ SetSem(be[c], Take(s, IsUser(c)))
        \/ ~Admits(s, IsUser(c)) /\ SetSem(be[c], Enqueue(s, c, IsUser(c)))
    BY <1>4 DEF Reacquire
  <2>3. \A b \in Backends : Sparing(sem[b], sem'[b])
    BY <1>1, <2>1, <2>2, SetOne, OperationsSpare DEF Control
  <2>4. c \in MessageLoop => sem'[be[c]].reserved = 0
    <3>. SUFFICES ASSUME c \in MessageLoop PROVE sem'[be[c]].reserved = 0
      OBVIOUS
    <3>1. IsUser(c) /\ s \in Semaphores(Callers) /\ s.reserved \in {0, 1}
      BY <1>1, <2>1 DEF IsUser, Parked
    <3>2. CASE s.reserved = 1
      BY <2>1, <2>2, <3>1, <3>2, SetOne DEF Admits, Take, Control, Semaphores
    <3>3. CASE s.reserved = 0
      <4>1. sem'[be[c]].reserved \in Nat /\ sem'[be[c]].reserved <= 0
        BY <2>1, <2>3, <3>3 DEF Sparing
      <4>. QED  BY <4>1
    <3>. QED  BY <3>1, <3>2, <3>3
  <2>. QED  BY <2>3, <2>4, ParkedKept
<1>. QED  BY <1>2, <1>3, <1>4

\* A caller in Reacquire is queued as what it is, on the backend of its choice.
LEMMA RewaitAbandons ==
    ASSUME Control, Ledgers, NEW c \in Callers, pc[c] = "rewait",
           NEW t, t = Abandon(sem[be[c]], c, IsUser(c))
    PROVE  /\ be[c] \in Backends /\ At(c, be[c]) \in Waiting
           /\ Abandons(sem[be[c]], c, t) /\ SemOK(Callers, t)
           /\ t.reserved = sem[be[c]].reserved
<1>1. be[c] \in Backends
  BY DEF Control, Typed, Places, Placed
<1>2. At(c, be[c]) = IF IsUser(c) THEN "user" ELSE "background"
  BY DEF At, Uses, Stance
<1>3. At(c, be[c]) \in Waiting /\ Ledger(be[c])
  BY <1>1, <1>2 DEF Waiting, Ledgers
<1>4. Abandons(sem[be[c]], c, t)
  BY <1>2, <1>3, AbandonAbandons
<1>5. SemOK(Callers, sem[be[c]])
  BY <1>3, BooksSemOK DEF Ledger
<1>6. SemOK(Callers, t)
  BY <1>4, <1>5 DEF Abandons, Departs, Gives, SemOK
<1>7. t.reserved = sem[be[c]].reserved
  BY <1>5 DEF Abandon, RemoveWaiter, Release, Dispatch, SemOK, Semaphores
<1>. QED  BY <1>1, <1>3, <1>4, <1>6, <1>7

\* Giving up a slot or a failed reacquire parks nothing.
LEMMA ParkedGive ==
    ASSUME Control, Parked, Ledgers, NEW c \in Callers, Own(c),
           CancelRewait(c) \/ ReleaseSlot(c)
    PROVE  Parked'
<1>1. \A b \in Backends : sem[b] \in Semaphores(Callers)
  BY DEF Control, Typed
<1>2. pc[c] \notin ToolPhases /\ be[c] \in Backends \cup {"none"}
  BY DEF CancelRewait, ReleaseSlot, ToolPhases, Control, Typed
<1>3. CASE ReleaseSlot(c) /\ be[c] = "none"
  <2>1. sem' = sem
    BY <1>3 DEF ReleaseSlot
  <2>. QED  BY <1>2, <2>1, ParkedQuiet
<1>4. CASE ReleaseSlot(c) /\ be[c] # "none"
  <2>1. be[c] \in Backends /\ SetSem(be[c], Release(sem[be[c]]))
    BY <1>2, <1>4 DEF ReleaseSlot
  <2>2. \A b \in Backends : sem'[b] = sem[b] \/ sem'[b] = Release(sem[b])
    BY <2>1, SetOne DEF Control
  <2>3. \A b \in Backends : Sparing(sem[b], sem'[b])
    BY <1>1, <2>2, OperationsSpare
  <2>. QED  BY <1>2, <2>3, ParkedKept
<1>5. CASE CancelRewait(c)
  <2>. DEFINE t == Abandon(sem[be[c]], c, IsUser(c))
  <2>1. pc[c] = "rewait" /\ SetSem(be[c], CancelReservation(t))
    BY <1>5 DEF CancelRewait
  <2>2. /\ be[c] \in Backends /\ t \in Semaphores(Callers)
        /\ t.reserved = sem[be[c]].reserved
    BY <2>1, RewaitAbandons DEF SemOK
  <2>. HIDE DEF t
  <2>3. Sparing(t, CancelReservation(t))
    BY <2>2, OperationsSpare
  <2>4. \A b \in Backends : Sparing(sem[b], sem'[b])
    BY <1>1, <2>1, <2>2, <2>3, SetOne, OperationsSpare DEF Control, Sparing
  <2>. QED  BY <1>2, <2>4, ParkedKept
<1>. QED  BY <1>3, <1>4, <1>5
-----------------------------------------------------------------------------
(***************************************************************************)
(* Every step keeps the books of both backends.                            *)
(***************************************************************************)

\* A step that has to do with no semaphore, or with the one of d only.
LEMMA LedgersQuiet ==
    ASSUME Ledgers, NEW c \in Callers, Own(c), sem' = sem, cancels' = cancels,
           \A b \in Backends : At(c, b)' = At(c, b)
    PROVE  Ledgers'
BY LedgerSame DEF Own, Ledgers

\* A step that touches one backend leaves the books of the others alone.
LEMMA LedgersOne ==
    ASSUME Ledgers, NEW c \in Callers, Own(c), NEW d \in Backends, Ledger(d)',
           \A b \in Backends : b # d =>
              sem'[b] = sem[b] /\ cancels'[b] = cancels[b] /\ At(c, b)' = At(c, b)
    PROVE  Ledgers'
BY LedgerSame DEF Own, Ledgers

\* Beginning and ending a call without a slot changes no books.
LEMMA LedgersStart ==
    ASSUME Control, Ledgers, NEW c \in Callers, Own(c),
           Start(c) \/ Snapshot(c) \/ Lock(c) \/ FinishCall(c) \/ CtxDone(c)
    PROVE  Ledgers'
<1>1. sem' = sem /\ cancels' = cancels /\ be' = be
  BY DEF Start, Snapshot, Lock, FinishCall, CtxDone
<1>2. \/ pc[c] \in {"idle", "snapshot"} /\ pc'[c] \in {"snapshot", "try"} /\ be[c] = "none"
      \/ pc[c] \in {"lock", "think"} /\ pc'[c] \in {"think", "release"}
      \/ pc'[c] = pc[c]
  BY DEF Start, Snapshot, Lock, FinishCall, CtxDone, Goto, Control, Typed, Places, Placed
<1>3. \A b \in Backends : At(c, b)' = At(c, b)
  BY <1>1, <1>2 DEF At, Uses, Stance, Target, Backends
<1>. QED  BY <1>1, <1>3, LedgersQuiet

\* A caller outside Acquire takes a slot of b, is turned away, or joins a queue:
\* the fast and the slow path of Acquire, and TryAcquireAt.
LEMMA LedgersEnter ==
    ASSUME Control, Ledgers, NEW c \in Callers, Own(c), NEW b \in Backends,
           NEW user \in BOOLEAN, NEW s, SetSem(b, s), cancels' = cancels,
           \A d \in Backends : At(c, d) = "none" /\ (d # b => At(c, d)' = "none"),
           \/ /\ Admits(sem[b], user) /\ s = Take(sem[b], user)
              /\ At(c, b)' = "holds"
           \/ /\ s = Enqueue(sem[b], c, user)
              /\ At(c, b)' = IF user THEN "user" ELSE "background"
    PROVE  Ledgers'
<1>1. sem'[b] = s /\ \A d \in Backends : d # b => sem'[d] = sem[d]
  BY SetOne DEF Control
<1>2. Ledger(b) /\ Moves(c)
  BY DEF Ledgers, Own
<1>3. Ledger(b)'
  BY <1>1, <1>2, LedgerTake, LedgerJoin
<1>. QED  BY <1>1, <1>3, LedgersOne

\* The places a step leaves and reaches.
LEMMA AtNone ==
    ASSUME Control, NEW c \in Callers,
           \/ pc[c] \in {"idle", "snapshot", "try", "retry", "block"}
           \/ pc[c] \in {"tool", "toolDone"} /\ c \notin Jobs
    PROVE  \A d \in Backends : At(c, d) = "none"
<1>1. pc[c] \in {"idle", "snapshot", "try", "retry", "block"} => be[c] = "none"
  BY DEF Control, Places, Placed
<1>. QED  BY <1>1 DEF At, Uses, Stance, Backends

\* A caller that was given a slot stands in the books of that backend only.
LEMMA ChosenHolds ==
    ASSUME Control, NEW c \in Callers, NEW b, Chosen(c, b)
    PROVE  \A d : At(c, d)' = IF d = b THEN "holds" ELSE "none"
BY DEF Control, Typed, Chosen, Goto, At, Uses, Stance

\* A caller is a user or it is not.
LEMMA IsUserBoolean == \A c : IsUser(c) \in BOOLEAN
BY DEF IsUser

\* TryAcquireAt takes a slot of the backend it tries, or none.
LEMMA LedgersTry ==
    ASSUME Control, Ledgers, NEW c \in Callers, Own(c), NEW b \in Backends,
           NEW p \in {"retry", "block"}, pc[c] \in {"try", "retry"}, Try(c, b, p)
    PROVE  Ledgers'
<1>1. \A d \in Backends : At(c, d) = "none"
  BY AtNone
<1>2. CASE Admits(sem[b], IsUser(c))
  <2>1. SetSem(b, Take(sem[b], IsUser(c))) /\ Chosen(c, b) /\ cancels' = cancels
    BY <1>2 DEF Try
  <2>2. \A d : At(c, d)' = IF d = b THEN "holds" ELSE "none"
    BY <2>1, ChosenHolds
  <2>. QED  BY <1>1, <1>2, <2>1, <2>2, LedgersEnter, IsUserBoolean
<1>3. CASE ~Admits(sem[b], IsUser(c))
  <2>1. sem' = sem /\ cancels' = cancels /\ be' = be /\ pc'[c] = p
    BY <1>3 DEF Try, Goto, Control, Typed
  <2>2. be[c] = "none"
    BY DEF Control, Places, Placed
  <2>3. \A d \in Backends : At(c, d)' = "none"
    BY <2>1, <2>2 DEF At, Uses, Stance, Backends
  <2>. QED  BY <1>1, <2>1, <2>3, LedgersQuiet
<1>. QED  BY <1>2, <1>3

\* The blocking Acquire of both strategies.
LEMMA LedgersBlock ==
    ASSUME Control, Ledgers, NEW c \in Callers, Own(c), BlockOnBrain(c)
    PROVE  Ledgers'
<1>1. (\A d \in Backends : At(c, d) = "none") /\ cancels' = cancels
  BY AtNone DEF BlockOnBrain
<1>2. CASE Admits(sem["brain"], IsUser(c))
  <2>1. SetSem("brain", Take(sem["brain"], IsUser(c))) /\ Chosen(c, "brain")
    BY <1>2 DEF BlockOnBrain
  <2>2. \A d : At(c, d)' = IF d = "brain" THEN "holds" ELSE "none"
    BY <2>1, ChosenHolds
  <2>. QED  BY <1>1, <1>2, <2>1, <2>2, LedgersEnter, IsUserBoolean DEF Backends
<1>3. CASE ~Admits(sem["brain"], IsUser(c))
  <2>1. /\ SetSem("brain", Enqueue(sem["brain"], c, IsUser(c)))
        /\ pc'[c] = "wait" /\ be' = be
    BY <1>3 DEF BlockOnBrain, Goto, Control, Typed
  <2>2. \A d : At(c, d)' = IF d = "brain" THEN IF IsUser(c) THEN "user" ELSE "background"
                                         ELSE "none"
    BY <2>1 DEF At, Uses, Stance, IsUser
  <2>. QED  BY <1>1, <2>1, <2>2, LedgersEnter, IsUserBoolean DEF Backends
<1>. QED  BY <1>2, <1>3

\* A caller in Acquire on d has been served, or gives up.
LEMMA LedgersReturn ==
    ASSUME Control, Ledgers, NEW c \in Callers, Own(c), NEW d \in Backends,
           At(c, d) \in Waiting, cancels' = cancels,
           \A b \in Backends : b # d => At(c, b) = "none" /\ At(c, b)' = "none",
           \/ sem' = sem /\ ~Queued(sem[d], c) /\ At(c, d)' = "holds"
           \/ /\ \E t : SetSem(d, t) /\ Abandons(sem[d], c, t)
              /\ At(c, d)' = "none"
    PROVE  Ledgers'
<1>0. Ledger(d) /\ Moves(c)
  BY DEF Ledgers, Own
<1>1. CASE sem' = sem /\ ~Queued(sem[d], c) /\ At(c, d)' = "holds"
  <2>1. Ledger(d)'
    BY <1>0, <1>1, LedgerWake
  <2>. QED  BY <1>1, <2>1, LedgersOne
<1>2. ASSUME NEW t, SetSem(d, t), Abandons(sem[d], c, t), At(c, d)' = "none"
      PROVE  Ledgers'
  <2>1. sem'[d] = t /\ \A b \in Backends : b # d => sem'[b] = sem[b]
    BY <1>2, SetOne DEF Control
  <2>2. Ledger(d)'
    BY <1>0, <1>2, <2>1, LedgerAbandon
  <2>. QED  BY <2>1, <2>2, LedgersOne
<1>. QED  BY <1>1, <1>2

\* A caller that waited for the Brain owns the slot, or gave it back.
LEMMA LedgersWoken ==
    ASSUME Control, Ledgers, NEW c \in Callers, Own(c), Wake(c) \/ CancelWait(c)
    PROVE  Ledgers'
<1>1. \A d : At(c, d) = IF d = "brain" THEN IF IsUser(c) THEN "user" ELSE "background"
                                      ELSE "none"
  BY DEF Wake, CancelWait, At, Uses, Stance
<1>2. At(c, "brain") \in Waiting /\ "brain" \in Backends /\ cancels' = cancels
  BY <1>1 DEF Waiting, Backends, Wake, CancelWait
<1>3. CASE Wake(c)
  <2>1. \A d : At(c, d)' = IF d = "brain" THEN "holds" ELSE "none"
    BY <1>3, ChosenHolds DEF Wake
  <2>. QED  BY <1>1, <1>2, <1>3, <2>1, LedgersReturn DEF Wake
<1>4. CASE CancelWait(c)
  <2>. DEFINE t == Abandon(sem["brain"], c, IsUser(c))
  <2>1. \A d : At(c, d)' = IF d = "none" THEN "holds" ELSE "none"
    BY <1>4, ChosenHolds DEF CancelWait
  <2>2. Ledger("brain") /\ SetSem("brain", t)
    BY <1>2, <1>4 DEF Ledgers, CancelWait
  <2>3. Abandons(sem["brain"], c, t)
    BY <1>1, <1>2, <2>2, AbandonAbandons
  <2>. HIDE DEF t
  <2>. QED  BY <1>1, <1>2, <2>1, <2>2, <2>3, LedgersReturn DEF Backends
<1>. QED  BY <1>3, <1>4

\* Back from a tool, in or after Reacquire.
LEMMA LedgersReacquire ==
    ASSUME Control, Ledgers, NEW c \in Callers, Own(c), Reacquire(c) \/ Rewake(c)
    PROVE  Ledgers'
<1>1. be' = be /\ cancels' = cancels /\ pc \in [Callers -> Phases]
  BY DEF Reacquire, Rewake, Control, Typed
<1>2. CASE Reacquire(c) /\ (c \in Jobs \/ be[c] = "none")
  <2>1. sem' = sem /\ pc[c] \in {"tool", "toolDone"} /\ pc'[c] = "think"
    BY <1>1, <1>2 DEF Reacquire, Goto
  <2>2. \A b \in Backends : At(c, b)' = At(c, b)
    BY <1>1, <1>2, <2>1 DEF At, Uses, Stance, Backends
  <2>. QED  BY <1>1, <2>1, <2>2, LedgersQuiet
<1>3. CASE Reacquire(c) /\ ~(c \in Jobs \/ be[c] = "none")
  <2>1. be[c] \in Backends /\ pc[c] \in {"tool", "toolDone"}
    BY <1>3 DEF Reacquire, Control, Typed
  <2>2. \A d \in Backends : At(c, d) = "none"
    BY <1>3, <2>1, AtNone
  <2>3. CASE Admits(sem[be[c]], IsUser(c))
    <3>1. SetSem(be[c], Take(sem[be[c]], IsUser(c))) /\ pc'[c] = "think"
      BY <1>1, <1>3, <2>3 DEF Reacquire, Goto
    <3>2. \A d : At(c, d)' = IF d = be[c] THEN "holds" ELSE "none"
      BY <1>1, <3>1 DEF At, Uses, Stance
    <3>. QED  BY <1>1, <2>1, <2>2, <2>3, <3>1, <3>2, LedgersEnter, IsUserBoolean
  <2>4. CASE ~Admits(sem[be[c]], IsUser(c))
    <3>1. SetSem(be[c], Enqueue(sem[be[c]], c, IsUser(c))) /\ pc'[c] = "rewait"
      BY <1>1, <1>3, <2>4 DEF Reacquire, Goto
    <3>2. \A d : At(c, d)' = IF d = be[c] THEN IF IsUser(c) THEN "user" ELSE "background"
                                          ELSE "none"
      BY <1>1, <3>1 DEF At, Uses, Stance, IsUser
    <3>. QED  BY <1>1, <2>1, <2>2, <3>1, <3>2, LedgersEnter, IsUserBoolean
  <2>. QED  BY <2>3, <2>4
<1>4. CASE Rewake(c)
  <2>1. pc[c] = "rewait" /\ pc'[c] = "think" /\ sem' = sem /\ ~Queued(sem[be[c]], c)
    BY <1>1, <1>4 DEF Rewake, Goto
  <2>2. be[c] \in Backends
    BY <2>1 DEF Control, Typed, Places, Placed
  <2>3. /\ \A d : At(c, d)' = IF d = be[c] THEN "holds" ELSE "none"
        /\ \A d : d # be[c] => At(c, d) = "none"
    BY <1>1, <2>1 DEF At, Uses, Stance
  <2>4. At(c, be[c]) \in Waiting
    BY <2>1 DEF At, Uses, Stance, Waiting
  <2>. QED  BY <1>1, <2>1, <2>2, <2>3, <2>4, LedgersReturn
<1>. QED  BY <1>2, <1>3, <1>4

\* A holder of a slot of d gives it back: a tool starts, a call ends.
LEMMA LedgersLeave ==
    ASSUME Control, Ledgers, NEW c \in Callers, Own(c), NEW d \in Backends,
           At(c, d) = "holds", \A b \in Backends : b # d => At(c, b) = "none",
           \A b \in Backends : At(c, b)' = "none", cancels' = cancels,
           NEW t, SetSem(d, t), t = Release(sem[d]) \/ t = ReleaseReserved(sem[d])
    PROVE  Ledgers'
<1>1. sem'[d] = t /\ \A b \in Backends : b # d => sem'[b] = sem[b]
  BY SetOne DEF Control
<1>2. Ledger(d) /\ Moves(c)
  BY DEF Ledgers, Own
<1>3. SemOK(Callers, sem[d])
  BY <1>2, BooksSemOK DEF Ledger
<1>4. Gives(Callers, sem[d], t)
  BY <1>3, ReleaseGives, ReleaseReservedGives
<1>5. Ledger(d)'
  BY <1>1, <1>2, <1>4, LedgerGive
<1>. QED  BY <1>1, <1>5, LedgersOne

\* A tool call gives the slot away and parks a reservation (ReleaseReserved).
LEMMA LedgersToolStart ==
    ASSUME Control, Ledgers, NEW c \in Callers, Own(c), ToolStart(c)
    PROVE  Ledgers'
<1>1. /\ be' = be /\ cancels' = cancels /\ pc[c] = "think" /\ pc'[c] = "tool"
      /\ be[c] \in Backends \cup {"none"}
  BY DEF ToolStart, Goto, Control, Typed
<1>2. CASE c \in Jobs \/ be[c] = "none"
  <2>1. sem' = sem
    BY <1>2 DEF ToolStart
  <2>2. \A b \in Backends : At(c, b)' = At(c, b)
    BY <1>1, <1>2 DEF At, Uses, Stance, Backends
  <2>. QED  BY <1>1, <2>1, <2>2, LedgersQuiet
<1>3. CASE ~(c \in Jobs \/ be[c] = "none")
  <2>1. \E t \in {Release(sem[be[c]]), ReleaseReserved(sem[be[c]])} : SetSem(be[c], t)
    BY <1>3 DEF ToolStart
  <2>2. /\ \A b : At(c, b) = IF b = be[c] THEN "holds" ELSE "none"
        /\ \A b : At(c, b)' = "none"
    BY <1>1, <1>3 DEF At, Uses, Stance
  <2>. QED  BY <1>1, <1>3, <2>1, <2>2, LedgersLeave
<1>. QED  BY <1>2, <1>3

\* The end of a call gives its slot back, if it has one.
LEMMA LedgersRelease ==
    ASSUME Control, Ledgers, NEW c \in Callers, Own(c), ReleaseSlot(c)
    PROVE  Ledgers'
<1>1. /\ be'[c] = "none" /\ cancels' = cancels
      /\ pc[c] = "release" /\ pc'[c] = "idle"
      /\ be[c] \in Backends \cup {"none"}
  BY DEF ReleaseSlot, Goto, Control, Typed
<1>2. /\ \A b : At(c, b) = IF b = be[c] THEN "holds" ELSE "none"
      /\ \A b : At(c, b)' = "none"
  BY <1>1 DEF At, Uses, Stance
<1>3. CASE be[c] = "none"
  <2>1. sem' = sem
    BY <1>3 DEF ReleaseSlot
  <2>. QED  BY <1>1, <1>2, <1>3, <2>1, LedgersQuiet DEF Backends
<1>4. CASE be[c] # "none"
  <2>1. SetSem(be[c], Release(sem[be[c]]))
    BY <1>4 DEF ReleaseSlot
  <2>. QED  BY <1>1, <1>2, <1>4, <2>1, LedgersLeave
<1>. QED  BY <1>3, <1>4

\* A failed reacquire leaves Acquire as a cancelled wait does; if a slot was
\* parked it then creates one.
LEMMA LedgersCancelRewait ==
    ASSUME Control, Ledgers, NEW c \in Callers, Own(c), CancelRewait(c)
    PROVE  Ledgers'
<1>. PICK d, t, n : d = be[c] /\ t = Abandon(sem[d], c, IsUser(c)) /\ n = Size(d) + cancels[d]
  OBVIOUS
<1>1. /\ pc[c] = "rewait" /\ pc'[c] = "think" /\ be'[c] = "none"
      /\ SetSem(d, CancelReservation(t))
      /\ cancels' = IF sem[d].reserved = 0 THEN cancels
                    ELSE [cancels EXCEPT ![d] = @ + 1]
  BY DEF CancelRewait, Goto, Control, Typed
<1>2. /\ d \in Backends /\ At(c, d) \in Waiting /\ Abandons(sem[d], c, t)
      /\ SemOK(Callers, t) /\ t.reserved = sem[d].reserved
  BY <1>1, RewaitAbandons
<1>3. /\ \A b : b # d => At(c, b) = "none"
      /\ \A b \in Backends : At(c, b)' = "none"
  BY <1>1 DEF At, Uses, Stance, Backends
<1>4. Ledger(d) /\ Moves(c)
  BY <1>2 DEF Ledgers, Own
<1>5. sem[d].reserved \in Nat /\ cancels \in [Backends -> Nat]
  BY <1>2 DEF Control, Typed, Semaphores
<1>6. /\ sem'[d] = CancelReservation(t)
      /\ \A b \in Backends : b # d => sem'[b] = sem[b] /\ cancels'[b] = cancels[b]
  BY <1>1, <1>2, <1>5, SetOne DEF Control
<1>7. Books(Callers, t, Who(d, "holds"), Who(d, "user") \ {c}, Who(d, "background") \ {c}, n)
  BY <1>2, <1>4, BooksAbandon
<1>8. /\ Who(d, "holds")' = Who(d, "holds")
      /\ Who(d, "user")' = Who(d, "user") \ {c}
      /\ Who(d, "background")' = Who(d, "background") \ {c}
  BY <1>2, <1>3, <1>4, WhoMoves DEF Who, Waiting
<1>9. Ledger(d)'
  <2>1. CASE t.reserved = 0
    <3>1. CancelReservation(t) = t /\ cancels' = cancels
      BY <1>1, <1>2, <2>1 DEF CancelReservation
    <3>2. (Size(d) + cancels[d])' = n
      BY <3>1 DEF Size
    <3>. QED  BY <1>6, <1>7, <1>8, <3>1, <3>2 DEF Ledger
  <2>2. CASE t.reserved > 0
    <3>1. Gives(Callers, t, CancelReservation(t))
      BY <1>2, <2>2, CancelReservationGives
    <3>2. Books(Callers, CancelReservation(t), Who(d, "holds"), Who(d, "user") \ {c},
                Who(d, "background") \ {c}, n + 1)
      BY <1>7, <3>1, BooksGift
    <3>3. cancels'[d] = cancels[d] + 1 /\ cancels[d] \in Nat
      BY <1>1, <1>2, <1>5, <2>2
    <3>4. Size(d) \in Int
      BY RouterAssumption DEF Size, Capacity
    <3>5. (Size(d) + cancels[d])' = n + 1
      BY <3>3, <3>4 DEF Size
    <3>. QED  BY <1>6, <1>8, <3>2, <3>5 DEF Ledger
  <2>. QED  BY <1>2, <1>5, <2>1, <2>2
<1>. QED  BY <1>2, <1>3, <1>6, <1>9, LedgersOne

\* A client call, on its own or from inside a tool.
LEMMA LedgersAsk ==
    ASSUME Control, Ledgers, NEW c \in Callers, Own(c), NEW b \in Backends, Ask(c, b)
    PROVE  Ledgers'
<1>1. /\ \/ c \in Requests /\ pc[c] = "idle" /\ be'[c] = b
         \/ c \notin Requests \cup Jobs /\ pc[c] = "tool" /\ b = "brain"
      /\ cancels' = cancels
  BY RouterAssumption DEF Ask, Control, Typed
<1>2. \A d \in Backends : At(c, d) = "none"
  BY <1>1, AtNone
<1>3. CASE Admits(sem[b], FALSE)
  <2>1. SetSem(b, Take(sem[b], FALSE)) /\ pc'[c] = "served"
    BY <1>3 DEF Ask, Goto, Control, Typed
  <2>2. \A d : At(c, d)' = IF d = b THEN "holds" ELSE "none"
    BY <1>1, <2>1 DEF At, Uses, Stance, Target
  <2>. QED  BY <1>1, <1>2, <1>3, <2>1, <2>2, LedgersEnter
<1>4. CASE ~Admits(sem[b], FALSE)
  <2>1. SetSem(b, Enqueue(sem[b], c, FALSE)) /\ pc'[c] = "asking"
    BY <1>4 DEF Ask, Goto, Control, Typed
  <2>2. \A d : At(c, d)' = IF d = b THEN "background" ELSE "none"
    BY <1>1, <2>1 DEF At, Uses, Stance, Target
  <2>. QED  BY <1>1, <1>2, <2>1, <2>2, LedgersEnter
<1>. QED  BY <1>3, <1>4

\* A request that was answered, refused or cancelled returns its slot.
LEMMA LedgersAnswer ==
    ASSUME Control, Ledgers, NEW c \in Callers, Own(c),
           AskGranted(c) \/ AskCancelled(c) \/ AskDone(c)
    PROVE  Ledgers'
<1>. PICK d : d = Target(c)
  OBVIOUS
<1>1. d \in Backends /\ c \notin Jobs /\ cancels' = cancels
  BY DEF AskGranted, AskCancelled, AskDone, AskOver, Target, Backends, Control, Places, Placed
<1>2. CASE AskGranted(c)
  <2>1. /\ sem' = sem /\ be' = be /\ ~Queued(sem[d], c)
        /\ pc[c] = "asking" /\ pc'[c] = "served"
    BY <1>2 DEF AskGranted, Goto, Control, Typed
  <2>2. /\ \A b : At(c, b) = IF b = d THEN "background" ELSE "none"
        /\ \A b : At(c, b)' = IF b = d THEN "holds" ELSE "none"
    BY <2>1 DEF At, Uses, Stance, Target
  <2>. QED  BY <1>1, <2>1, <2>2, LedgersReturn DEF Waiting
<1>3. CASE AskCancelled(c) \/ AskDone(c)
  <2>1. \/ c \in Requests /\ pc'[c] = "idle" /\ be'[c] = "none"
        \/ pc'[c] = "toolDone"
    BY <1>3 DEF AskCancelled, AskDone, AskOver, Goto, Control, Typed
  <2>2. \A b \in Backends : At(c, b)' = "none"
    BY <1>1, <2>1 DEF At, Uses, Stance, Backends
  <2>3. CASE AskCancelled(c)
    <3>1. /\ SetSem(d, Abandon(sem[d], c, FALSE)) /\ pc[c] = "asking"
      BY <2>3 DEF AskCancelled
    <3>2. \A b : At(c, b) = IF b = d THEN "background" ELSE "none"
      BY <3>1 DEF At, Uses, Stance
    <3>3. At(c, d) \in Waiting /\ Ledger(d)
      BY <1>1, <3>2 DEF Waiting, Ledgers
    <3>4. Abandons(sem[d], c, Abandon(sem[d], c, FALSE))
      BY <3>2, <3>3, AbandonAbandons
    <3>. QED  BY <1>1, <2>2, <3>1, <3>2, <3>3, <3>4, LedgersReturn
  <2>4. CASE AskDone(c)
    <3>1. SetSem(d, Release(sem[d])) /\ pc[c] = "served"
      BY <2>4 DEF AskDone
    <3>2. \A b : At(c, b) = IF b = d THEN "holds" ELSE "none"
      BY <3>1 DEF At, Uses, Stance
    <3>. QED  BY <1>1, <2>2, <3>1, <3>2, LedgersLeave
  <2>. QED  BY <1>3, <2>3, <2>4
<1>. QED  BY <1>2, <1>3
-----------------------------------------------------------------------------
\* At the start nobody holds, waits or has parked anything.
LEMMA InitRInv == Init => RInv
<1>. SUFFICES ASSUME Init PROVE RInv
  OBVIOUS
<1>1. NineSlots \in Int /\ BrainSlots \in Int
  BY RouterAssumption
<1>2. \A n \in Int : Capacity(n) \in Nat
  BY DEF Capacity
<1>3. Typed
  BY <1>1, <1>2 DEF Init, Typed, NewPrioritySem, Semaphores, Phases
<1>4. Places /\ MuHeld
  BY DEF Init, Places, Placed, MuHeld
<1>5. Parked
  BY DEF Init, Parked, NewPrioritySem
<1>6. ASSUME NEW b \in Backends PROVE Ledger(b)
  <2>1. \A r : r # "none" => Who(b, r) = {}
    BY DEF Init, Who, At, Uses, Stance, Backends
  <2>2. \E n \in Int : sem[b] = NewPrioritySem(n) /\ Size(b) = Capacity(n)
    BY <1>1 DEF Init, Size
  <2>3. Books(Callers, sem[b], {}, {}, {}, Size(b))
    BY <2>2, BooksNew
  <2>4. Size(b) + cancels[b] = Size(b)
    BY <1>2, <2>2 DEF Init
  <2>. QED  BY <2>1, <2>3, <2>4 DEF Ledger
<1>. QED  BY <1>3, <1>4, <1>5, <1>6 DEF RInv, Ledgers

\* What every step keeps, once its own lemmas above are known.
LEMMA StepRInv ==
    ASSUME RInv, NEW c \in Callers, Own(c), Parked', Ledgers'
    PROVE  RInv'
<1>1. \A b \in Backends : sem'[b] \in Semaphores(Callers)
  BY DEF Ledgers, Ledger, Books
<1>2. Typed'
  BY <1>1 DEF Own, Typed
<1>. QED  BY <1>2 DEF Own, RInv

\* Every step of the router keeps its invariant.
LEMMA NextRInv == RInv /\ [Next]_vars => RInv'
<1>. SUFFICES ASSUME RInv, [Next]_vars PROVE RInv'
  OBVIOUS
<1>0. Control /\ Parked /\ Ledgers
  BY DEF RInv, Control
<1>1. ASSUME NEW c \in Callers,
             Start(c) \/ Snapshot(c) \/ Lock(c) \/ FinishCall(c) \/ CtxDone(c)
      PROVE  RInv'
  <2>1. Own(c) /\ Ledgers'
    BY <1>0, <1>1, ControlStart, LedgersStart
  <2>2. sem' = sem /\ be' = be /\ (pc[c] \in ToolPhases => pc'[c] = pc[c])
    BY <1>1 DEF Start, Snapshot, Lock, FinishCall, CtxDone, ToolPhases
  <2>3. Parked'
    BY <1>0, <2>1, <2>2, ParkedQuiet
  <2>. QED  BY <2>1, <2>3, StepRInv
<1>2. ASSUME NEW c \in Callers, TryPreferred(c) \/ TrySecond(c) PROVE RInv'
  <2>1. Own(c) /\ Parked'
    BY <1>0, <1>2, ControlAcquire, ParkedAcquire
  <2>2. \E b \in Backends, p \in {"retry", "block"} : Try(c, b, p)
    BY <1>2 DEF TryPreferred, TrySecond, Backends
  <2>3. pc[c] \in {"try", "retry"}
    BY <1>2 DEF TryPreferred, TrySecond
  <2>4. Ledgers'
    BY <1>0, <2>1, <2>2, <2>3, LedgersTry
  <2>. QED  BY <2>1, <2>4, StepRInv
<1>3. ASSUME NEW c \in Callers, BlockOnBrain(c) PROVE RInv'
  BY <1>0, <1>3, ControlAcquire, ParkedAcquire, LedgersBlock, StepRInv
<1>4. ASSUME NEW c \in Callers, Wake(c) PROVE RInv'
  <2>1. Own(c) /\ Ledgers'
    BY <1>0, <1>4, ControlAcquire, LedgersWoken
  <2>2. sem' = sem /\ pc[c] \notin ToolPhases
    BY <1>4 DEF Wake, ToolPhases
  <2>3. Parked'
    BY <1>0, <2>1, <2>2, ParkedQuiet
  <2>. QED  BY <2>1, <2>3, StepRInv
<1>5. ASSUME NEW c \in Callers, CancelWait(c) PROVE RInv'
  BY <1>0, <1>5, ControlAcquire, ParkedAcquire, LedgersWoken, StepRInv
<1>6. ASSUME NEW c \in Callers, ToolStart(c) PROVE RInv'
  BY <1>0, <1>6, ControlTool, ParkedToolStart, LedgersToolStart, StepRInv
<1>7. ASSUME NEW c \in Callers, Reacquire(c) PROVE RInv'
  BY <1>0, <1>7, ControlTool, ParkedReacquire, LedgersReacquire, StepRInv
<1>8. ASSUME NEW c \in Callers, Rewake(c) PROVE RInv'
  <2>1. Own(c) /\ Ledgers'
    BY <1>0, <1>8, ControlStart, LedgersReacquire
  <2>2. sem' = sem /\ pc[c] \notin ToolPhases
    BY <1>8 DEF Rewake, ToolPhases
  <2>3. Parked'
    BY <1>0, <2>1, <2>2, ParkedQuiet
  <2>. QED  BY <2>1, <2>3, StepRInv
<1>9. ASSUME NEW c \in Callers, CancelRewait(c) PROVE RInv'
  BY <1>0, <1>9, ControlTool, ParkedGive, LedgersCancelRewait, StepRInv
<1>10. ASSUME NEW c \in Callers, ReleaseSlot(c) PROVE RInv'
  BY <1>0, <1>10, ControlTool, ParkedGive, LedgersRelease, StepRInv
<1>11. ASSUME NEW c \in Callers, NEW b \in Backends, Ask(c, b) PROVE RInv'
  BY <1>0, <1>11, ControlAsk, ParkedAsk, LedgersAsk, StepRInv
<1>12. ASSUME NEW c \in Callers, AskCancelled(c) \/ AskDone(c) PROVE RInv'
  BY <1>0, <1>12, ControlAsk, ParkedAsk, LedgersAnswer, StepRInv
<1>13. ASSUME NEW c \in Callers, AskGranted(c) PROVE RInv'
  <2>1. Own(c) /\ Ledgers'
    BY <1>0, <1>13, ControlAsk, LedgersAnswer
  <2>2. sem' = sem /\ be' = be /\ pc'[c] = "served"
    BY <1>0, <1>13 DEF AskGranted, Goto, Control, Typed
  <2>3. Parked'
    BY <1>0, <2>1, <2>2, ParkedQuiet DEF ToolPhases
  <2>. QED  BY <2>1, <2>3, StepRInv
<1>14. CASE UNCHANGED vars
  <2>1. \A b : Ledger(b)' = Ledger(b)
    BY <1>14 DEF vars, Ledger, Who, At, Uses, Stance, Target, Size
  <2>. QED
    BY <1>14, <2>1 DEF vars, RInv, Typed, Places, Placed, MuHeld, Parked, Ledgers
<1>. QED
  BY <1>1, <1>2, <1>3, <1>4, <1>5, <1>6, <1>7, <1>8, <1>9, <1>10, <1>11, <1>12,
     <1>13, <1>14 DEF Next, Proceed

\* The books of both backends are kept in every reachable state, and Mu and the
\* parked slots are where they should be.
THEOREM RouterInvariant == Spec => []RInv
<1>. QED  BY InitRInv, NextRInv, PTL DEF Spec
-----------------------------------------------------------------------------
Capacities == \A b \in Backends : Size(b) \in Nat \ {0} /\ Capacity(Size(b)) = Size(b)

\* Every backend has a slot, and as many as its semaphore admits.
LEMMA SizesPositive == Capacities
BY RouterAssumption DEF Capacities, Size, Capacity

\* The callers that own a slot of b are those its books count as served.
LEMMA OwnersServed ==
    ASSUME Typed, Places, NEW b \in Backends, Ledger(b)
    PROVE  /\ Owned(b) \in Nat
           /\ Owned(b) <= Cardinality(Served(sem[b], Who(b, "holds"),
                                             Who(b, "user") \cup Who(b, "background")))
<1>. DEFINE A == {c \in Callers : OwnsForCall(c, b) \/ WokenOnBrain(c, b)}
            B == {c \in Callers : OwnsForClient(c, b)}
            D == Served(sem[b], Who(b, "holds"), Who(b, "user") \cup Who(b, "background"))
<1>1. ASSUME NEW c \in A PROVE c \in D /\ pc[c] \notin {"asking", "served"}
  <2>1. CASE pc[c] \in {"lock", "think", "release"} \/ (c \in Jobs /\ pc[c] \in {"tool", "toolDone"})
    <3>1. be[c] = b /\ pc[c] # "wait"
      BY <1>1, <2>1 DEF OwnsForCall, WokenOnBrain
    <3>2. At(c, b) = "holds"
      BY <2>1, <3>1 DEF At, Uses, Stance
    <3>. QED  BY <1>1, <2>1, <3>2 DEF Served, Who
  <2>2. CASE pc[c] \in {"wait", "rewait"}
    <3>1. /\ pc[c] = "wait" => b = "brain"
          /\ pc[c] = "rewait" => be[c] = b
          /\ ~Queued(sem[b], c)
      BY <1>1, <2>2 DEF OwnsForCall, WokenOnBrain
    <3>2. At(c, b) = IF IsUser(c) THEN "user" ELSE "background"
      BY <2>2, <3>1 DEF At, Uses, Stance
    <3>. QED  BY <1>1, <2>2, <3>1, <3>2 DEF Served, Who
  <2>. QED  BY <1>1, <2>1, <2>2 DEF OwnsForCall, WokenOnBrain
<1>2. ASSUME NEW c \in B PROVE c \in D /\ pc[c] \in {"asking", "served"}
  <2>1. pc[c] \in {"asking", "served"} /\ Target(c) = b /\ ~Queued(sem[b], c)
    BY <1>2 DEF OwnsForClient
  <2>2. At(c, b) = IF pc[c] = "asking" THEN "background" ELSE "holds"
    BY <2>1 DEF At, Uses, Stance
  <2>. QED  BY <1>2, <2>1, <2>2 DEF Served, Who
<1>3. IsFiniteSet(D) /\ Cardinality(D) \in Nat
  BY ServedFinite DEF Ledger
<1>4. A \subseteq D /\ B \subseteq D /\ A \cap B = {} /\ A \cup B \subseteq D
  BY <1>1, <1>2
<1>. SUFFICES Owned(b) \in Nat /\ Owned(b) <= Cardinality(D)
  OBVIOUS
<1>0. Owned(b) = Cardinality(A) + Cardinality(B)
  BY DEF Owned
<1>. HIDE DEF A, B, D
<1>5. IsFiniteSet(A) /\ IsFiniteSet(B)
  BY <1>3, <1>4, FS_Subset
<1>6. Cardinality(A \cup B) = Cardinality(A) + Cardinality(B)
  <2>1. Cardinality(A \cap B) = 0
    BY <1>4, FS_EmptySet, Zenon
  <2>2. Cardinality(A \cup B) = Cardinality(A) + Cardinality(B) - Cardinality(A \cap B)
    BY <1>5, FS_Union
  <2>. QED  BY <1>5, <2>1, <2>2, FS_CardinalityType
<1>7. Cardinality(A \cup B) <= Cardinality(D)
  BY <1>3, <1>4, FS_Subset
<1>8. Cardinality(A) \in Nat /\ Cardinality(B) \in Nat
  BY <1>5, FS_CardinalityType
<1>. QED  BY <1>0, <1>6, <1>7, <1>8

\* No backend serves more calls than it has slots, but for the slots that
\* CancelReservation creates, for any number of callers of every kind.
THEOREM BackendsBounded == Spec => []BackendBound
<1>1. RInv => BackendBound
  <2>. SUFFICES ASSUME RInv, NEW b \in Backends PROVE Owned(b) <= Size(b) + cancels[b]
    BY DEF BackendBound
  <2>1. Typed /\ Places /\ Ledger(b)
    BY DEF RInv, Ledgers
  <2>. DEFINE k == Cardinality(Served(sem[b], Who(b, "holds"),
                                      Who(b, "user") \cup Who(b, "background")))
  <2>2. Owned(b) \in Nat /\ Owned(b) <= k
    BY <2>1, OwnersServed
  <2>3. /\ sem[b].avail + sem[b].reserved + k = Size(b) + cancels[b]
        /\ k \in Nat /\ sem[b].avail \in Nat /\ sem[b].reserved \in Nat
    BY <2>1, ServedFinite DEF Ledger, Books
  <2>. HIDE DEF k
  <2>. QED  BY <2>2, <2>3
<1>. QED  BY <1>1, RouterInvariant, PTL

\* When every call is over both semaphores are as new, but for the slots that
\* CancelReservation created, and Mu is free.
THEOREM EverythingReturned == Spec => []AllReturned
<1>1. RInv => AllReturned
  <2>. SUFFICES ASSUME RInv, \A c \in Callers : pc[c] = "idle"
                PROVE  /\ mu = Free
                       /\ \A b \in Backends : sem[b]
                            = [NewPrioritySem(Size(b)) EXCEPT !.avail = @ + cancels[b]]
    BY DEF AllReturned
  <2>1. mu = Free
    BY DEF RInv, MuHeld, ToolPhases, Callers, Orchestrators
  <2>2. ASSUME NEW b \in Backends
        PROVE  sem[b] = [NewPrioritySem(Size(b)) EXCEPT !.avail = @ + cancels[b]]
    <3>. DEFINE s == sem[b]
                W == Who(b, "user") \cup Who(b, "background")
    <3>1. s.reserved = 0
      BY DEF RInv, Parked, ToolPhases, Callers, Orchestrators
    <3>2. Who(b, "holds") = {} /\ Who(b, "user") = {} /\ Who(b, "background") = {}
      BY DEF Who, At, Stance
    <3>3. Books(Callers, s, {}, {}, {}, Size(b) + cancels[b])
      BY <3>2 DEF RInv, Ledgers, Ledger
    <3>4. /\ s \in Semaphores(Callers)
          /\ \A x : ~Contains(s.high, x) /\ ~Contains(s.low, x)
          /\ s.avail + s.reserved + Cardinality(Served(s, {}, {} \cup {}))
               = Size(b) + cancels[b]
      BY <3>3 DEF Books
    <3>5. Cardinality(Served(s, {}, {} \cup {})) = 0
      BY FS_EmptySet DEF Served
    <3>6. s.high = <<>> /\ s.low = <<>>
      <4>1. s.high \in Seq(Callers) /\ s.low \in Seq(Callers)
        BY <3>4 DEF Semaphores
      <4>2. ASSUME NEW q \in Seq(Callers), \A x : ~Contains(q, x) PROVE q = <<>>
        <5>1. q # <<>> => Contains(q, q[1])
          BY DEF Contains
        <5>. QED  BY <4>2, <5>1
      <4>. QED  BY <3>4, <4>1, <4>2
    <3>7. s.avail \in Nat /\ s.avail = Size(b) + cancels[b] /\ Capacity(Size(b)) = Size(b)
      BY <3>1, <3>4, <3>5, SizesPositive DEF Capacities, Semaphores
    <3>8. s = [avail |-> Size(b) + cancels[b], reserved |-> 0, high |-> <<>>, low |-> <<>>]
      BY <3>1, <3>4, <3>6, <3>7 DEF Semaphores
    <3>. QED  BY <3>7, <3>8 DEF NewPrioritySem
  <2>. QED  BY <2>1, <2>2
<1>. QED  BY <1>1, RouterInvariant, PTL
-----------------------------------------------------------------------------
\* Nobody who could have a free slot of a backend is asleep in its Acquire.  A
\* cancelled reservation wakes one background caller where it has two slots to
\* give, so background work is not covered once one was cancelled.
NobodyWaits == \A b \in Backends : NoneWaits(sem[b], cancels[b] = 0)

\* A step that changes one semaphore by an operation that serves its callers.
LEMMA ServesOne ==
    ASSUME Typed, NobodyWaits, NEW b \in Backends, NEW s, SetSem(b, s),
           cancels' = cancels, NoneWaits(s, cancels[b] = 0)
    PROVE  NobodyWaits'
BY SetOne DEF NobodyWaits

\* What the operations do to the semaphore of a backend.
LEMMA BackendServes ==
    ASSUME Typed, NobodyWaits, NEW b \in Backends, NEW c, NEW user \in BOOLEAN
    PROVE  LET all == cancels[b] = 0 IN
           /\ Admits(sem[b], user) => NoneWaits(Take(sem[b], user), all)
           /\ ~Admits(sem[b], user) => NoneWaits(Enqueue(sem[b], c, user), all)
           /\ NoneWaits(Release(sem[b]), all)
           /\ NoneWaits(ReleaseReserved(sem[b]), all)
           /\ NoneWaits(Abandon(sem[b], c, user), all)
<1>. DEFINE all == cancels[b] = 0
<1>1. sem[b] \in Semaphores(Callers) /\ NoneWaits(sem[b], all) /\ all \in BOOLEAN
  BY DEF Typed, NobodyWaits
<1>. HIDE DEF all
<1>2. /\ Admits(sem[b], user) => NoneWaits(Take(sem[b], user), all)
      /\ ~Admits(sem[b], user) => NoneWaits(Enqueue(sem[b], c, user), all)
      /\ NoneWaits(Release(sem[b]), all)
      /\ NoneWaits(ReleaseReserved(sem[b]), all)
      /\ NoneWaits(RemoveWaiter(sem[b], c, user), all)
  BY <1>1, OperationsServe
<1>3. NoneWaits(Abandon(sem[b], c, user), all)
  BY <1>2 DEF Abandon
<1>. QED  BY <1>2, <1>3 DEF all

\* A caller that fails to reacquire leaves no user beside a free slot, and no
\* background work either unless it cancelled a reservation.
LEMMA CancelRewaitServes ==
    ASSUME RInv, NobodyWaits, NEW c \in Callers, CancelRewait(c)
    PROVE  NobodyWaits'
<1>0. Control /\ Ledgers /\ Typed
  BY DEF RInv, Control
<1>. PICK d, t : d = be[c] /\ t = Abandon(sem[d], c, IsUser(c))
  OBVIOUS
<1>1. /\ pc[c] = "rewait" /\ SetSem(d, CancelReservation(t))
      /\ cancels' = IF sem[d].reserved = 0 THEN cancels
                    ELSE [cancels EXCEPT ![d] = @ + 1]
  BY DEF CancelRewait
<1>2. d \in Backends /\ SemOK(Callers, t) /\ t.reserved = sem[d].reserved
  BY <1>0, <1>1, RewaitAbandons
<1>3. NoneWaits(t, cancels[d] = 0)
  BY <1>0, <1>2, IsUserBoolean, BackendServes
<1>4. NoneWaits(CancelReservation(t), cancels[d] = 0 /\ t.reserved = 0)
  <2>1. t \in Semaphores(Callers)
    BY <1>2 DEF SemOK
  <2>2. (cancels[d] = 0) \in BOOLEAN
    OBVIOUS
  <2>. QED  BY <1>3, <2>1, <2>2, IsUserBoolean, OperationsServe
<1>5. /\ cancels \in [Backends -> Nat]
      /\ cancels'[d] = 0 => cancels[d] = 0 /\ t.reserved = 0
      /\ \A b \in Backends : b # d => cancels'[b] = cancels[b]
  BY <1>0, <1>1, <1>2 DEF Typed
<1>6. NoneWaits(CancelReservation(t), cancels'[d] = 0)
  BY <1>4, <1>5 DEF NoneWaits
<1>7. sem'[d] = CancelReservation(t) /\ \A b \in Backends : b # d => sem'[b] = sem[b]
  BY <1>0, <1>1, <1>2, SetOne
<1>. QED  BY <1>5, <1>6, <1>7 DEF NobodyWaits

\* Every other step takes one slot, queues for one or gives one back.
LEMMA NextServes == RInv /\ NobodyWaits /\ [Next]_vars => NobodyWaits'
<1>. SUFFICES ASSUME RInv, NobodyWaits, [Next]_vars PROVE NobodyWaits'
  OBVIOUS
<1>0. Typed /\ Places
  BY DEF RInv
<1>1. ASSUME sem' = sem, cancels' = cancels PROVE NobodyWaits'
  BY <1>1 DEF NobodyWaits
<1>2. ASSUME NEW c \in Callers,
             \/ Start(c) \/ Snapshot(c) \/ Lock(c) \/ FinishCall(c) \/ CtxDone(c)
             \/ Wake(c) \/ Rewake(c) \/ AskGranted(c)
      PROVE  NobodyWaits'
  BY <1>1, <1>2 DEF Start, Snapshot, Lock, FinishCall, CtxDone, Wake, Rewake, AskGranted
<1>3. ASSUME NEW c \in Callers, NEW b \in Backends, NEW p, Try(c, b, p)
      PROVE  NobodyWaits'
  BY <1>0, <1>1, <1>3, IsUserBoolean, BackendServes, ServesOne DEF Try
<1>4. ASSUME NEW c \in Callers, BlockOnBrain(c) PROVE NobodyWaits'
  <2>1. /\ cancels' = cancels /\ "brain" \in Backends
        /\ \/ Admits(sem["brain"], IsUser(c))
              /\ SetSem("brain", Take(sem["brain"], IsUser(c)))
           \/ ~Admits(sem["brain"], IsUser(c))
              /\ SetSem("brain", Enqueue(sem["brain"], c, IsUser(c)))
    BY <1>4 DEF BlockOnBrain, Backends
  <2>. QED  BY <1>0, <2>1, IsUserBoolean, BackendServes, ServesOne
<1>5. ASSUME NEW c \in Callers, CancelWait(c) PROVE NobodyWaits'
  <2>1. /\ cancels' = cancels /\ "brain" \in Backends
        /\ SetSem("brain", Abandon(sem["brain"], c, IsUser(c)))
    BY <1>5 DEF CancelWait, Backends
  <2>. QED  BY <1>0, <2>1, IsUserBoolean, BackendServes, ServesOne
<1>6. ASSUME NEW c \in Callers, be[c] # "none",
             \/ SetSem(be[c], Release(sem[be[c]]))
             \/ SetSem(be[c], ReleaseReserved(sem[be[c]])),
             cancels' = cancels
      PROVE  NobodyWaits'
  <2>1. be[c] \in Backends
    BY <1>0, <1>6 DEF Typed
  <2>. QED  BY <1>0, <1>6, <2>1, IsUserBoolean, BackendServes, ServesOne
<1>7. ASSUME NEW c \in Callers, ToolStart(c) \/ ReleaseSlot(c) PROVE NobodyWaits'
  <2>1. cancels' = cancels
    BY <1>7 DEF ToolStart, ReleaseSlot
  <2>2. \/ sem' = sem
        \/ be[c] # "none" /\ (\/ SetSem(be[c], Release(sem[be[c]]))
                              \/ SetSem(be[c], ReleaseReserved(sem[be[c]])))
    BY <1>7 DEF ToolStart, ReleaseSlot
  <2>. QED  BY <1>1, <1>6, <2>1, <2>2
<1>8. ASSUME NEW c \in Callers, Reacquire(c) PROVE NobodyWaits'
  <2>1. cancels' = cancels
    BY <1>8 DEF Reacquire
  <2>2. \/ sem' = sem
        \/ be[c] # "none"
           /\ \/ Admits(sem[be[c]], IsUser(c))
                 /\ SetSem(be[c], Take(sem[be[c]], IsUser(c)))
              \/ ~Admits(sem[be[c]], IsUser(c))
                 /\ SetSem(be[c], Enqueue(sem[be[c]], c, IsUser(c)))
    BY <1>8 DEF Reacquire
  <2>3. be[c] # "none" => be[c] \in Backends
    BY <1>0 DEF Typed
  <2>. QED
    BY <1>0, <1>1, <2>1, <2>2, <2>3, IsUserBoolean, BackendServes, ServesOne
<1>9. ASSUME NEW c \in Callers, NEW b \in Backends, Ask(c, b) PROVE NobodyWaits'
  <2>1. /\ cancels' = cancels
        /\ \/ Admits(sem[b], FALSE) /\ SetSem(b, Take(sem[b], FALSE))
           \/ ~Admits(sem[b], FALSE) /\ SetSem(b, Enqueue(sem[b], c, FALSE))
    BY <1>9 DEF Ask
  <2>. QED  BY <1>0, <2>1, BackendServes, ServesOne
<1>10. ASSUME NEW c \in Callers, AskCancelled(c) \/ AskDone(c) PROVE NobodyWaits'
  <2>. PICK b : b = Target(c)
    OBVIOUS
  <2>1. b \in Backends
    BY <1>0, <1>10
       DEF AskCancelled, AskDone, Target, Places, Placed, Backends
  <2>2. /\ cancels' = cancels
        /\ \/ SetSem(b, Abandon(sem[b], c, FALSE))
           \/ SetSem(b, Release(sem[b]))
    BY <1>10 DEF AskCancelled, AskDone, AskOver
  <2>. QED  BY <1>0, <2>1, <2>2, BackendServes, ServesOne
<1>11. ASSUME NEW c \in Callers, TryPreferred(c) \/ TrySecond(c) PROVE NobodyWaits'
  <2>1. \E b \in Backends, p \in {"retry", "block"} : Try(c, b, p)
    BY <1>11 DEF TryPreferred, TrySecond, Backends
  <2>. QED  BY <1>3, <2>1
<1>12. CASE UNCHANGED vars
  BY <1>1, <1>12 DEF vars
<1>. QED
  BY <1>2, <1>4, <1>5, <1>7, <1>8, <1>9, <1>10, <1>11, <1>12, CancelRewaitServes
     DEF Next, Proceed

\* On neither backend does a user sleep in Acquire or Reacquire while a slot is
\* free or parked, nor background work beside an unreserved slot unless a
\* reservation of that backend was cancelled: no return of a slot, cancelled
\* wait or failed reacquire loses a wakeup.
THEOREM NobodyWaitsForFreeSlot == Spec => []NobodyWaits
<1>1. Init => NobodyWaits
  <2>1. ASSUME NEW n PROVE NoneWaits(NewPrioritySem(n), TRUE)
    BY DEF NoneWaits, NewPrioritySem
  <2>2. ASSUME NEW n PROVE NoneWaits(NewPrioritySem(n), 0 = 0)
    BY <2>1 DEF NoneWaits
  <2>. QED  BY <2>2 DEF Init, NobodyWaits
<1>. QED  BY <1>1, NextServes, RouterInvariant, PTL DEF Spec
-----------------------------------------------------------------------------
(***************************************************************************)
(* The circuit breaker: the state of the circuit and the failure count     *)
(* never disagree, and only a probe that ends without a report leaves a    *)
(* circuit half-open.                                                      *)
(***************************************************************************)

\* BreakerTypeOK and OpenIffThreshold support each other: a report in the half-open
\* state finds the count at the threshold.
BreakerInv == BreakerTypeOK /\ OpenIffThreshold

\* Doubling stays within the cap (recordFailure).
LEMMA DoubledInRange ==
    ASSUME NEW d \in 1..MaxOpen
    PROVE  Doubled(d) \in 1..MaxOpen
  BY BreakerAssumption DEF Doubled

\* A fresh breaker (newCircuitBreaker) satisfies the invariant.
LEMMA BreakerInitInv == BreakerInit => BreakerInv
  BY BreakerAssumption DEF BreakerInit, BreakerInv, BreakerTypeOK, OpenIffThreshold

\* Every step of a call and of the clock keeps the invariant.
LEMMA BreakerNextInv == BreakerInv /\ [BreakerNext]_breakerVars => BreakerInv'
<1> SUFFICES ASSUME BreakerInv, [BreakerNext]_breakerVars PROVE BreakerInv'
  OBVIOUS
<1> USE BreakerAssumption DEF BreakerInv, BreakerTypeOK, OpenIffThreshold, breaker, ToStage, Reported
<1>1. ASSUME NEW c \in Calls, CheckClosed(c) PROVE BreakerInv'
  BY <1>1 DEF CheckClosed
<1>2. ASSUME NEW c \in Calls, CheckHalfOpen(c) PROVE BreakerInv'
  BY <1>2 DEF CheckHalfOpen
<1>3. ASSUME NEW c \in Calls, GetSlot(c) PROVE BreakerInv'
  BY <1>3 DEF GetSlot
<1>4. ASSUME NEW c \in Calls, Succeed(c) PROVE BreakerInv'
  BY <1>4 DEF Succeed
<1>5. ASSUME NEW c \in Calls, Fail(c) PROVE BreakerInv'
  <2>1. Doubled(openDur) \in 1..MaxOpen
    BY DoubledInRange
  <2>2. CASE failCount + 1 >= Threshold
    BY <1>5, <2>1, <2>2 DEF Fail
  <2>3. CASE ~(failCount + 1 >= Threshold)
    BY <1>5, <2>3 DEF Fail
  <2> QED BY <2>2, <2>3
<1>6. ASSUME NEW c \in Calls, EndUnreported(c) PROVE BreakerInv'
  BY <1>6 DEF EndUnreported
<1>7. CASE Elapse
  BY <1>7 DEF Elapse
<1>8. CASE UNCHANGED breakerVars
  BY <1>8 DEF breakerVars
<1> QED
  BY <1>1, <1>2, <1>3, <1>4, <1>5, <1>6, <1>7, <1>8 DEF BreakerNext

\* The invariant holds in every reachable state.
THEOREM BreakerInvariant == BreakerSpec => []BreakerInv
<1>1. BreakerInit => BreakerInv
  BY BreakerInitInv
<1> QED
  BY <1>1, BreakerNextInv, PTL DEF BreakerSpec

\* The window stays within its cap and the count within its bound (BreakerTypeOK).
THEOREM BreakerTypeCorrect == BreakerSpec => []BreakerTypeOK
<1>1. BreakerInv => BreakerTypeOK
  BY DEF BreakerInv
<1> QED
  BY <1>1, BreakerInvariant, PTL

\* The circuit is closed exactly below the threshold (recordFailure,
\* recordSuccess), in whatever order concurrent calls report.
THEOREM StateFollowsCount == BreakerSpec => []OpenIffThreshold
<1>1. BreakerInv => OpenIffThreshold
  BY DEF BreakerInv
<1> QED
  BY <1>1, BreakerInvariant, PTL

\* A half-open circuit has a probe under way that will resolve it (check's
\* half-open case), or one of its probes ended unreported.
THEOREM ProbePresent == BreakerSpec => []StuckOnlyUnheard
<1>1. BreakerInit => StuckOnlyUnheard
  BY DEF BreakerInit, StuckOnlyUnheard
<1>2. BreakerInv /\ StuckOnlyUnheard /\ [BreakerNext]_breakerVars => StuckOnlyUnheard'
  <2> SUFFICES ASSUME BreakerInv, StuckOnlyUnheard, [BreakerNext]_breakerVars
               PROVE StuckOnlyUnheard'
    OBVIOUS
  <2> USE DEF StuckOnlyUnheard, breaker, Reported
  <2>1. ASSUME NEW c \in Calls, CheckClosed(c) \/ GetSlot(c) PROVE StuckOnlyUnheard'
    BY <2>1 DEF CheckClosed, GetSlot
  <2>2. ASSUME NEW c \in Calls, CheckHalfOpen(c) PROVE StuckOnlyUnheard'
    BY <2>2 DEF CheckHalfOpen
  <2>3. ASSUME NEW c \in Calls, Succeed(c) PROVE StuckOnlyUnheard'
    BY <2>3 DEF Succeed
  <2>4. ASSUME NEW c \in Calls, Fail(c) PROVE StuckOnlyUnheard'
    \* Past the threshold the circuit opens; below it, it is closed.
    BY <2>4, BreakerAssumption DEF Fail, BreakerInv, BreakerTypeOK, OpenIffThreshold
  <2>5. ASSUME NEW c \in Calls, EndUnreported(c) PROVE StuckOnlyUnheard'
    BY <2>5 DEF EndUnreported
  <2>6. CASE Elapse \/ UNCHANGED breakerVars
    BY <2>6 DEF Elapse, breakerVars
  <2> QED
    BY <2>1, <2>2, <2>3, <2>4, <2>5, <2>6 DEF BreakerNext
<1> QED
  BY <1>1, <1>2, BreakerInvariant, PTL DEF BreakerSpec
=============================================================================
