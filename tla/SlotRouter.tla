----------------------------- MODULE SlotRouter -----------------------------
(***************************************************************************)
(* The orchestrator calls of the program on its two LLM backends: the slot *)
(* router (engine/slot_router.go), one semaphore per backend (SemOps), the *)
(* engine's orchestrator mutex Mu, and everybody who takes them.           *)
(*                                                                         *)
(*   MessageLoop  processMessage (message_loop.go): takes Mu for a moment, *)
(*                then a slot as a user; reserves it while a tool runs.    *)
(*   Loops        the engine's heartbeat, routine and task loops, all      *)
(*                through runOrchestrator (engine.go): take a slot as      *)
(*                background work, then Mu, and keep Mu to the end.        *)
(*   Jobs         one round of runBackgroundJob (dispatch.go): prefers the *)
(*                Brain as a user and keeps its slot while tools run.      *)
(*   Requests     a call of SubagentClient or DeepThinkerClient: one slot  *)
(*                as background work, for the time of one completion.      *)
(*                                                                         *)
(* Between two steps of a caller any other caller may step.  The race of a *)
(* cancellation with a wakeup inside Acquire is the subject of PrioritySem *)
(* and one step here.                                                      *)
(***************************************************************************)
EXTENDS SemOps, FiniteSets

CONSTANTS
    NineSlots, BrainSlots,  \* slots of the two servers
    MessageLoop,            \* the message loop, in a set
    Loops,                  \* engine loops
    Jobs,                   \* background jobs
    Requests,               \* client calls outside the router
    DeepThinkers,           \* callers whose tool may be a synchronous deep_think
    Cancellable,            \* callers whose context can end
    MaxRounds,              \* bound on the tools of one call
    MaxCancels              \* bound on the reservations cancelled

Orchestrators == MessageLoop \cup Loops \cup Jobs
Callers == Orchestrators \cup Requests
Backends == {"nine", "brain"}
Free == "free"

ASSUME RouterAssumption ==
    /\ NineSlots \in Int /\ BrainSlots \in Int
    /\ IsFiniteSet(Callers) /\ \A m, n \in MessageLoop : m = n
    /\ MessageLoop \cap (Loops \cup Jobs \cup Requests) = {}
    /\ Loops \cap (Jobs \cup Requests) = {} /\ Jobs \cap Requests = {}
    /\ DeepThinkers \subseteq MessageLoop \cup Loops
    /\ Cancellable \subseteq Loops \cup Jobs
    /\ MaxRounds \in Nat /\ MaxCancels \in Nat

VARIABLES
    sem,     \* the semaphore of each backend
    mu,      \* the loop that holds Engine.Mu, or Free
    pc,      \* where each caller is
    be,      \* the backend whose slot the call uses; "none" if uncoordinated
    rounds,  \* tools the call has run
    done,    \* callers whose context has ended
    cancels  \* history: reservations cancelled on each backend

vars == <<sem, mu, pc, be, rounds, done, cancels>>

\* snapshot: waits for Mu to read the profile; try, retry, block: the steps of
\* AcquireOrFallback; wait: asleep in its Acquire; lock: owns a slot, waits for
\* Mu; think: the LLM answers; tool, toolDone: a tool runs or has run; asking,
\* served: a client call asleep in Acquire or owning a slot; rewait: asleep in
\* Reacquire; release: call over, slot still owned.
Phases == {"idle", "snapshot", "try", "retry", "block", "wait", "lock", "think",
           "tool", "toolDone", "asking", "served", "rewait", "release"}

IsUser(c) == c \in MessageLoop \cup Jobs
Goto(c, p) == pc' = [pc EXCEPT ![c] = p]
SetSem(b, s) == sem' = [sem EXCEPT ![b] = s]

Init ==
    /\ sem = [b \in Backends |->
                NewPrioritySem(IF b = "nine" THEN NineSlots ELSE BrainSlots)]
    /\ mu = Free
    /\ pc = [c \in Callers |-> "idle"]
    /\ be = [c \in Callers |-> "none"]
    /\ rounds = [c \in Callers |-> 0]
    /\ done = {}
    /\ cancels = [b \in Backends |-> 0]
-----------------------------------------------------------------------------
\* A message arrives, a ticker fires, a job begins a round.
Start(c) ==
    /\ c \in Orchestrators /\ pc[c] = "idle"
    /\ Goto(c, IF c \in MessageLoop THEN "snapshot" ELSE "try")
    /\ rounds' = [rounds EXCEPT ![c] = 0]
    /\ UNCHANGED <<sem, mu, be, done, cancels>>

\* processMessage locks Mu and unlocks it at once.
Snapshot(c) ==
    /\ pc[c] = "snapshot" /\ mu = Free
    /\ Goto(c, "try")
    /\ UNCHANGED <<sem, mu, be, rounds, done, cancels>>

\* AcquireOrFallback returned a choice: a loop goes on to Mu.
Chosen(c, b) ==
    /\ be' = [be EXCEPT ![c] = b]
    /\ Goto(c, IF c \in Loops THEN "lock" ELSE "think")

\* A non-blocking attempt on b; on failure the next attempt is at p.
Try(c, b, p) ==
    /\ IF Admits(sem[b], IsUser(c))
       THEN SetSem(b, Take(sem[b], IsUser(c))) /\ Chosen(c, b)
       ELSE Goto(c, p) /\ UNCHANGED <<sem, be>>
    /\ UNCHANGED <<mu, rounds, done, cancels>>

\* preferBrain is true for jobs only.
TryPreferred(c) ==
    /\ pc[c] = "try"
    /\ IF c \in Jobs THEN Try(c, "brain", "retry") ELSE Try(c, "nine", "block")

TrySecond(c) == pc[c] = "retry" /\ Try(c, "nine", "block")

\* Both strategies end with a blocking Acquire on the Brain.
BlockOnBrain(c) ==
    /\ pc[c] = "block"
    /\ IF Admits(sem["brain"], IsUser(c))
       THEN SetSem("brain", Take(sem["brain"], IsUser(c))) /\ Chosen(c, "brain")
       ELSE SetSem("brain", Enqueue(sem["brain"], c, IsUser(c)))
            /\ Goto(c, "wait") /\ UNCHANGED be
    /\ UNCHANGED <<mu, rounds, done, cancels>>

Wake(c) ==
    /\ pc[c] = "wait" /\ ~Queued(sem["brain"], c)
    /\ Chosen(c, "brain")
    /\ UNCHANGED <<sem, mu, rounds, done, cancels>>

\* Leave Acquire on a dead context: out of the queue, or give back the slot.
Abandon(s, c, user) == IF Queued(s, c) THEN RemoveWaiter(s, c, user) ELSE Release(s)

\* Mutant of CancelWait: the choice still releases the Brain.
CancelWaitCoordinated(c) ==
    /\ pc[c] = "wait" /\ c \in done
    /\ SetSem("brain", Abandon(sem["brain"], c, IsUser(c)))
    /\ Chosen(c, "brain")
    /\ UNCHANGED <<mu, rounds, done, cancels>>

\* The first wait is cancelled: uncoordinatedChoice, nothing to release.
CancelWait(c) ==
    /\ pc[c] = "wait" /\ c \in done
    /\ SetSem("brain", Abandon(sem["brain"], c, IsUser(c)))
    /\ Chosen(c, "none")
    /\ UNCHANGED <<mu, rounds, done, cancels>>

\* withOrchestratorLock.
Lock(c) ==
    /\ pc[c] = "lock" /\ mu = Free
    /\ mu' = c
    /\ Goto(c, "think")
    /\ UNCHANGED <<sem, be, rounds, done, cancels>>

\* The LLM decides on a tool.  The message loop and the engine loops give their
\* slot up (OnToolStart); a job has no such callback.  Mu is not given up.
ToolStart(c) ==
    /\ pc[c] = "think" /\ rounds[c] < MaxRounds
    /\ rounds' = [rounds EXCEPT ![c] = @ + 1]
    /\ IF c \in Jobs \/ be[c] = "none" THEN UNCHANGED sem
       ELSE SetSem(be[c], IF IsUser(c) THEN ReleaseReserved(sem[be[c]])
                                       ELSE Release(sem[be[c]]))
    /\ Goto(c, "tool")
    /\ UNCHANGED <<mu, be, done, cancels>>
-----------------------------------------------------------------------------
\* The backend of a client call: deep_think is served by the Brain.
Target(c) == IF c \in Requests THEN be[c] ELSE "brain"

\* A client call acquires its slot at background priority, on its own or from
\* inside a tool.
Ask(c, b) ==
    /\ \/ /\ c \in Requests /\ pc[c] = "idle"
          /\ be' = [be EXCEPT ![c] = b]
       \/ /\ c \in DeepThinkers /\ pc[c] = "tool" /\ b = "brain"
          /\ UNCHANGED be
    /\ IF Admits(sem[b], FALSE)
       THEN SetSem(b, Take(sem[b], FALSE)) /\ Goto(c, "served")
       ELSE SetSem(b, Enqueue(sem[b], c, FALSE)) /\ Goto(c, "asking")
    /\ UNCHANGED <<mu, rounds, done, cancels>>

AskGranted(c) ==
    /\ pc[c] = "asking" /\ ~Queued(sem[Target(c)], c)
    /\ Goto(c, "served")
    /\ UNCHANGED <<sem, mu, be, rounds, done, cancels>>

AskOver(c) ==
    /\ Goto(c, IF c \in Requests THEN "idle" ELSE "toolDone")
    /\ be' = IF c \in Requests THEN [be EXCEPT ![c] = "none"] ELSE be
    /\ UNCHANGED <<mu, rounds, done, cancels>>

AskCancelled(c) ==
    /\ pc[c] = "asking" /\ c \in done
    /\ SetSem(Target(c), Abandon(sem[Target(c)], c, FALSE))
    /\ AskOver(c)

AskDone(c) ==
    /\ pc[c] = "served"
    /\ SetSem(Target(c), Release(sem[Target(c)]))
    /\ AskOver(c)
-----------------------------------------------------------------------------
\* Mutant of Reacquire: the choice of the message loop reacquires as background.
ReacquireAsBackground(c) ==
    /\ pc[c] \in {"tool", "toolDone"}
    /\ IF c \in Jobs \/ be[c] = "none" THEN Goto(c, "think") /\ UNCHANGED sem
       ELSE LET s == sem[be[c]] IN
            IF Admits(s, FALSE)
            THEN SetSem(be[c], Take(s, FALSE)) /\ Goto(c, "think")
            ELSE SetSem(be[c], Enqueue(s, c, FALSE)) /\ Goto(c, "rewait")
    /\ UNCHANGED <<mu, be, rounds, done, cancels>>

\* OnToolEnd: Reacquire, on the backend of the choice.
Reacquire(c) ==
    /\ pc[c] \in {"tool", "toolDone"}
    /\ IF c \in Jobs \/ be[c] = "none" THEN Goto(c, "think") /\ UNCHANGED sem
       ELSE LET s == sem[be[c]] IN
            IF Admits(s, IsUser(c))
            THEN SetSem(be[c], Take(s, IsUser(c))) /\ Goto(c, "think")
            ELSE SetSem(be[c], Enqueue(s, c, IsUser(c))) /\ Goto(c, "rewait")
    /\ UNCHANGED <<mu, be, rounds, done, cancels>>

Rewake(c) ==
    /\ pc[c] = "rewait" /\ ~Queued(sem[be[c]], c)
    /\ Goto(c, "think")
    /\ UNCHANGED <<sem, mu, be, rounds, done, cancels>>

\* Reacquire fails: CancelReservation, and the flag acquired stays false.
CancelRewait(c) ==
    /\ pc[c] = "rewait" /\ c \in done
    /\ SetSem(be[c], CancelReservation(Abandon(sem[be[c]], c, IsUser(c))))
    /\ cancels' = IF sem[be[c]].reserved = 0 THEN cancels
                  ELSE [cancels EXCEPT ![be[c]] = @ + 1]
    /\ be' = [be EXCEPT ![c] = "none"]
    /\ Goto(c, "think")
    /\ UNCHANGED <<mu, rounds, done>>

\* QueryOrchestrator returns, with an answer or an error; Mu is unlocked first.
FinishCall(c) ==
    /\ pc[c] = "think"
    /\ mu' = IF mu = c THEN Free ELSE mu
    /\ Goto(c, "release")
    /\ UNCHANGED <<sem, be, rounds, done, cancels>>

\* The deferred choice.Release.
ReleaseSlot(c) ==
    /\ pc[c] = "release"
    /\ IF be[c] = "none" THEN UNCHANGED sem
       ELSE SetSem(be[c], Release(sem[be[c]]))
    /\ be' = [be EXCEPT ![c] = "none"]
    /\ Goto(c, "idle")
    /\ done' = done \ {c}
    /\ UNCHANGED <<mu, rounds, cancels>>

\* A routine times out or is killed, or cancel_job ends a job.
CtxDone(c) ==
    /\ c \in Cancellable \ done
    /\ pc[c] # "idle"
    /\ cancels["nine"] + cancels["brain"] < MaxCancels
    /\ done' = done \cup {c}
    /\ UNCHANGED <<sem, mu, pc, be, rounds, cancels>>

\* What a call that has started does next.
Proceed(c) ==
    \/ TryPreferred(c) \/ TrySecond(c) \/ BlockOnBrain(c) \/ Wake(c)
    \/ CancelWait(c) \/ ToolStart(c) \/ AskGranted(c) \/ AskCancelled(c)
    \/ AskDone(c) \/ Reacquire(c) \/ Rewake(c) \/ CancelRewait(c)
    \/ FinishCall(c) \/ ReleaseSlot(c)

Next == \E c \in Callers :
    \/ Start(c) \/ Snapshot(c) \/ Lock(c) \/ Proceed(c)
    \/ (\E b \in Backends : Ask(c, b)) \/ CtxDone(c)

Spec == Init /\ [][Next]_vars

\* Goroutines that can run do run, LLM calls and tools end.  sync.Mutex hands
\* itself to a waiter that starved for a millisecond: locking is strongly fair.
Fairness ==
    /\ \A c \in Callers : WF_vars(Proceed(c))
    /\ \A c \in MessageLoop : SF_vars(Snapshot(c))
    /\ \A c \in Loops : SF_vars(Lock(c))
FairSpec == Spec /\ Fairness
-----------------------------------------------------------------------------
\* The slots of b that a caller owns: for its call, and for a client call of a
\* tool it runs.
OwnsForCall(c, b) ==
    /\ c \in Orchestrators /\ be[c] = b
    /\ \/ pc[c] \in {"lock", "think", "release"}
       \/ pc[c] = "rewait" /\ ~Queued(sem[b], c)
       \/ c \in Jobs /\ pc[c] \in {"tool", "toolDone"}
WokenOnBrain(c, b) == b = "brain" /\ pc[c] = "wait" /\ ~Queued(sem[b], c)
OwnsForClient(c, b) ==
    /\ pc[c] \in {"asking", "served"} /\ Target(c) = b
    /\ ~Queued(sem[b], c)
Owned(b) ==
    Cardinality({c \in Callers : OwnsForCall(c, b) \/ WokenOnBrain(c, b)})
    + Cardinality({c \in Callers : OwnsForClient(c, b)})
Size(b) == Capacity(IF b = "nine" THEN NineSlots ELSE BrainSlots)

\* No backend ever serves more calls than it has slots, whichever way a call
\* came to its slot, router, reacquire or client, but for the slots that
\* CancelReservation creates.
BackendBound == \A b \in Backends : Owned(b) <= Size(b) + cancels[b]

\* When every call is over nothing is left behind: every slot is free, no
\* reservation is outstanding and nobody is queued, so each call gave back
\* exactly what it took, to the backend it took it from.
AllReturned ==
    (\A c \in Callers : pc[c] = "idle") =>
        /\ mu = Free
        /\ \A b \in Backends :
              sem[b] = [NewPrioritySem(Size(b)) EXCEPT !.avail = @ + cancels[b]]

\* Every message is answered: the message loop always comes back for the next
\* one.
MessageAnswered == \A c \in MessageLoop : pc[c] # "idle" ~> pc[c] = "idle"
=============================================================================
