----------------------------- MODULE WorkTracker -----------------------------
(***************************************************************************)
(* Tracked work (worktracker/work_tracker.go): the work_items rows of      *)
(* background plans, routines and due tasks, and the goroutines that run   *)
(* them.                                                                   *)
(*                                                                         *)
(* A row says what the database believes; pc and ctx say what the process  *)
(* does.  They are written separately: the goroutine writes its row when   *)
(* it ends, the user's Cancel and the watchdog of the heartbeat write it   *)
(* from outside, any write may be lost, and a crash takes the goroutines   *)
(* and leaves the rows.  No write looks at the status it overwrites.       *)
(*                                                                         *)
(* A plan's steps (worktracker/plan_execute.go) are counted, not           *)
(* interpreted; the results' text, the notifications and the objective's   *)
(* own status are left out.  A row's id is used once.                      *)
(***************************************************************************)
EXTENDS Integers, FiniteSets

CONSTANTS
    Plans,       \* background plans
    Pursuits,    \* the plans the heartbeat launches for an objective
    Routines,    \* runs of routines
    Tasks,       \* runs of due tasks: tracked without a cancel function
    Cap,         \* capacity of WorkTracker.sem
    MaxSteps,    \* maxPlanSteps
    MaxReplan,   \* maxReplanSteps
    MaxItems,    \* bound on the items started
    MaxFails,    \* bound on the database writes that fail
    MaxCrashes   \* bound on the crashes

ASSUME WorkAssumption ==
    /\ Pursuits \subseteq Plans
    /\ Plans \cap Routines = {} /\ (Plans \cup Routines) \cap Tasks = {}
    /\ Cap \in Nat \ {0} /\ MaxSteps \in Nat \ {0} /\ MaxReplan \in Nat \ {0}
    /\ MaxItems \in Nat /\ MaxFails \in Nat /\ MaxCrashes \in Nat

Work == Plans \cup Routines \cup Tasks

VARIABLES
    row,        \* work_items.status; "none" before the insert
    overdue,    \* running rows whose timeout_at has passed
    pc,         \* what the goroutine of a work item does
    ctx,        \* "done" once its context was cancelled or expired
    active,     \* WorkTracker.active: items with a cancel function
    slots,      \* WorkTracker.sem: slots taken
    plan,       \* progress of executeSteps
    hb,         \* the heartbeat goroutine; "down" when there is no process
    dog,        \* rows the watchdog's query returned and it has not closed
    marking,    \* the row it cancelled and has not yet marked
    cancelling, \* the item whose context Cancel has ended, row not yet written;
                \* bound: one Cancel at a time
    unsaved,    \* history: running rows a failed write left behind
    fails, crashes

db == <<row, overdue, unsaved, fails>>
work == <<pc, ctx, active, slots, plan>>
beat == <<hb, dog, marking>>
vars == <<db, work, beat, cancelling, crashes>>

Idle == [at |-> 0, total |-> 0, succ |-> 0, streak |-> 0, replans |-> 0]

Init ==
    /\ row = [w \in Work |-> "none"] /\ overdue = {}
    /\ pc = [w \in Work |-> "none"] /\ ctx = [w \in Work |-> "done"]
    /\ active = {} /\ slots = 0 /\ plan = [w \in Plans |-> Idle]
    /\ hb = "idle" /\ dog = {} /\ marking = {} /\ cancelling = {}
    /\ unsaved = {} /\ fails = 0 /\ crashes = 0

Up == hb # "down"
Goto(w, p) == pc' = [pc EXCEPT ![w] = p]
Running(S) == {w \in S : row[w] = "running"}
MayBegin(w) ==
    Up /\ pc[w] = "none" /\ Cardinality({v \in Work : pc[v] # "none"}) < MaxItems
-----------------------------------------------------------------------------
\* updateWork: an unconditional UPDATE, whose error is only logged.
Save(w, status) ==
    \/ /\ row' = [row EXCEPT ![w] = status] /\ overdue' = overdue \ {w}
       /\ unsaved' = unsaved \ {w} /\ UNCHANGED fails
    \/ /\ fails < MaxFails /\ fails' = fails + 1
       /\ unsaved' = unsaved \cup Running({w})
       /\ UNCHANGED <<row, overdue>>

\* A row is inserted and its goroutine set up; cancellable says whether its
\* cancel function is registered.
Insert(w, p, cancellable) ==
    /\ MayBegin(w)
    /\ row' = [row EXCEPT ![w] = "running"]
    /\ Goto(w, p)
    /\ ctx' = [ctx EXCEPT ![w] = "live"]
    /\ active' = IF cancellable THEN active \cup {w} ELSE active
    /\ UNCHANGED <<overdue, unsaved, fails, slots, cancelling, crashes>>

\* Start, called by plan_and_execute, by a curiosity signal, or by the
\* heartbeat once its pursuit is decomposed into n steps.
StartPlan(w) ==
    /\ Insert(w, "queued", TRUE)
    /\ \E n \in 1..MaxSteps : plan' = [plan EXCEPT ![w] = [Idle EXCEPT !.total = n]]
    /\ IF w \in Pursuits THEN hb = "launching" /\ hb' = "idle" ELSE UNCHANGED hb
    /\ UNCHANGED <<dog, marking>>

\* executeSingleRoutine: one routine at a time, TrackStart then SetCancel.
StartRoutine(w) ==
    /\ \A v \in Routines : pc[v] \in {"none", "gone"}
    /\ Insert(w, "working", TRUE)
    /\ UNCHANGED <<plan, beat>>

\* executeTask: one task at a time, TrackStart without SetCancel.
StartTask(w) ==
    /\ \A v \in Tasks : pc[v] \in {"none", "gone"}
    /\ Insert(w, "working", FALSE)
    /\ UNCHANGED <<plan, beat>>

\* The INSERT is applied but its answer is lost (its context lasts 5 s): the
\* row runs and has no goroutine.
InsertUnanswered(w) ==
    /\ MayBegin(w) /\ fails < MaxFails
    /\ IF w \in Pursuits THEN hb = "launching" /\ hb' = "idle" ELSE UNCHANGED hb
    /\ row' = [row EXCEPT ![w] = "running"]
    /\ Goto(w, "gone")
    /\ unsaved' = unsaved \cup {w} /\ fails' = fails + 1
    /\ UNCHANGED <<overdue, ctx, active, slots, plan, dog, marking, cancelling, crashes>>
-----------------------------------------------------------------------------
\* The goroutine of a plan gets one of the Cap slots.
GetSlot(w) ==
    /\ pc[w] = "queued" /\ slots < Cap
    /\ slots' = slots + 1
    /\ Goto(w, "steps")
    /\ UNCHANGED <<db, ctx, active, plan, beat, cancelling, crashes>>

\* Its context ends first; nobody is told.
GiveUp(w) ==
    /\ pc[w] = "queued" /\ ctx[w] = "done"
    /\ Save(w, "failed")
    /\ active' = active \ {w}
    /\ Goto(w, "gone") /\ plan' = [plan EXCEPT ![w] = Idle]
    /\ UNCHANGED <<ctx, slots, beat, cancelling, crashes>>

StepsLeft(p) == p.total - p.at
\* Is the plan worth another plan?  p counts the step that has just failed.
ShouldReplan(p) ==
    /\ p.replans = 0 /\ StepsLeft(p) > 0
    /\ p.streak >= 2 \/ StepsLeft(p) <= 2

\* What executeSteps makes of p with one more step: it succeeds, or fails and
\* perhaps replaces the steps that are left.
Succeeded(p) == [p EXCEPT !.at = @ + 1, !.succ = @ + 1, !.streak = 0]
Failed(p) == [p EXCEPT !.at = @ + 1, !.streak = @ + 1]
Replanned(p) ==
    {[p EXCEPT !.total = p.at + n, !.replans = @ + 1] : n \in 1..MaxReplan}
AfterStep(p) ==
    {Succeeded(p), Failed(p)}
        \cup IF ShouldReplan(Failed(p)) THEN Replanned(Failed(p)) ELSE {}

\* One iteration of executeSteps.
Step(w) ==
    /\ pc[w] = "steps" /\ StepsLeft(plan[w]) > 0 /\ ctx[w] = "live"
    /\ \E p \in AfterStep(plan[w]) : plan' = [plan EXCEPT ![w] = p]
    /\ UNCHANGED <<db, pc, ctx, active, slots, beat, cancelling, crashes>>

\* executeSteps returns, when no step is left or the context has ended, and
\* the plan writes its verdict: one success is enough.
ClosePlan(w) ==
    /\ pc[w] = "steps" /\ (StepsLeft(plan[w]) = 0 \/ ctx[w] = "done")
    /\ Save(w, IF plan[w].succ = 0 THEN "failed" ELSE "completed")
    /\ plan' = [plan EXCEPT ![w] = Idle]
    /\ Goto(w, "notify")
    /\ UNCHANGED <<ctx, active, slots, beat, cancelling, crashes>>

\* The callbacks have run; the deferred calls return the slot, end the
\* context and forget the cancel function.
ExitPlan(w) ==
    /\ pc[w] = "notify"
    /\ slots' = slots - 1 /\ active' = active \ {w}
    /\ ctx' = [ctx EXCEPT ![w] = "done"]
    /\ Goto(w, "gone")
    /\ UNCHANGED <<db, plan, beat, cancelling, crashes>>
-----------------------------------------------------------------------------
\* The run of a routine or a task is over.  TrackEnd forgets the cancel
\* function; a routine reports the state of its context, a task that of the
\* transaction that completes it.
EndWork(w) ==
    /\ pc[w] = "working"
    /\ active' = active \ {w}
    /\ \E verdict \in {"saveCompleted", "saveFailed"} :
        /\ w \in Routines => (verdict = "saveFailed" <=> ctx[w] = "done")
        /\ Goto(w, verdict)
    /\ UNCHANGED <<db, ctx, slots, plan, beat, cancelling, crashes>>

\* ... and TrackEnd writes it; the deferred cancel follows.
SaveWork(w) ==
    /\ pc[w] \in {"saveCompleted", "saveFailed"}
    /\ Save(w, IF pc[w] = "saveCompleted" THEN "completed" ELSE "failed")
    /\ ctx' = [ctx EXCEPT ![w] = "done"]
    /\ Goto(w, "gone")
    /\ UNCHANGED <<active, slots, plan, beat, cancelling, crashes>>

\* The deadline of a plan or a routine passes.
Deadline(w) ==
    /\ w \notin Tasks /\ pc[w] \in {"queued", "steps", "working"}
    /\ ctx[w] = "live" /\ ctx' = [ctx EXCEPT ![w] = "done"]
    /\ UNCHANGED <<db, pc, active, slots, plan, beat, cancelling, crashes>>

\* timeout_at passes.
Overdue(w) ==
    /\ row[w] = "running" /\ w \notin overdue
    /\ overdue' = overdue \cup {w}
    /\ UNCHANGED <<row, unsaved, fails, work, beat, cancelling, crashes>>
-----------------------------------------------------------------------------
\* Mutant of CancelContext: the row is written first.
CancelRowFirst(w) ==
    /\ w \in active /\ cancelling = {}
    /\ row' = [row EXCEPT ![w] = "cancelled"] /\ overdue' = overdue \ {w}
    /\ unsaved' = unsaved \ {w} /\ cancelling' = {w}
    /\ UNCHANGED <<fails, work, beat, crashes>>

\* Cancel, called through check_background_task: it ends the context of an
\* active item ...
CancelContext(w) ==
    /\ w \in active /\ cancelling = {}
    /\ ctx' = [ctx EXCEPT ![w] = "done"]
    /\ cancelling' = {w}
    /\ UNCHANGED <<db, pc, active, slots, plan, beat, crashes>>

\* ... then writes the row, whatever it says by now, and forgets the item.
CancelRow(w) ==
    /\ w \in cancelling
    /\ Save(w, "cancelled")
    /\ active' = active \ {w} /\ cancelling' = {}
    /\ UNCHANGED <<pc, ctx, slots, plan, beat, crashes>>

\* Mutant of DogQuery: only the items this process knows.
DogQueryActive ==
    /\ hb = "idle" /\ hb' = "dog"
    /\ dog' = overdue \cap active
    /\ UNCHANGED <<db, work, marking, cancelling, crashes>>

\* A heartbeat begins with KillHungWork: it reads the overdue rows ...
DogQuery ==
    /\ hb = "idle" /\ hb' = "dog"
    /\ dog' = overdue
    /\ UNCHANGED <<db, work, marking, cancelling, crashes>>

\* ... then, for each, it ends the context under the lock ...
DogCancel(w) ==
    /\ hb = "dog" /\ w \in dog /\ marking = {}
    /\ ctx' = IF w \in active THEN [ctx EXCEPT ![w] = "done"] ELSE ctx
    /\ active' = active \ {w}
    /\ marking' = {w}
    /\ UNCHANGED <<db, pc, slots, plan, hb, dog, cancelling, crashes>>

\* ... and writes the row, which may have been closed since it was read.
DogMark(w) ==
    /\ hb = "dog" /\ w \in marking
    /\ Save(w, "failed")
    /\ dog' = dog \ {w} /\ marking' = {}
    /\ UNCHANGED <<work, hb, cancelling, crashes>>

\* Mutant of Pursue: it does not look for a running pursuit.
PursueAnyway ==
    /\ hb = "dog" /\ dog = {} /\ hb' = "launching"
    /\ UNCHANGED <<db, work, dog, marking, cancelling, crashes>>

\* runObjectivePursuitIfReady, later in the same heartbeat: no row of a
\* pursuit runs, so one is launched.  Decomposing it takes up to a minute.
Pursue ==
    /\ hb = "dog" /\ dog = {} /\ Running(Pursuits) = {}
    /\ hb' = "launching"
    /\ UNCHANGED <<db, work, dog, marking, cancelling, crashes>>

\* The heartbeat ends without launching a pursuit: none is due, one runs, or
\* decomposing it or inserting its row failed.
BeatEnds ==
    /\ hb = "launching" \/ (hb = "dog" /\ dog = {})
    /\ hb' = "idle"
    /\ UNCHANGED <<db, work, dog, marking, cancelling, crashes>>
-----------------------------------------------------------------------------
\* The process dies; the rows stay.
Crash ==
    /\ Up /\ crashes < MaxCrashes /\ crashes' = crashes + 1
    /\ hb' = "down" /\ dog' = {} /\ marking' = {} /\ cancelling' = {}
    /\ pc' = [w \in Work |-> IF pc[w] = "none" THEN "none" ELSE "gone"]
    /\ ctx' = [w \in Work |-> "done"]
    /\ active' = {} /\ slots' = 0 /\ plan' = [w \in Plans |-> Idle]
    /\ UNCHANGED db

\* Mutant of Restart: no CleanupOrphans.
RestartLeavesOrphans ==
    /\ hb = "down" /\ hb' = "idle"
    /\ UNCHANGED <<db, work, dog, marking, cancelling, crashes>>

\* A new process runs CleanupOrphans before the engine starts.
Restart ==
    /\ hb = "down" /\ hb' = "idle"
    /\ \/ /\ row' = [w \in Work |-> IF row[w] = "running" THEN "failed" ELSE row[w]]
          /\ overdue' = {} /\ unsaved' = {}
          /\ UNCHANGED fails
       \/ /\ fails < MaxFails /\ fails' = fails + 1
          /\ unsaved' = unsaved \cup Running(Work)
          /\ UNCHANGED <<row, overdue>>
    /\ UNCHANGED <<work, dog, marking, cancelling, crashes>>
-----------------------------------------------------------------------------
PlanMoves(w) ==
    GetSlot(w) \/ GiveUp(w) \/ Step(w) \/ ClosePlan(w) \/ ExitPlan(w)
Begins(w) ==
    \/ w \in Plans /\ StartPlan(w)
    \/ w \in Routines /\ StartRoutine(w)
    \/ w \in Tasks /\ StartTask(w)
Moves(w) ==
    \/ w \in Plans /\ PlanMoves(w)
    \/ w \in Routines \cup Tasks /\ (EndWork(w) \/ SaveWork(w))
Outside(w) ==
    InsertUnanswered(w) \/ CancelContext(w) \/ CancelRow(w) \/ Deadline(w) \/ Overdue(w)
Watchdog == DogQuery \/ \E w \in Work : DogCancel(w) \/ DogMark(w)

Next ==
    \/ \E w \in Work : Begins(w) \/ Moves(w) \/ Outside(w)
    \/ Watchdog \/ Pursue \/ BeatEnds
    \/ Crash \/ Restart

Spec == Init /\ [][Next]_vars

\* The heartbeat's ticker goes on, a process that died is started again, and
\* timeouts pass.  Nothing is assumed of the work: it may hang.
FairSpec ==
    /\ Spec
    /\ WF_vars(Watchdog) /\ WF_vars(BeatEnds) /\ WF_vars(Restart)
    /\ \A w \in Work : WF_vars(Overdue(w))
-----------------------------------------------------------------------------
\* Every running row has a goroutine of this process that will write it, or
\* is one that a failed write left behind: a crash, a cancellation, a timeout
\* in the queue leave no other (CleanupOrphans, TrackEnd, updateWork).
RunningOwned ==
    Up => \A w \in Running(Work) : pc[w] \notin {"none", "gone"} \/ w \in unsaved

\* A plan or a routine whose row somebody closed under it no longer works
\* with a live context (Cancel and KillHungWork end the context first).
KilledStops ==
    \A w \in Plans \cup Routines :
        pc[w] \in {"queued", "steps", "working"} /\ row[w] # "running" => ctx[w] = "done"

\* At most one pursuit's row runs, though the heartbeat looks for one a
\* minute before it inserts the next (runObjectivePursuitIfReady).
OneObjectiveRow == Cardinality(Running(Pursuits)) <= 1

\* Whatever happens to its goroutine or its writes, no row runs for ever.
Settles == \A w \in Work : (row[w] = "running") ~> (row[w] # "running")
=============================================================================
