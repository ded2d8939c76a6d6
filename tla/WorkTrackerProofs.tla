--------------------------- MODULE WorkTrackerProofs ---------------------------
(***************************************************************************)
(* Theorems about WorkTracker, for any sets of plans, routines and tasks,  *)
(* any number of slots, failed writes and crashes.                         *)
(***************************************************************************)
EXTENDS WorkTracker, TLAPS, FiniteSetTheorems

Statuses == {"none", "running", "completed", "failed", "cancelled"}
Places == {"none", "queued", "steps", "notify", "working",
           "saveCompleted", "saveFailed", "gone"}
Live == {"queued", "steps", "working"}

Typed ==
    /\ row \in [Work -> Statuses] /\ pc \in [Work -> Places]
    /\ ctx \in [Work -> {"live", "done"}]
    /\ hb \in {"idle", "dog", "launching", "down"}

\* Nothing is known of work that has not begun: an id is used once.
Fresh ==
    \A w \in Work : pc[w] = "none" =>
        /\ row[w] = "none"
        /\ w \notin overdue \cup dog \cup marking \cup active \cup cancelling

\* A goroutine that has written its verdict and still runs callbacks has a
\* closed row, or one whose write failed.
Closed == \A w \in Work : pc[w] = "notify" /\ row[w] = "running" => w \in unsaved

\* No process, no goroutines.
Down == hb = "down" => \A w \in Work : pc[w] \in {"none", "gone"}

\* While it works, a plan or a routine can be reached through its cancel
\* function, or its context has ended; it has ended before the row is closed
\* and before somebody outside is about to close it.
Reachable ==
    \A w \in Plans \cup Routines : pc[w] \in Live =>
        \/ ctx[w] = "done"
        \/ row[w] = "running" /\ w \in active /\ w \notin cancelling \cup marking

\* From the look of the heartbeat to its insert no pursuit runs.
OnePursuit ==
    /\ hb = "launching" => Running(Pursuits) = {}
    /\ \A v, w \in Running(Pursuits) : v = w

WInv == Typed /\ Fresh /\ Closed /\ Down /\ Reachable /\ RunningOwned /\ OnePursuit

\* The kinds of work.
LEMMA WorkParts ==
    /\ Plans \subseteq Work /\ Routines \subseteq Work /\ Tasks \subseteq Work
    /\ Pursuits \subseteq Plans
BY WorkAssumption DEF Work

\* A plan begins, queued for a slot.
LEMMA StartPlanStep ==
    ASSUME WInv, NEW w \in Plans, StartPlan(w) PROVE WInv'
<1>1. Typed'
  BY WorkParts DEF WInv, StartPlan, Insert, Goto, Typed, Statuses, Places
<1>2. Fresh'
  BY DEF WInv, StartPlan, Insert, Goto, Typed, Fresh
<1>3. Closed'
  BY DEF WInv, StartPlan, Insert, Goto, Typed, Closed
<1>4. Down'
  BY DEF StartPlan, Insert, MayBegin, Up, Down
<1>5. Reachable'
  BY DEF WInv, StartPlan, Insert, MayBegin, Goto, Typed, Fresh, Reachable
<1>6. RunningOwned'
  BY DEF WInv, StartPlan, Insert, Goto, Typed, RunningOwned, Running, Up
<1>7. OnePursuit'
  BY DEF WInv, StartPlan, Insert, OnePursuit, Running
<1>. QED  BY <1>1, <1>2, <1>3, <1>4, <1>5, <1>6, <1>7 DEF WInv

\* A routine begins in a goroutine of the heartbeat.
LEMMA StartRoutineStep ==
    ASSUME WInv, NEW w \in Routines, StartRoutine(w) PROVE WInv'
<1>1. Typed'
  BY WorkParts DEF WInv, StartRoutine, Insert, Goto, beat, Typed, Statuses, Places
<1>2. Fresh'
  BY DEF WInv, StartRoutine, Insert, Goto, beat, Typed, Fresh
<1>3. Closed'
  BY DEF WInv, StartRoutine, Insert, Goto, Closed
<1>4. Down'
  BY DEF StartRoutine, Insert, MayBegin, beat, Down, Up
<1>5. Reachable'
  BY DEF WInv, StartRoutine, Insert, MayBegin, Goto, beat, Typed, Fresh, Reachable
<1>6. RunningOwned'
  BY DEF WInv, StartRoutine, Insert, Goto, beat, Typed, RunningOwned, Running, Up
<1>7. OnePursuit'
  BY WorkAssumption DEF WInv, StartRoutine, Insert, beat, OnePursuit, Running
<1>. QED  BY <1>1, <1>2, <1>3, <1>4, <1>5, <1>6, <1>7 DEF WInv

\* A scheduled task begins; nothing can cancel it.
LEMMA StartTaskStep ==
    ASSUME WInv, NEW w \in Tasks, StartTask(w) PROVE WInv'
<1>1. Typed'
  BY WorkParts DEF WInv, StartTask, Insert, Goto, beat, Typed, Statuses, Places
<1>2. Fresh'
  BY DEF WInv, StartTask, Insert, Goto, beat, Typed, Fresh
<1>3. Closed'
  BY DEF WInv, StartTask, Insert, Goto, Closed
<1>4. Down'
  BY DEF StartTask, Insert, MayBegin, beat, Down, Up
<1>5. Reachable'
  BY WorkAssumption DEF WInv, StartTask, Insert, Goto, beat, Reachable
<1>6. RunningOwned'
  BY DEF WInv, StartTask, Insert, Goto, beat, Typed, RunningOwned, Running, Up
<1>7. OnePursuit'
  BY WorkAssumption DEF WInv, StartTask, Insert, beat, OnePursuit, Running
<1>. QED  BY <1>1, <1>2, <1>3, <1>4, <1>5, <1>6, <1>7 DEF WInv

\* The insert is applied but its answer is lost: a row without a goroutine.
LEMMA InsertUnansweredStep ==
    ASSUME WInv, NEW w \in Work, InsertUnanswered(w) PROVE WInv'
<1>1. Typed'
  BY DEF WInv, InsertUnanswered, Goto, Typed, Statuses, Places
<1>2. Fresh'
  BY DEF WInv, InsertUnanswered, Goto, Typed, Fresh
<1>3. Closed'
  BY DEF WInv, InsertUnanswered, Goto, Closed
<1>4. Down'
  BY DEF InsertUnanswered, MayBegin, Up, Down
<1>5. Reachable'
  BY DEF WInv, InsertUnanswered, Goto, Reachable, Live
<1>6. RunningOwned'
  BY DEF WInv, InsertUnanswered, Goto, RunningOwned, Running, Up
<1>7. OnePursuit'
  BY DEF WInv, InsertUnanswered, OnePursuit, Running
<1>. QED  BY <1>1, <1>2, <1>3, <1>4, <1>5, <1>6, <1>7 DEF WInv

\* The goroutine of a plan moves on.
LEMMA PlanMovesStep ==
    ASSUME WInv, NEW w \in Plans, PlanMoves(w) PROVE WInv'
<1>1. Typed'
  BY DEF WInv, PlanMoves, GetSlot, GiveUp, Step, ClosePlan, ExitPlan, Save, Goto, db,
       beat, Typed, Statuses, Places
<1>2. Fresh'
  BY DEF WInv, PlanMoves, GetSlot, GiveUp, Step, ClosePlan, ExitPlan, Save, Goto, db,
       beat, Typed, Fresh
<1>3. Closed'
  BY DEF WInv, PlanMoves, GetSlot, GiveUp, Step, ClosePlan, ExitPlan, Save, Goto, db,
       Typed, Closed, Running
<1>4. Down'
  BY DEF WInv, PlanMoves, GetSlot, GiveUp, Step, ClosePlan, ExitPlan, Goto, beat,
       Typed, Down
<1>5. Reachable'
  BY WorkParts DEF WInv, PlanMoves, GetSlot, GiveUp, Step, ClosePlan, ExitPlan, Save,
       Goto, db, beat, Typed, Reachable, Live
<1>6. RunningOwned'
  BY DEF WInv, PlanMoves, GetSlot, GiveUp, Step, ClosePlan, ExitPlan, Save, Goto, db,
       beat, Typed, Closed, RunningOwned, Running, Up
<1>7. OnePursuit'
  BY WorkParts DEF WInv, PlanMoves, GetSlot, GiveUp, Step, ClosePlan, ExitPlan, Save,
       db, beat, Typed, OnePursuit, Running
<1>. QED  BY <1>1, <1>2, <1>3, <1>4, <1>5, <1>6, <1>7 DEF WInv

\* The goroutine of a routine or a task moves on.
LEMMA WorkEndsStep ==
    ASSUME WInv, NEW w \in Routines \cup Tasks, EndWork(w) \/ SaveWork(w) PROVE WInv'
<1>1. Typed'
  BY DEF WInv, EndWork, SaveWork, Save, Goto, db, beat, Typed, Statuses, Places
<1>2. Fresh'
  BY DEF WInv, EndWork, SaveWork, Save, Goto, db, beat, Typed, Fresh
<1>3. Closed'
  BY DEF WInv, EndWork, SaveWork, Save, Goto, db, Typed, Closed
<1>4. Down'
  BY DEF WInv, EndWork, SaveWork, Goto, beat, Typed, Down
<1>5. Reachable'
  BY WorkParts DEF WInv, EndWork, SaveWork, Save, Goto, db, beat, Typed, Reachable, Live
<1>6. RunningOwned'
  BY DEF WInv, EndWork, SaveWork, Save, Goto, db, beat, Typed, RunningOwned, Running, Up
<1>7. OnePursuit'
  BY WorkParts DEF WInv, EndWork, SaveWork, Save, db, beat, Typed, OnePursuit, Running
<1>. QED  BY <1>1, <1>2, <1>3, <1>4, <1>5, <1>6, <1>7 DEF WInv

\* A cancellation, a deadline or the passing of time reaches the work.
LEMMA OutsideStep ==
    ASSUME WInv, NEW w \in Work,
           CancelContext(w) \/ CancelRow(w) \/ Deadline(w) \/ Overdue(w)
    PROVE  WInv'
<1>1. Typed'
  BY DEF WInv, CancelContext, CancelRow, Deadline, Overdue, Save, db, work, beat,
       Typed, Statuses
<1>2. Fresh'
  BY DEF WInv, CancelContext, CancelRow, Deadline, Overdue, Save, db, work, beat,
       Typed, Fresh
<1>3. Closed'
  BY DEF WInv, CancelContext, CancelRow, Deadline, Overdue, Save, db, work, Typed,
       Closed
<1>4. Down'
  BY DEF WInv, CancelContext, CancelRow, Deadline, Overdue, work, beat, Down
<1>5. Reachable'
  BY WorkParts DEF WInv, CancelContext, CancelRow, Deadline, Overdue, Save, db, work,
       beat, Typed, Reachable
<1>6. RunningOwned'
  BY DEF WInv, CancelContext, CancelRow, Deadline, Overdue, Save, db, work, beat,
       Typed, RunningOwned, Running, Up
<1>7. OnePursuit'
  BY WorkParts DEF WInv, CancelContext, CancelRow, Deadline, Overdue, Save, db, beat,
       Typed, OnePursuit, Running
<1>. QED  BY <1>1, <1>2, <1>3, <1>4, <1>5, <1>6, <1>7 DEF WInv

\* The watchdog reads the rows that are overdue.
LEMMA DogQueryStep ==
    ASSUME WInv, DogQuery PROVE WInv'
<1>1. Typed'
  BY DEF WInv, DogQuery, db, work, Typed
<1>2. Fresh'
  BY DEF WInv, DogQuery, db, work, Fresh
<1>3. Closed'
  BY DEF WInv, DogQuery, db, work, Closed
<1>4. Down'
  BY DEF DogQuery, Down
<1>5. Reachable'
  BY DEF WInv, DogQuery, db, work, Reachable
<1>6. RunningOwned'
  BY DEF WInv, DogQuery, db, work, RunningOwned, Running, Up
<1>7. OnePursuit'
  BY DEF WInv, DogQuery, db, OnePursuit, Running
<1>. QED  BY <1>1, <1>2, <1>3, <1>4, <1>5, <1>6, <1>7 DEF WInv

\* The watchdog cancels and marks a row it read.
LEMMA DogStep ==
    ASSUME WInv, \E w \in Work : DogCancel(w) \/ DogMark(w) PROVE WInv'
<1>1. Typed'
  BY DEF WInv, DogCancel, DogMark, Save, db, work, Typed, Statuses
<1>2. Fresh'
  BY DEF WInv, DogCancel, DogMark, Save, db, work, Typed, Fresh
<1>3. Closed'
  BY DEF WInv, DogCancel, DogMark, Save, db, work, Typed, Closed
<1>4. Down'
  BY DEF DogCancel, DogMark, Down
<1>5. Reachable'
  BY WorkParts DEF WInv, DogCancel, DogMark, Save, db, work, Typed, Reachable
<1>6. RunningOwned'
  BY DEF WInv, DogCancel, DogMark, Save, db, work, Typed, RunningOwned, Running, Up
<1>7. OnePursuit'
  BY WorkParts DEF WInv, DogCancel, DogMark, Save, db, Typed, OnePursuit, Running
<1>. QED  BY <1>1, <1>2, <1>3, <1>4, <1>5, <1>6, <1>7 DEF WInv

\* The heartbeat looks for a running pursuit, or ends its beat.
LEMMA PursueStep ==
    ASSUME WInv, Pursue \/ BeatEnds PROVE WInv'
<1>1. Typed'
  BY DEF WInv, Pursue, BeatEnds, db, work, Typed
<1>2. Fresh'
  BY DEF WInv, Pursue, BeatEnds, db, work, Fresh
<1>3. Closed'
  BY DEF WInv, Pursue, BeatEnds, db, work, Closed
<1>4. Down'
  BY DEF Pursue, BeatEnds, Down
<1>5. Reachable'
  BY DEF WInv, Pursue, BeatEnds, db, work, Reachable
<1>6. RunningOwned'
  BY DEF WInv, Pursue, BeatEnds, db, work, RunningOwned, Running, Up
<1>7. OnePursuit'
  BY DEF WInv, Pursue, BeatEnds, db, OnePursuit, Running
<1>. QED  BY <1>1, <1>2, <1>3, <1>4, <1>5, <1>6, <1>7 DEF WInv

\* A crash leaves rows behind, and nothing that moves.
LEMMA CrashStep ==
    ASSUME WInv, Crash PROVE WInv'
<1>1. Typed'
  BY DEF WInv, Crash, db, Typed, Places
<1>2. Fresh'
  BY DEF WInv, Crash, db, Fresh
<1>3. Closed'
  BY DEF Crash, Closed
<1>4. Down'
  BY DEF Crash, Down
<1>5. Reachable'
  BY WorkParts DEF Crash, Reachable
<1>6. RunningOwned'
  BY DEF Crash, RunningOwned, Up
<1>7. OnePursuit'
  BY DEF WInv, Crash, db, OnePursuit, Running
<1>. QED  BY <1>1, <1>2, <1>3, <1>4, <1>5, <1>6, <1>7 DEF WInv

\* The restart closes the rows the crash left.
LEMMA RestartStep ==
    ASSUME WInv, Restart PROVE WInv'
<1>1. Typed'
  BY DEF WInv, Restart, work, Typed, Statuses
<1>2. Fresh'
  BY DEF WInv, Restart, work, Fresh
<1>3. Closed'
  BY DEF Restart, Closed, Running
<1>4. Down'
  BY DEF Restart, Down
<1>5. Reachable'
  BY WorkParts DEF WInv, Restart, work, Down, Reachable, Live
<1>6. RunningOwned'
  BY DEF Restart, RunningOwned, Running
<1>7. OnePursuit'
  BY WorkParts DEF WInv, Restart, OnePursuit, Running
<1>. QED  BY <1>1, <1>2, <1>3, <1>4, <1>5, <1>6, <1>7 DEF WInv

\* At the start there is no work.
LEMMA WorkInit == Init => WInv
BY WorkParts DEF Init, WInv, Typed, Fresh, Closed, Down, Reachable, RunningOwned,
       OnePursuit, Running, Statuses, Places, Live, Up

\* Every step of the work, the watchdog and the user keeps the invariant.
LEMMA WorkNext == WInv /\ [Next]_vars => WInv'
<1>. SUFFICES ASSUME WInv, [Next]_vars PROVE WInv'
  OBVIOUS
<1>1. ASSUME NEW w \in Work, Begins(w) PROVE WInv'
  BY <1>1, StartPlanStep, StartRoutineStep, StartTaskStep DEF Begins
<1>2. ASSUME NEW w \in Work, Moves(w) PROVE WInv'
  BY <1>2, PlanMovesStep, WorkEndsStep DEF Moves
<1>3. ASSUME NEW w \in Work, Outside(w) PROVE WInv'
  BY <1>3, InsertUnansweredStep, OutsideStep DEF Outside
<1>4. CASE Watchdog
  BY <1>4, DogQueryStep, DogStep DEF Watchdog
<1>5. CASE Pursue \/ BeatEnds
  BY <1>5, PursueStep
<1>6. CASE Crash \/ Restart
  BY <1>6, CrashStep, RestartStep
<1>7. CASE UNCHANGED vars
  BY <1>7 DEF vars, db, work, beat, WInv, Typed, Fresh, Closed, Down, Reachable,
              RunningOwned, OnePursuit, Running, Up
<1>. QED  BY <1>1, <1>2, <1>3, <1>4, <1>5, <1>6, <1>7 DEF Next

\* The invariant behind the others: whatever the goroutines, the watchdog, the
\* heartbeat, cancellations and crashes do in whatever order, WInv holds.
THEOREM WorkInvariant == Spec => []WInv
BY WorkInit, WorkNext, PTL DEF Spec

\* A running row always has a goroutine that will write it, or a failed write
\* behind it, through crashes, cancellations and time-outs.
THEOREM RunningRowsOwned == Spec => []RunningOwned
<1>1. WInv => RunningOwned
  BY DEF WInv
<1>. QED  BY <1>1, WorkInvariant, PTL

\* Whoever closes the row of a plan or a routine has ended its context before.
THEOREM KilledWorkStops == Spec => []KilledStops
<1>1. WInv => KilledStops
  BY DEF WInv, Reachable, KilledStops, Live
<1>. QED  BY <1>1, WorkInvariant, PTL

\* No two pursuits of an objective run at once, though the heartbeat looks a
\* minute before it inserts.
THEOREM PursuitsOneByOne == Spec => []OneObjectiveRow
<1>1. WInv => OneObjectiveRow
  <2>. SUFFICES ASSUME OnePursuit PROVE OneObjectiveRow
    BY DEF WInv
  <2>1. CASE Running(Pursuits) = {}
    BY <2>1, FS_EmptySet DEF OneObjectiveRow
  <2>2. CASE Running(Pursuits) # {}
    <3>1. PICK v : Running(Pursuits) = {v}
      BY <2>2 DEF OnePursuit
    <3>. QED  BY <3>1, FS_Singleton DEF OneObjectiveRow
  <2>. QED  BY <2>1, <2>2
<1>. QED  BY <1>1, WorkInvariant, PTL
=============================================================================
