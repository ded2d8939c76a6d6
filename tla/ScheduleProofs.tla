---------------------------- MODULE ScheduleProofs ----------------------------
(***************************************************************************)
(* What the two schedulers run: safety of the scheduled tasks, for any     *)
(* number of series, any bound on time, failures and crashes, and of the   *)
(* routines, for any number of them and any edits, commands and faults.    *)
(***************************************************************************)
EXTENDS TaskScheduler, Routines, TLAPS

\* The row the goroutine runs was written once and is the last of its series.
Known == pending \cup done
LastOf(t) == \A u \in Known : u[1] = t[1] => u[2] <= t[2]

\* A pending row is the last of its series, and so is a row that is run, even
\* after the user completed it.
ChainInv ==
    /\ pending \cap done = {}
    /\ \A t \in pending : LastOf(t)
    /\ pc \in {"run", "finish"} => task \in Known /\ LastOf(task)

\* What has been sent of a row, by where it stands.
SentInv ==
    /\ \A t \in Occurrences : sent[t] <= 1 + fails + crashes
    /\ \A t \in pending : (pc = "finish" /\ t = task) \/ sent[t] <= fails + crashes
    /\ \A t \in Occurrences : t \notin Known => sent[t] = 0
    /\ \A t \in done : sent[t] > 0 \/ t \in userDone
    /\ pc = "run" => sent[task] <= fails + crashes
    /\ pc = "finish" => sent[task] > 0

\* With no signal on its way, what the goroutine has read is still so.
ReadInv ==
    buffer = 0 /\ signalling = 0 =>
        /\ pc \in {"decide", "blocked"} /\ task = NoTask => Dated(pending) = {}
        /\ pc \in {"decide", "waiting"} /\ task # NoTask => task \in Earliest(Dated(pending))
        /\ pc = "blocked" => task = NoTask
BlockedInv == pc \in {"blocked", "fetch", "down"} => task = NoTask

\* An occurrence is a series and a number.
LEMMA OccurrencePair ==
    ASSUME NEW t \in Occurrences
    PROVE  /\ t[1] \in Series /\ t[2] \in 1..MaxOcc
           /\ t[2] \in Nat /\ t = <<t[1], t[2]>>
  BY SchedulerAssumption DEF Occurrences

\* No occurrence is the empty sequence that stands for "no row".
LEMMA NoTaskIsNone == NoTask \notin Occurrences
  BY DEF Occurrences, NoTask

\* After a run that may have a successor, the successor is an occurrence.
LEMMA SuccessorOccurs ==
    ASSUME NEW P \in SUBSET Occurrences, NEW t \in Occurrences, t[2] < MaxOcc
    PROVE  Successors(P, t) \subseteq Occurrences
  <1>1. t[1] \in Series /\ t[2] + 1 \in 1..MaxOcc
    BY OccurrencePair, SchedulerAssumption
  <1>2. <<t[1], t[2] + 1>> \in Occurrences
    BY <1>1 DEF Occurrences
  <1> QED BY <1>2 DEF Successors

-----------------------------------------------------------------------------
\* Every step keeps the types.
LEMMA TypeStep == TypeOK /\ [Next]_vars => TypeOK'
  <1> SUFFICES ASSUME TypeOK, [Next]_vars PROVE TypeOK'
    OBVIOUS
  <1> USE SchedulerAssumption, NoTaskIsNone DEF TypeOK, rows, sched, chan, hist
  <1>1. ASSUME NEW s \in Series, AddTask(s) PROVE TypeOK'
    <2>1. <<s, 1>> \in Occurrences
      BY DEF Occurrences
    <2>2. first' \in [Series -> Nat]
      BY <1>1 DEF AddTask, Undated
    <2> QED BY <1>1, <2>1, <2>2 DEF AddTask
  <1>2. ASSUME NEW t \in pending, CompleteTask(t) PROVE TypeOK'
    BY <1>2 DEF CompleteTask
  <1>3. CASE Signal
    BY <1>3 DEF Signal
  <1>4. CASE Fetch
    BY <1>4 DEF Fetch, Candidates, Earliest, Dated
  <1>5. CASE Decide
    BY <1>5 DEF Decide
  <1>6. CASE Interrupted
    BY <1>6 DEF Interrupted
  <1>7. CASE Timer
    BY <1>7 DEF Timer
  <1>8. CASE Check
    BY <1>8 DEF Check
  <1>9. CASE Run
    BY <1>9 DEF Run
  <1>10. CASE Finish
    <2>1. task \in Occurrences /\ task[2] < MaxOcc
      BY <1>10 DEF Finish
    <2>2. Successors(pending \ {task}, task) \subseteq Occurrences
      BY <2>1, SuccessorOccurs
    <2> QED BY <1>10, <2>1, <2>2 DEF Finish
  <1>11. CASE Tick
    BY <1>11 DEF Tick
  <1>12. CASE Crash
    BY <1>12 DEF Crash
  <1>13. CASE Restart
    BY <1>13 DEF Restart
  <1>14. CASE UNCHANGED vars
    BY <1>14 DEF vars
  <1> QED
    BY <1>1, <1>2, <1>3, <1>4, <1>5, <1>6, <1>7, <1>8, <1>9, <1>10, <1>11,
       <1>12, <1>13, <1>14 DEF Next, Scheduler

\* The initial state is typed.
LEMMA TypeInit == Init => TypeOK
  BY SchedulerAssumption DEF Init, TypeOK, Undated, NoTask

\* The scheduler's state is well formed: rows are occurrences of added series
\* and the goroutine holds a row exactly where it works on one.
THEOREM TasksTyped == Spec => []TypeOK
  BY TypeInit, TypeStep, PTL DEF Spec
-----------------------------------------------------------------------------
\* Every step keeps a series in one chain whose last row alone is pending.
LEMMA ChainStep == TypeOK /\ ChainInv /\ [Next]_vars => ChainInv'
  <1> SUFFICES ASSUME TypeOK, ChainInv, [Next]_vars PROVE ChainInv'
    OBVIOUS
  <1> USE DEF ChainInv, LastOf, Known, rows, sched, chan, hist
  <1>1. ASSUME NEW s \in Series, AddTask(s) PROVE ChainInv'
    <2>1. \A u \in Known : u[1] # s
      BY <1>1 DEF AddTask, Added
    <2>2. <<s, 1>>[1] = s /\ <<s, 1>>[2] = 1
      OBVIOUS
    <2> QED BY <1>1, <2>1, <2>2 DEF AddTask
  <1>2. ASSUME NEW t \in pending, CompleteTask(t) PROVE ChainInv'
    BY <1>2 DEF CompleteTask
  <1>3. CASE Signal
    BY <1>3 DEF Signal
  <1>4. CASE Fetch
    BY <1>4 DEF Fetch
  <1>5. CASE Decide
    BY <1>5 DEF Decide
  <1>6. CASE Interrupted
    BY <1>6 DEF Interrupted
  <1>7. CASE Timer
    BY <1>7 DEF Timer
  <1>8. CASE Check
    BY <1>8 DEF Check
  <1>9. CASE Run
    BY <1>9 DEF Run
  <1>10. CASE Finish
    <2>1. task \in Known /\ LastOf(task) /\ pc' = "fetch"
      BY <1>10 DEF Finish
    <2>2. CASE UNCHANGED <<pending, done>>
      BY <2>1, <2>2
    <2>3. CASE done' = done \cup {task} /\ pending' = Successors(pending \ {task}, task)
      <3> DEFINE succ == <<task[1], task[2] + 1>>
      <3>1. task \in Occurrences /\ task[2] \in Nat
        BY <2>1, OccurrencePair DEF TypeOK
      <3>2. \A u \in Known : u[2] \in Nat
        BY OccurrencePair DEF TypeOK
      <3>3. succ[1] = task[1] /\ succ[2] = task[2] + 1 /\ succ \notin Known
        BY <2>1, <3>1, <3>2
      <3>4. pending' \subseteq (pending \ {task}) \cup {succ}
        BY <2>3 DEF Successors
      <3>5. Known' \subseteq Known \cup {succ} /\ pending' \cap done' = {}
        BY <2>1, <2>3, <3>3, <3>4
      <3>6. ASSUME NEW t \in pending' PROVE LastOf(t)'
        <4>1. CASE t = succ
          BY <2>1, <3>1, <3>2, <3>3, <3>5, <4>1
        <4>2. CASE t \in pending \ {task}
          <5>1. t[1] # task[1]
            <6> SUFFICES ASSUME t[1] = task[1] PROVE FALSE
              OBVIOUS
            <6>1. t[2] = task[2]
              BY <2>1, <3>1, <3>2, <4>2
            <6>2. t = <<t[1], t[2]>> /\ task = <<task[1], task[2]>>
              BY <3>1, <4>2, OccurrencePair DEF TypeOK
            <6> QED BY <4>2, <6>1, <6>2
          <5> QED BY <3>3, <3>5, <4>2, <5>1
        <4> QED BY <3>4, <4>1, <4>2
      <3> QED BY <2>1, <3>5, <3>6
    <2> QED BY <1>10, <2>2, <2>3 DEF Finish
  <1>11. CASE Tick
    BY <1>11 DEF Tick
  <1>12. CASE Crash
    BY <1>12 DEF Crash
  <1>13. CASE Restart
    BY <1>13 DEF Restart
  <1>14. CASE UNCHANGED vars
    BY <1>14 DEF vars
  <1> QED
    BY <1>1, <1>2, <1>3, <1>4, <1>5, <1>6, <1>7, <1>8, <1>9, <1>10, <1>11,
       <1>12, <1>13, <1>14 DEF Next, Scheduler

\* Every step keeps the count of what was sent.
LEMMA SentStep == TypeOK /\ ChainInv /\ SentInv /\ [Next]_vars => SentInv'
  <1> SUFFICES ASSUME TypeOK, ChainInv, SentInv, [Next]_vars PROVE SentInv'
    OBVIOUS
  <1> USE SchedulerAssumption DEF SentInv, Known, TypeOK, rows, sched, chan, hist
  <1>1. ASSUME NEW s \in Series, AddTask(s) PROVE SentInv'
    <2>1. <<s, 1>> \in Occurrences /\ <<s, 1>> \notin Known
      BY <1>1 DEF AddTask, Added, Occurrences
    <2> QED BY <1>1, <2>1 DEF AddTask
  <1>2. ASSUME NEW t \in pending, CompleteTask(t) PROVE SentInv'
    BY <1>2 DEF CompleteTask
  <1>3. CASE Signal
    BY <1>3 DEF Signal
  <1>4. CASE Fetch
    BY <1>4 DEF Fetch
  <1>5. CASE Decide
    BY <1>5 DEF Decide
  <1>6. CASE Interrupted
    BY <1>6 DEF Interrupted
  <1>7. CASE Timer
    BY <1>7 DEF Timer
  <1>8. CASE Check
    BY <1>8 DEF Check
  <1>9. CASE Run
    <2>1. task \in Known /\ task \in Occurrences
      BY <1>9, NoTaskIsNone DEF Run, ChainInv
    <2>2. sent' = [sent EXCEPT ![task] = @ + 1] /\ pc' = "finish"
      BY <1>9 DEF Run
    <2> QED BY <1>9, <2>1, <2>2 DEF Run
  <1>10. CASE Finish
    <2>1. task \in Known /\ task \in Occurrences /\ LastOf(task) /\ sent[task] > 0
      BY <1>10, NoTaskIsNone DEF Finish, ChainInv
    <2>2. CASE fails' = fails + 1 /\ UNCHANGED <<pending, done>>
      BY <1>10, <2>1, <2>2 DEF Finish
    <2>3. CASE /\ done' = done \cup {task} /\ UNCHANGED fails
               /\ pending' = Successors(pending \ {task}, task)
      <3> DEFINE succ == <<task[1], task[2] + 1>>
      <3>1. task[2] < MaxOcc /\ task[2] \in Nat
        BY <1>10, <2>1, OccurrencePair DEF Finish
      <3>2. succ \in Occurrences
        BY <2>1, <3>1, OccurrencePair DEF Occurrences
      <3>3. succ \notin Known
        BY <2>1, <3>1 DEF LastOf
      <3>4. /\ pending' \subseteq (pending \ {task}) \cup {succ}
            /\ Known \subseteq Known' /\ sent[succ] = 0
        BY <2>1, <2>3, <3>2, <3>3 DEF Successors
      <3>5. /\ sent' = sent /\ userDone' = userDone /\ pc' = "fetch"
            /\ fails' = fails /\ crashes' = crashes
        BY <1>10, <2>3 DEF Finish
      <3>6. \A t \in pending' : sent'[t] <= fails' + crashes'
        BY <3>4, <3>5
      <3>7. \A t \in Occurrences : t \notin Known' => sent'[t] = 0
        BY <3>4, <3>5
      <3>8. \A t \in done' : sent'[t] > 0 \/ t \in userDone'
        BY <2>1, <2>3, <3>5
      <3> QED BY <3>5, <3>6, <3>7, <3>8
    <2> QED BY <1>10, <2>2, <2>3 DEF Finish
  <1>11. CASE Tick
    BY <1>11 DEF Tick
  <1>12. CASE Crash
    BY <1>12 DEF Crash
  <1>13. CASE Restart
    BY <1>13 DEF Restart
  <1>14. CASE UNCHANGED vars
    BY <1>14 DEF vars
  <1> QED
    BY <1>1, <1>2, <1>3, <1>4, <1>5, <1>6, <1>7, <1>8, <1>9, <1>10, <1>11,
       <1>12, <1>13, <1>14 DEF Next, Scheduler

\* Every step keeps the goroutine informed or about to be.
LEMMA ReadStep ==
    TypeOK /\ ReadInv /\ BlockedInv /\ [Next]_vars => (ReadInv /\ BlockedInv)'
  <1> SUFFICES ASSUME TypeOK, ReadInv, BlockedInv, [Next]_vars
               PROVE  (ReadInv /\ BlockedInv)'
    OBVIOUS
  <1> USE DEF ReadInv, BlockedInv, TypeOK, rows, sched, chan, hist
  <1>1. ASSUME NEW s \in Series, AddTask(s) PROVE (ReadInv /\ BlockedInv)'
    BY <1>1 DEF AddTask
  <1>2. ASSUME NEW t \in pending, CompleteTask(t) PROVE (ReadInv /\ BlockedInv)'
    BY <1>2 DEF CompleteTask
  <1>3. CASE Signal
    BY <1>3 DEF Signal
  <1>4. CASE Fetch
    <2>1. first' = first /\ pending' = pending /\ pc' = "decide"
      BY <1>4 DEF Fetch
    <2>2. CASE Candidates = {} /\ task' = NoTask
      BY <2>1, <2>2 DEF Candidates, Dated
    <2>3. CASE task' \in Earliest(Candidates)
      <3>1. task' \in Earliest(Dated(pending)) /\ task' # NoTask
        BY <2>3, NoTaskIsNone DEF Candidates, Earliest, Dated
      <3> QED BY <2>1, <3>1 DEF Dated, Earliest, Due
    <2> QED BY <1>4, <2>2, <2>3 DEF Fetch
  <1>5. CASE Decide
    BY <1>5 DEF Decide, Dated, Earliest, Due
  <1>6. CASE Interrupted
    BY <1>6 DEF Interrupted
  <1>7. CASE Timer
    BY <1>7 DEF Timer
  <1>8. CASE Check
    BY <1>8 DEF Check
  <1>9. CASE Run
    BY <1>9 DEF Run
  <1>10. CASE Finish
    BY <1>10 DEF Finish
  <1>11. CASE Tick
    BY <1>11 DEF Tick, Dated, Earliest, Due
  <1>12. CASE Crash
    BY <1>12 DEF Crash
  <1>13. CASE Restart
    BY <1>13 DEF Restart
  <1>14. CASE UNCHANGED vars
    BY <1>14 DEF vars, Dated, Earliest, Due
  <1> QED
    BY <1>1, <1>2, <1>3, <1>4, <1>5, <1>6, <1>7, <1>8, <1>9, <1>10, <1>11,
       <1>12, <1>13, <1>14 DEF Next, Scheduler

\* A recurrence goes on until the user completes one of its rows.
LEMMA GoesOnStep ==
    TypeOK /\ RecurrenceGoesOn /\ [Next]_vars => RecurrenceGoesOn'
  <1> SUFFICES ASSUME TypeOK, RecurrenceGoesOn, [Next]_vars PROVE RecurrenceGoesOn'
    OBVIOUS
  <1>1. ASSUME NEW s \in Series, AddTask(s) PROVE RecurrenceGoesOn'
    <2>1. <<s, 1>>[1] = s /\ <<s, 1>> \in pending'
      BY <1>1 DEF AddTask
    <2>2. Added' = Added \cup {s} /\ pending \subseteq pending' /\ userDone' = userDone
      BY <1>1, <2>1 DEF AddTask, Added, hist
    <2> QED BY <2>1, <2>2 DEF RecurrenceGoesOn
  <1>2. ASSUME NEW t \in pending, CompleteTask(t) PROVE RecurrenceGoesOn'
    BY <1>2 DEF CompleteTask, RecurrenceGoesOn, Added
  <1>3. CASE Finish
    <2>1. CASE UNCHANGED <<pending, done, userDone>>
      BY <2>1 DEF RecurrenceGoesOn, Added
    <2>2. CASE /\ done' = done \cup {task} /\ UNCHANGED userDone
               /\ pending' = Successors(pending \ {task}, task)
      <3>1. ASSUME NEW s \in Recurring, s \in Added', s # task[1]
            PROVE  \/ \E t \in pending' : t[1] = s
                   \/ \E t \in userDone' : t[1] = s
        <4>1. s \in Added
          BY <2>2, <3>1 DEF Added, Successors
        <4> QED BY <2>2, <3>1, <4>1 DEF RecurrenceGoesOn, Successors
      <3>2. ASSUME task[1] \in Recurring
            PROVE  \E t \in pending' : t[1] = task[1]
        <4>1. <<task[1], task[2] + 1>> \in pending'
          BY <2>2, <3>2 DEF Successors
        <4> QED BY <4>1
      <3> QED BY <3>1, <3>2 DEF RecurrenceGoesOn
    <2> QED BY <1>3, <2>1, <2>2 DEF Finish
  <1>4. CASE UNCHANGED <<pending, done, userDone>>
    BY <1>4 DEF RecurrenceGoesOn, Added
  <1> QED
    BY <1>1, <1>2, <1>3, <1>4 DEF Next, Scheduler, Signal, Fetch, Decide,
       Interrupted, Timer, Check, Run, Tick, Crash, Restart, vars, rows, hist

-----------------------------------------------------------------------------
\* The inductive invariant.
TasksInv == TypeOK /\ ChainInv /\ SentInv /\ ReadInv /\ BlockedInv /\ RecurrenceGoesOn

\* The initial state satisfies it.
LEMMA TasksInit == Init => TasksInv
  BY TypeInit, SchedulerAssumption DEF Init, TasksInv, ChainInv, SentInv, Known,
     LastOf, ReadInv, BlockedInv, RecurrenceGoesOn, Added, Dated

\* It holds in every behaviour.
LEMMA TasksInvariant == Spec => []TasksInv
  <1>1. TasksInv /\ [Next]_vars => TasksInv'
    BY TypeStep, ChainStep, SentStep, ReadStep, GoesOnStep DEF TasksInv
  <1> QED BY <1>1, TasksInit, PTL DEF Spec

\* A recurrence is never forked: no crash, failed transaction or completion
\* in mid-run gives a series two pending rows.
THEOREM RecurrenceNeverForks == Spec => []NoFork
  <1>1. TasksInv => NoFork
    <2> SUFFICES ASSUME TasksInv, NEW t \in pending, NEW u \in pending, t[1] = u[1]
                 PROVE  t = u
      BY DEF TasksInv, ChainInv, NoFork
    <2>1. t[2] \in Nat /\ u[2] \in Nat /\ t = <<t[1], t[2]>> /\ u = <<u[1], u[2]>>
      BY OccurrencePair DEF TasksInv, TypeOK
    <2>2. t[2] <= u[2] /\ u[2] <= t[2]
      BY DEF TasksInv, ChainInv, LastOf, Known
    <2> QED BY <2>1, <2>2
  <1> QED BY <1>1, TasksInvariant, PTL

\* A recurrence ends only when the user completes one of its rows.
THEOREM RecurrenceNeverEnds == Spec => []RecurrenceGoesOn
  <1>1. TasksInv => RecurrenceGoesOn
    BY DEF TasksInv
  <1> QED BY <1>1, TasksInvariant, PTL

\* A row is delivered before it is completed, and twice only after a failure.
THEOREM DeliveryCounted == Spec => []DeliveredOnce
  <1>1. TasksInv => DeliveredOnce
    BY DEF TasksInv, SentInv, DeliveredOnce
  <1> QED BY <1>1, TasksInvariant, PTL

\* The goroutine never sleeps past a row that was added or completed.
THEOREM WakeupsKept == Spec => []NoLostWakeup
  <1>1. TasksInv => NoLostWakeup
    BY DEF TasksInv, ReadInv, TypeOK, NoLostWakeup
  <1> QED BY <1>1, TasksInvariant, PTL
-----------------------------------------------------------------------------
(***************************************************************************)
(* The routines.  A row that is due has not run since; nor has one that    *)
(* the round at work has still to run, unless the row was deleted and came *)
(* back meanwhile: its timer is not the one the round advances.            *)
(***************************************************************************)
RunsTyped ==
    /\ DOMAIN tick = {"at", "has", "cur", "torn"} /\ tick.at \in Places \cup Names
    /\ runs \in [Names -> Nat] /\ due \subseteq Names /\ batch \subseteq Names
Spent(n) == (n \in due \/ (n \in batch \ gone /\ tick.at # n)) => runs[n] = 0
RunsInv == RunsTyped /\ RunsOnce /\ \A n \in Names : Spent(n)

\* Nothing runs, and no row becomes due, or due to be run, that was not so.
LEMMA NoneRuns ==
    ASSUME RunsInv, RunsTyped', runs' = runs, due' \subseteq due,
           batch' \ gone' \subseteq batch \ gone,
           tick'.at = tick.at \/ tick.at \in Places
    PROVE  RunsInv'
<1>1. ASSUME NEW n \in Names PROVE Spent(n)'
  <2>1. tick'.at # n => tick.at # n
    BY RoutinesAssumption DEF RunsInv, RunsTyped
  <2>. QED  BY <2>1 DEF RunsInv, Spent
<1>. QED  BY <1>1 DEF RunsInv, RunsOnce

\* Edits, commands, the writer and /reload.
LEMMA WritesKeepRuns ==
    ASSUME RunsInv,
           \/ \E n \in Names : \E e \in Versions \cup {"none", "bad"} : Edit(n, e)
           \/ Break \/ Write \/ ReloadReads \/ ReloadApplies
           \/ \E n \in Names : ToolDeletes(n) \/ \E v \in Versions : ToolUpserts(n, v)
           \/ Google
    PROVE  RunsInv'
<1>1. tick'.at = tick.at /\ DOMAIN tick' = DOMAIN tick /\ batch' = batch
  BY DEF RunsInv, RunsTyped, Edit, Break, Write, WriterLoads, WriterFills, Touch,
         ReloadReads, ReloadApplies, ToolDeletes, ToolUpserts, Google, ticker
<1>2. runs' = runs /\ due' \subseteq due /\ batch' \ gone' \subseteq batch \ gone
  BY DEF Edit, Break, Write, WriterLoads, WriterFills, ReloadReads, ReloadApplies,
         ToolDeletes, ToolUpserts, Google, Rewrite, NewRows, ticker, table
<1>. QED  BY <1>1, <1>2, NoneRuns DEF RunsInv, RunsTyped

\* The look at the file, what it changes in the table, and the query.
LEMMA LooksKeepRuns == ASSUME RunsInv, Sync \/ QueryDue PROVE RunsInv'
<1>1. tick.at \in Places /\ RunsTyped' /\ runs' = runs /\ due' \subseteq due
  BY DEF RunsInv, RunsTyped, Sync, TickLooks, TickReads, TickApplies, QueryDue, Places,
         Idle, table, Rewrite, NewRows, Noted
<1>2. CASE Sync
  <2>1. batch' \ gone' \subseteq batch \ gone
    BY <1>2 DEF Sync, TickLooks, TickReads, TickApplies, table, Rewrite
  <2>. QED  BY <1>1, <2>1, NoneRuns
<1>3. CASE QueryDue
  <2>1. batch' = due /\ due' = due
    BY <1>3 DEF QueryDue
  <2>. QED  BY <1>1, <2>1 DEF RunsInv, Spent, RunsOnce
<1>. QED  BY <1>2, <1>3

\* A run starts: of all rows only this one has run, and it is due no more.
LEMMA StartKeepsRuns == ASSUME RunsInv, NEW n \in Names, RunStarts(n) PROVE RunsInv'
<1>1. RunsTyped'
  BY DEF RunsInv, RunsTyped, RunStarts, Idle
<1>2. /\ tick.at = "batch" /\ tick'.at = n /\ n \in batch /\ n # "batch"
      /\ batch' = batch /\ gone' = gone
  BY RoutinesAssumption DEF RunStarts, Idle, Places
<1>3. ASSUME NEW m \in Names, m # n PROVE Spent(m)' /\ runs'[m] <= 1
  <2>1. runs'[m] = runs[m] /\ (m \in due' => m \in due) /\ m # "batch"
    BY <1>3, RoutinesAssumption DEF RunStarts, RunsInv, RunsTyped, Places
  <2>. QED  BY <1>2, <2>1 DEF RunsInv, Spent, RunsOnce
<1>4. CASE n \in gone
  <2>1. runs'[n] = runs[n] /\ due' = due /\ Spent(n)
    BY <1>4 DEF RunStarts, RunsInv, RunsTyped
  <2>. QED  BY <1>1, <1>2, <1>3, <1>4, <2>1 DEF RunsInv, Spent, RunsOnce
<1>5. CASE n \notin gone
  <2>1. runs[n] = 0
    BY <1>2, <1>5 DEF RunsInv, Spent
  <2>2. runs'[n] = 1 /\ n \notin due'
    BY <1>5, <2>1 DEF RunStarts, RunsInv, RunsTyped
  <2>. QED  BY <1>1, <1>2, <1>3, <2>2 DEF RunsInv, Spent, RunsOnce
<1>. QED  BY <1>4, <1>5

\* A run ends, in whatever way, or is passed over, and the round goes on.
LEMMA RestKeepsRuns ==
    ASSUME RunsInv, NEW n \in Names, Rest(n), tick.at \in {n, "batch"},
           runs' = runs, due' = due
    PROVE  RunsInv'
<1>1. RunsTyped' /\ tick'.at \in Places /\ batch' \ gone' = (batch \ gone) \ {n}
  BY DEF RunsInv, RunsTyped, Rest, Idle, Places
<1>2. ASSUME NEW m \in Names PROVE Spent(m)'
  BY <1>1, RoutinesAssumption DEF RunsInv, Spent, Places
<1>. QED  BY <1>1, <1>2 DEF RunsInv, RunsOnce

\* Every step of the routines keeps each row to one run while it is due.
LEMMA NextKeepsRuns == RunsInv /\ [RoutinesNext]_routinesVars => RunsInv'
<1>. SUFFICES ASSUME RunsInv, [RoutinesNext]_routinesVars PROVE RunsInv'
  OBVIOUS
<1>1. ASSUME NEW n \in Names, RunRoutine(n) \/ AdvanceFails(n) \/ RunPanics(n)
      PROVE  RunsInv'
  BY <1>1, StartKeepsRuns, RestKeepsRuns DEF RunRoutine, RunEnds, AdvanceFails, RunPanics
<1>2. ASSUME NEW n \in Names, FallDue(n) PROVE RunsInv'
  BY <1>2 DEF FallDue, RunsInv, RunsTyped, Spent, RunsOnce
<1>3. ASSUME NEW n \in Names, DayEnds(n) PROVE RunsInv'
  BY <1>3 DEF DayEnds, ticker, RunsInv, RunsTyped, Spent, RunsOnce
<1>4. CASE Restarted
  <2>1. due' \subseteq due /\ runs' = runs /\ batch' = {} /\ RunsTyped'
    BY <1>4 DEF Restarted, NewRows, RunsInv, RunsTyped, Idle, Places
  <2>. QED  BY <2>1 DEF RunsInv, Spent, RunsOnce
<1>5. CASE UNCHANGED routinesVars
  BY <1>5 DEF routinesVars, ticker, table, RunsInv, RunsTyped, Spent, RunsOnce
<1>. QED
  BY <1>1, <1>2, <1>3, <1>4, <1>5, WritesKeepRuns, LooksKeepRuns DEF RoutinesNext

\* A routine runs at most once for each time it falls due, for any number of
\* routines and across edits, commands, failing statements, panics and restarts
\* (executeSingleRoutine advances the timer before the run).
THEOREM RoutinesRunOnce == RoutinesSpec => []RunsOnce
<1>1. RoutinesInit => RunsInv
  BY DEF RoutinesInit, RunsInv, RunsTyped, Spent, RunsOnce, Idle, Places
<1>2. RunsInv => RunsOnce
  BY DEF RunsInv
<1>. QED  BY <1>1, <1>2, NextKeepsRuns, PTL DEF RoutinesSpec
=============================================================================
