---------------------------- MODULE TaskScheduler ----------------------------
(***************************************************************************)
(* The scheduled tasks: the pending rows of work_items, the goroutine that *)
(* runs them when they are due (engine/scheduler.go), and the tools that   *)
(* add and complete them and signal the goroutine (tools/task_queue.go).   *)
(*                                                                         *)
(* A series is what one add_task creates; its k-th occurrence is the row   *)
(* <<s, k>>, due at first[s] + (k - 1) * Period.  The tools are called by  *)
(* every orchestrator, the scheduler's own runs included, and write their  *)
(* row before they signal.  The process may crash at any point, and the    *)
(* transaction that ends a run may fail.                                   *)
(*                                                                         *)
(* A run takes no time of its own but time may pass during it: catching up *)
(* is assumed to be possible, that is, a recurrence is longer than a run.  *)
(***************************************************************************)
EXTENDS Integers, FiniteSets

CONSTANTS
    Series,      \* calls of add_task
    Recurring,   \* those with a recurrence
    Period,      \* the recurrence
    MaxTime,     \* bound on the clock
    MaxOcc,      \* bound on the occurrences of a series
    MaxFails,    \* bound on the transactions that fail
    MaxCrashes   \* bound on the crashes

ASSUME SchedulerAssumption ==
    /\ Recurring \subseteq Series
    /\ Period \in Nat \ {0} /\ MaxTime \in Nat /\ MaxOcc \in Nat \ {0}
    /\ MaxFails \in Nat /\ MaxCrashes \in Nat

Occurrences == Series \X (1..MaxOcc)
NoTask == <<>>
Undated == 0    \* first[s] of a task without due_at

VARIABLES
    now,
    first,      \* due_at of the first occurrence
    pending,    \* rows whose status is pending
    done,       \* rows whose status is completed
    pc,         \* the scheduler's goroutine; "down" when there is no process
    task,       \* the row it read
    buffer,     \* InterruptChan, capacity 1
    signalling, \* tool calls that wrote their row and have not signalled yet
    sent,       \* history: how often a row was run and its reply sent
    userDone,   \* history: rows completed by complete_task
    fails, crashes

rows == <<first, pending, done>>
sched == <<pc, task>>
chan == <<buffer, signalling>>
hist == <<sent, userDone, fails, crashes>>
vars == <<now, rows, sched, chan, hist>>

Added == {s \in Series : \E t \in pending \cup done : t[1] = s}
Due(t) == first[t[1]] + (t[2] - 1) * Period
Dated(T) == {t \in T : first[t[1]] # Undated}
\* pending rows P after a run of t: a recurring task has a successor.
Successors(P, t) == IF t[1] \in Recurring THEN P \cup {<<t[1], t[2] + 1>>} ELSE P
Earliest(T) == {t \in T : \A u \in T : Due(t) <= Due(u)}

Init ==
    /\ now = 1
    /\ first = [s \in Series |-> Undated] /\ pending = {} /\ done = {}
    /\ pc = "fetch" /\ task = NoTask
    /\ buffer = 0 /\ signalling = 0
    /\ sent = [t \in Occurrences |-> 0] /\ userDone = {}
    /\ fails = 0 /\ crashes = 0
-----------------------------------------------------------------------------
\* NewAddTask: the row, perhaps without a date; a recurring one always has a
\* date, which may have passed.
AddTask(s) ==
    /\ pc # "down" /\ s \notin Added
    /\ \E d \in Undated..MaxTime :
        /\ s \in Recurring => d # Undated
        /\ first' = [first EXCEPT ![s] = d]
    /\ pending' = pending \cup {<<s, 1>>}
    /\ signalling' = signalling + 1
    /\ UNCHANGED <<now, done, sched, buffer, hist>>

\* NewCompleteTask: a pending row, by id or the earliest one.  A recurring
\* task gets no successor.
CompleteTask(t) ==
    /\ pc # "down" /\ t \in pending
    /\ pending' = pending \ {t} /\ done' = done \cup {t}
    /\ userDone' = userDone \cup {t}
    /\ signalling' = signalling + 1
    /\ UNCHANGED <<now, first, sched, buffer, sent, fails, crashes>>

\* Mutant of Signal: the channel has no buffer.
SignalUnbuffered ==
    /\ signalling > 0 /\ signalling' = signalling - 1
    /\ buffer' = IF pc \in {"blocked", "waiting"} THEN 1 ELSE 0
    /\ UNCHANGED <<now, rows, sched, hist>>

\* ... and then the non-blocking send.
Signal ==
    /\ signalling > 0 /\ signalling' = signalling - 1
    /\ buffer' = 1
    /\ UNCHANGED <<now, rows, sched, hist>>
-----------------------------------------------------------------------------
\* The rows fetchNextPendingTask selects.
Candidates == Dated(pending)

\* runTaskScheduler reads the earliest one, if there is any ...
Fetch ==
    /\ pc = "fetch" /\ pc' = "decide"
    /\ IF Candidates = {} THEN task' = NoTask ELSE task' \in Earliest(Candidates)
    /\ UNCHANGED <<now, rows, chan, hist>>

\* ... and waits for a signal, for the row's time as well, or not at all.
Decide ==
    /\ pc = "decide"
    /\ pc' = IF task = NoTask THEN "blocked"
             ELSE IF Due(task) <= now THEN "check" ELSE "waiting"
    /\ UNCHANGED <<now, rows, task, chan, hist>>

\* A signal ends the wait: the next row is read again.
Interrupted ==
    /\ pc \in {"blocked", "waiting"} /\ buffer = 1
    /\ buffer' = 0
    /\ pc' = "fetch" /\ task' = NoTask
    /\ UNCHANGED <<now, rows, signalling, hist>>

\* The timer fires; if a signal is there as well, select takes either.
Timer ==
    /\ pc = "waiting" /\ Due(task) <= now
    /\ pc' = "check"
    /\ UNCHANGED <<now, rows, task, chan, hist>>

\* executeTask begins: the row must still be pending.
Check ==
    /\ pc = "check"
    /\ IF task \in pending
       THEN pc' = "run" /\ UNCHANGED task
       ELSE pc' = "fetch" /\ task' = NoTask
    /\ UNCHANGED <<now, rows, chan, hist>>

\* The orchestrator's reply, or its error, is sent to the user.
Run ==
    /\ pc = "run"
    /\ sent' = [sent EXCEPT ![task] = @ + 1]
    /\ pc' = "finish"
    /\ UNCHANGED <<now, rows, task, chan, userDone, fails, crashes>>

\* Mutant of Finish: the successor is inserted before the transaction.
FinishInsertsFirst ==
    /\ pc = "finish" /\ task[2] < MaxOcc
    /\ \/ done' = done \cup {task} /\ pending' = Successors(pending \ {task}, task)
          /\ UNCHANGED fails
       \/ fails < MaxFails /\ fails' = fails + 1
          /\ pending' = Successors(pending, task) /\ UNCHANGED done
    /\ pc' = "fetch" /\ task' = NoTask
    /\ UNCHANGED <<now, first, chan, sent, userDone, crashes>>

\* Mutant of Finish: the successor is inserted after it.
FinishInsertsLast ==
    /\ pc = "finish" /\ task[2] < MaxOcc
    /\ done' = done \cup {task}
    /\ \/ pending' = Successors(pending \ {task}, task) /\ UNCHANGED fails
       \/ fails < MaxFails /\ fails' = fails + 1 /\ pending' = pending \ {task}
    /\ pc' = "fetch" /\ task' = NoTask
    /\ UNCHANGED <<now, first, chan, sent, userDone, crashes>>

\* Mutant of Finish: the row of a recurring task stays pending.
FinishForgets ==
    /\ pc = "finish" /\ task[2] < MaxOcc
    /\ IF task[1] \in Recurring
       THEN UNCHANGED done /\ pending' = Successors(pending, task)
       ELSE done' = done \cup {task} /\ pending' = pending \ {task}
    /\ pc' = "fetch" /\ task' = NoTask
    /\ UNCHANGED <<now, first, chan, sent, userDone, fails, crashes>>

\* The transaction: the row is completed, whatever it says by now, and a
\* recurring task gets its successor; or neither, and the row stays.
Finish ==
    /\ pc = "finish" /\ task[2] < MaxOcc
    /\ \/ done' = done \cup {task} /\ pending' = Successors(pending \ {task}, task)
          /\ UNCHANGED fails
       \/ fails < MaxFails /\ fails' = fails + 1 /\ UNCHANGED <<pending, done>>
    /\ pc' = "fetch" /\ task' = NoTask
    /\ UNCHANGED <<now, first, chan, sent, userDone, crashes>>
-----------------------------------------------------------------------------
Tick ==
    /\ now < MaxTime /\ now' = now + 1
    /\ UNCHANGED <<rows, sched, chan, hist>>

Crash ==
    /\ pc # "down" /\ crashes < MaxCrashes /\ crashes' = crashes + 1
    /\ pc' = "down" /\ task' = NoTask
    /\ buffer' = 0 /\ signalling' = 0
    /\ UNCHANGED <<now, rows, sent, userDone, fails>>

Restart ==
    /\ pc = "down" /\ pc' = "fetch"
    /\ UNCHANGED <<now, rows, task, chan, hist>>

Scheduler == Fetch \/ Decide \/ Interrupted \/ Timer \/ Check \/ Run \/ Finish
Next ==
    \/ \E s \in Series : AddTask(s)
    \/ \E t \in pending : CompleteTask(t)
    \/ Signal \/ Scheduler \/ Tick \/ Crash \/ Restart

Spec == Init /\ [][Next]_vars
-----------------------------------------------------------------------------
TypeOK ==
    /\ now \in Nat /\ first \in [Series -> Nat]
    /\ pending \subseteq Occurrences /\ done \subseteq Occurrences
    /\ pc \in {"fetch", "decide", "blocked", "waiting", "check", "run", "finish", "down"}
    /\ task \in Occurrences \cup {NoTask}
    /\ pc \in {"waiting", "check", "run", "finish"} => task # NoTask
    /\ buffer \in 0..1 /\ signalling \in Nat
    /\ sent \in [Occurrences -> Nat] /\ userDone \subseteq done
    /\ fails \in Nat /\ crashes \in Nat

\* The goroutine never sleeps past a change: with no signal sent or about to
\* be sent, it blocks only if no dated row is pending and waits only for the
\* earliest one (runTaskScheduler with the buffered InterruptChan).
NoLostWakeup ==
    buffer = 0 /\ signalling = 0 =>
        /\ pc = "blocked" => Dated(pending) = {}
        /\ pc = "waiting" => task \in Earliest(Dated(pending))

\* A row is pending or completed, and a series has at most one pending row: a
\* crash, a failed transaction or a completion by the user in the middle of a
\* run never forks a recurrence (executeTask's transaction).
NoFork ==
    /\ pending \cap done = {}
    /\ \A t, u \in pending : t[1] = u[1] => t = u

\* A recurrence ends only by the user's hand: while the user has completed no
\* occurrence of it, a recurring series that was added has a pending row.
RecurrenceGoesOn ==
    \A s \in Recurring \cap Added :
        (\E t \in pending : t[1] = s) \/ (\E t \in userDone : t[1] = s)

\* A row is delivered at least once before the scheduler completes it, and
\* again only after a failed transaction or a crash.
DeliveredOnce ==
    /\ \A t \in done : sent[t] > 0 \/ t \in userDone
    /\ \A t \in Occurrences : sent[t] <= 1 + fails + crashes

=============================================================================
