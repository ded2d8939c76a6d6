----------------------------- MODULE WorkQueue -----------------------------
(***************************************************************************)
(* The queue of background work for a model (clients/workqueue.go): a      *)
(* buffered channel that drops what does not fit, puts low-priority work   *)
(* off under pressure and retries failed work.  The owner of an item says  *)
(* what its OnComplete does; here it only leaves the queue.                *)
(***************************************************************************)
EXTENDS Integers, Sequences

CONSTANTS
    Workers,  \* goroutines in process
    Cap,      \* capacity of the channel: 64 (subagent) or 16 (deep thinker)
    Retries   \* Retries of an item (2)

ASSUME QueueAssumption == Cap \in Nat /\ Retries \in Nat

VARIABLES
    queue,    \* WorkQueue.ch
    held,     \* worker -> the item it executes, or waits to retry
    resting,  \* workers in the pause before a retry
    later     \* low-priority items put off for an hour

queueVars == <<queue, held, resting, later>>

Nothing == [task |-> "none"]

QueueInit ==
    /\ queue = <<>>
    /\ held = [w \in Workers |-> Nothing]
    /\ resting = {} /\ later = {}

Full == Len(queue) >= Cap
Pressed(item) == item.priority = "low" /\ Len(queue) >= (Cap * 3) \div 4

(* The item is refused: the caller runs its OnComplete with an error.       *)
Dropped(item) == ~Pressed(item) /\ Full

QueueWork(item) ==
    /\ queue' = IF Pressed(item) \/ Full THEN queue ELSE Append(queue, item)
    /\ later' = later \cup (IF Pressed(item) THEN {[item EXCEPT !.priority = "normal"]} ELSE {})
    /\ UNCHANGED <<held, resting>>

(* The hour is over; the item now has normal priority.                      *)
Requeue(item) ==
    /\ item \in later
    /\ later' = later \ {item}
    /\ queue' = IF Full THEN queue ELSE Append(queue, item)
    /\ UNCHANGED <<held, resting>>

Executes(w) == held[w] # Nothing /\ w \notin resting

Take(w) ==
    /\ held[w] = Nothing
    /\ queue # <<>>
    /\ held' = [held EXCEPT ![w] = Head(queue)]
    /\ queue' = Tail(queue)
    /\ UNCHANGED <<resting, later>>

\* Mutant of Fail: an error is always tried again.
FailForever(w) ==
    /\ Executes(w)
    /\ resting' = resting \cup {w}
    /\ UNCHANGED <<queue, held, later>>

(* The work failed and is tried again after a pause.                        *)
Fail(w) ==
    /\ Executes(w)
    /\ held[w].tries > 0
    /\ held' = [held EXCEPT ![w].tries = @ - 1]
    /\ resting' = resting \cup {w}
    /\ UNCHANGED <<queue, later>>

Retry(w) ==
    /\ w \in resting
    /\ ~Full
    /\ queue' = Append(queue, held[w])
    /\ held' = [held EXCEPT ![w] = Nothing]
    /\ resting' = resting \ {w}
    /\ UNCHANGED later

Succeeds(w) == Executes(w)
GivesUp(w) == (Executes(w) /\ held[w].tries = 0) \/ (w \in resting /\ Full)

\* Mutant of Finish: delivered as well as sent again.
FinishAndResend(w) ==
    /\ held' = [held EXCEPT ![w] = Nothing]
    /\ queue' = IF Full THEN queue ELSE Append(queue, held[w])
    /\ resting' = resting \ {w}
    /\ UNCHANGED later

(* The worker runs OnComplete and turns to the next item.                   *)
Finish(w) ==
    /\ held' = [held EXCEPT ![w] = Nothing]
    /\ resting' = resting \ {w}
    /\ UNCHANGED <<queue, later>>
=============================================================================
