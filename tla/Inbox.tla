---------------------------------- MODULE Inbox ----------------------------------
(***************************************************************************)
(* New mail on its way into memory: the no-argument search_email that a    *)
(* routine and the message loop both call, the table of processed ids, the *)
(* triage goroutine of every message, and the bounded retry queue behind   *)
(* them, which the exchanges of the conversation use as well.              *)
(*                                                                         *)
(* E-mails are numbered in the order they arrive, and the window of a      *)
(* check, a time in the code, is the number that had arrived by that time. *)
(* What the triage model decides about a message is left out: an answer,   *)
(* whether it leads to a row or not, is the end of the message.            *)
(***************************************************************************)
EXTENDS Integers, Sequences

CONSTANTS
    MaxMails,    \* bound on the e-mails that arrive
    Exchanges,   \* exchanges of the conversation
    Checkers,    \* goroutines that may call search_email
    Routine,     \* the one that does so again and again
    FetchMax,    \* e-mails one check fetches (20 in the code)
    MaxItems,    \* RetryQueue.maxItems (50 in the code)
    MaxRetries,  \* RetryQueue.maxRetries (3 in the code)
    MaxFaults    \* bound on overlapping checks and failures of that table

ASSUME InboxAssumption ==
    /\ Routine \in Checkers
    /\ {MaxMails, FetchMax, MaxItems, MaxRetries} \subseteq Nat \ {0} /\ MaxFaults \in Nat
    /\ Exchanges \cap (1..MaxMails) = {}

VARIABLES
    mail,       \* the e-mails that have arrived
    lastCheck,  \* processed_emails_meta: messages before the last check
    processed,  \* processed_emails
    check,      \* what each checker is doing
    triage,     \* triage goroutines under way, as a function to their number
    items,      \* the retry queue: [id, n]
    batch,      \* what drain took and has not tried yet
    requeue,    \* what it tried in vain
    standing,       \* history: "none", "arrived" or "ended" for each message
    faults      \* checks that overlapped, accesses of processed_emails that failed

inbox == <<mail, lastCheck, processed, check>>
queue == <<items, batch, requeue>>
work == <<triage, standing, faults>>
inboxVars == <<inbox, queue, work>>

Mails == 1..MaxMails
Messages == Mails \cup Exchanges
Resting == [at |-> "rest", start |-> 0, since |-> 0, ids |-> {}, excused |-> FALSE]

InboxInit ==
    /\ mail = 0 /\ lastCheck = 0 /\ processed = {}
    /\ check = [c \in Checkers |-> Resting]
    /\ items = <<>> /\ batch = <<>> /\ requeue = <<>>
    /\ triage = [m \in Messages |-> 0]
    /\ standing = [m \in Messages |-> "none"]
    /\ faults = 0

EndOf(m) == [standing EXCEPT ![m] = "ended"]
-----------------------------------------------------------------------------
Arrive ==
    /\ mail < MaxMails /\ mail' = mail + 1
    /\ standing' = [standing EXCEPT ![mail'] = "arrived"]
    /\ UNCHANGED <<lastCheck, processed, check, queue, triage, faults>>

\* An exchange of the conversation goes to triage at once.
Converse(x) ==
    /\ standing[x] = "none" /\ standing' = [standing EXCEPT ![x] = "arrived"]
    /\ triage' = [triage EXCEPT ![x] = 1]
    /\ UNCHANGED <<inbox, queue, faults>>
-----------------------------------------------------------------------------
\* checkNewEmails.

\* Nothing keeps two goroutines from checking at once; what each does with the
\* other's messages is excused then.
CheckBegins(c) ==
    LET others == {d \in Checkers : check[d].at # "rest"} IN
    /\ check[c].at = "rest"
    /\ IF others = {} THEN UNCHANGED faults
       ELSE faults < MaxFaults /\ faults' = faults + 1
    /\ check' = [d \in Checkers |->
                   CASE d = c -> [Resting EXCEPT !.at = "fetch", !.since = lastCheck,
                                     !.start = mail, !.excused = others # {}]
                     [] d \in others -> [check[d] EXCEPT !.excused = TRUE]
                     [] OTHER -> check[d]]
    /\ UNCHANGED <<mail, lastCheck, processed, queue, triage, standing>>

\* The newest messages of the window, at most FetchMax of them.
Fetched(c) ==
    {m \in 1..mail : m > check[c].since /\ m > mail - FetchMax}
\* No check that begins later will list the older ones.
CutOff(c) ==
    {m \in 1..check[c].start : m > check[c].since /\ m <= mail - FetchMax} \ processed

Fetch(c) ==
    /\ check[c].at = "fetch"
    /\ lastCheck' = check[c].start
    /\ check' = [check EXCEPT ![c] = IF Fetched(c) = {} THEN Resting
                     ELSE [check[c] EXCEPT !.at = "filter", !.ids = Fetched(c),
                                             !.start = 0, !.since = 0]]
    /\ standing' = [m \in Messages |-> IF m \in CutOff(c) THEN "ended" ELSE standing[m]]
    /\ UNCHANGED <<mail, processed, queue, triage, faults>>

\* Mutant of FetchFails: the time of the check is saved before the fetch.
FetchFailsSaved(c) ==
    /\ check[c].at = "fetch" /\ check' = [check EXCEPT ![c] = Resting]
    /\ lastCheck' = check[c].start
    /\ UNCHANGED <<mail, processed, queue, work>>
\* The window stays when Google cannot be reached or refuses.
FetchFails(c) ==
    /\ check[c].at = "fetch" /\ check' = [check EXCEPT ![c] = Resting]
    /\ UNCHANGED <<mail, lastCheck, processed, queue, work>>

\* Mutant of Filter: nothing is filtered.
FilterNothing(c) ==
    /\ check[c].at = "filter"
    /\ check' = [check EXCEPT ![c].at = "mark"]
    /\ UNCHANGED <<mail, lastCheck, processed, queue, work>>
\* FilterNew, which lets everything through when the query fails.
Filter(c) ==
    LET new == check[c].ids \ processed IN
    /\ check[c].at = "filter"
    /\ \/ /\ check' = [check EXCEPT ![c] = IF new = {} THEN Resting
                         ELSE [check[c] EXCEPT !.at = "mark", !.ids = new]]
          /\ UNCHANGED faults
       \/ /\ check' = [check EXCEPT ![c].at = "mark", ![c].excused = TRUE]
          /\ faults < MaxFaults /\ faults' = faults + 1
    /\ UNCHANGED <<mail, lastCheck, processed, queue, triage, standing>>

\* All of them are marked, which may fail unnoticed, before any is triaged.
Mark(c) ==
    LET new == check[c].ids IN
    /\ check[c].at = "mark" /\ check' = [check EXCEPT ![c] = Resting]
    /\ \/ processed' = processed \cup new /\ UNCHANGED faults
       \/ faults < MaxFaults /\ faults' = faults + 1 /\ UNCHANGED processed
    /\ triage' = [m \in Messages |-> IF m \in new THEN triage[m] + 1 ELSE triage[m]]
    /\ UNCHANGED <<mail, lastCheck, queue, standing>>
-----------------------------------------------------------------------------
\* triageAndSave and the retry queue.

Ends(m) == triage' = [triage EXCEPT ![m] = @ - 1]

\* The model has answered: the message is not worth keeping, or it is saved,
\* or the save failed, which is not tried again.
TriageAnswers(m) ==
    /\ triage[m] > 0 /\ Ends(m) /\ standing' = EndOf(m)
    /\ UNCHANGED <<inbox, queue, faults>>

\* A full queue loses its oldest item, whatever its length.
Enqueue(item) ==
    items' = Append(IF Len(items) >= MaxItems THEN Tail(items) ELSE items, item)

\* The request fails: the triage is put into the queue.
TriageFails(m) ==
    /\ triage[m] > 0 /\ Ends(m)
    /\ Enqueue([id |-> m, n |-> 0])
    /\ standing' = IF Len(items) >= MaxItems THEN EndOf(Head(items).id) ELSE standing
    /\ UNCHANGED <<inbox, batch, requeue, faults>>

Draining == batch # <<>> \/ requeue # <<>>

\* The ticker: the whole queue is taken, and the lock released.
DrainBegins ==
    /\ ~Draining /\ items # <<>>
    /\ batch' = items /\ items' = <<>>
    /\ UNCHANGED <<inbox, requeue, work>>

RetrySucceeds ==
    /\ batch # <<>> /\ batch' = Tail(batch) /\ standing' = EndOf(Head(batch).id)
    /\ UNCHANGED <<inbox, items, requeue, triage, faults>>

RetryFails ==
    LET item == Head(batch) IN
    /\ batch # <<>> /\ batch' = Tail(batch)
    /\ IF item.n + 1 >= MaxRetries
       THEN standing' = EndOf(item.id) /\ UNCHANGED requeue
       ELSE requeue' = Append(requeue, [item EXCEPT !.n = @ + 1]) /\ UNCHANGED standing
    /\ UNCHANGED <<inbox, items, triage, faults>>

\* What is to be tried again goes before what has come meanwhile, and nothing
\* asks for the length.
DrainEnds ==
    /\ batch = <<>> /\ requeue # <<>>
    /\ items' = requeue \o items /\ requeue' = <<>>
    /\ UNCHANGED <<inbox, batch, work>>
-----------------------------------------------------------------------------
\* What no check will list or let through again is lost with the process.
Lost(m) == m \in Exchanges \/ m \in processed \/ m <= lastCheck

\* The process is started again.  The tables and the token file stay.
InboxRestart ==
    /\ check' = [c \in Checkers |-> Resting]
    /\ triage' = [m \in Messages |-> 0]
    /\ items' = <<>> /\ batch' = <<>> /\ requeue' = <<>>
    /\ standing' = [m \in Messages |->
                  IF standing[m] = "arrived" /\ Lost(m) THEN "ended" ELSE standing[m]]
    /\ UNCHANGED <<mail, lastCheck, processed, faults>>

CheckStep(c) ==
    CheckBegins(c) \/ Fetch(c) \/ FetchFails(c) \/ Filter(c) \/ Mark(c)
QueueStep == DrainBegins \/ RetrySucceeds \/ RetryFails \/ DrainEnds

InboxNext ==
    \/ Arrive
    \/ \E x \in Exchanges : Converse(x)
    \/ \E c \in Checkers : CheckStep(c)
    \/ \E m \in Messages : TriageAnswers(m) \/ TriageFails(m)
    \/ QueueStep
    \/ InboxRestart

InboxSpec == InboxInit /\ [][InboxNext]_inboxVars

\* The routine is due again and again, Google answers sometimes, requests end,
\* and the ticker of the queue ticks.
InboxFairness ==
    /\ \A c \in Checkers :
          /\ WF_inboxVars(Fetch(c) \/ FetchFails(c))
          /\ SF_inboxVars(Fetch(c))
          /\ WF_inboxVars(Filter(c)) /\ WF_inboxVars(Mark(c))
    /\ WF_inboxVars(CheckBegins(Routine))
    /\ \A m \in Messages : WF_inboxVars(TriageAnswers(m) \/ TriageFails(m))
    /\ WF_inboxVars(QueueStep)

InboxFairSpec == InboxSpec /\ InboxFairness
-----------------------------------------------------------------------------
\* An e-mail in the table of processed ids is not handed to triage again,
\* although two windows may list it, unless two checks overlapped or the table
\* could not be read (search_email.go:130-161).
TriagedOnce ==
    [][\A m \in Mails : (triage'[m] > triage[m] /\ m \in processed) =>
          \E c \in Checkers : /\ check[c].at = "mark" /\ check[c].excused
                              /\ m \in check[c].ids]_inboxVars

\* While Google answers now and then, every e-mail that arrives comes to an end
\* that can be named: triaged, given up after its retries, crowded out of the
\* queue, cut off by the size of a fetch, or lost in a restart
\* (search_email.go:103-161).
MailSettles ==
    \A m \in Mails : (standing[m] = "arrived") ~> standing[m] = "ended"
=============================================================================
