--------------------------------- MODULE Bot ---------------------------------
(***************************************************************************)
(* The chat side of the process: the Telegram splitter and its two bounded *)
(* channels, the one goroutine that handles messages, the confirmations    *)
(* and menus that wait on the callback channel, the background jobs with   *)
(* their input channels, and the reader a /google command starts.          *)
(*                                                                         *)
(* Every Confirm, whoever calls it, receives from the same callback        *)
(* channel and drops what is not its own; every ReadReply receives from    *)
(* the same message channel as the main loop.  What the model chooses is   *)
(* only whom the next press or message reaches.                            *)
(*                                                                         *)
(* A message is its kind, a tool call is its approval key, and an          *)
(* orchestrator run is the calls it makes; the slot it holds is in         *)
(* SlotRouter, the transcript in Conversation, a reload in Skills.         *)
(***************************************************************************)
EXTENDS Integers, Sequences, FiniteSets

CONSTANTS
    Main,        \* the message loop
    Jobs,        \* background jobs
    Keys,        \* approval cache keys of the gated tools
    Menu,        \* stands for the question of prompt_user
    MsgCap,      \* capacity of msgChan (50 in the code)
    CbCap,       \* capacity of callbackChan (10 in the code)
    MaxRounds,   \* rounds of a background job (20 in the code)
    MaxCalls,    \* bound on the tool calls of one message (15 rounds in the code)
    MaxMsgs, MaxPresses, MaxBoards, \* bounds on what the user does and is asked
    MaxGoogles   \* bound on the /google commands

ASSUME BotAssumption ==
    /\ Main \notin Jobs /\ Menu \notin Keys
    /\ {MsgCap, CbCap, MaxRounds} \subseteq Nat \ {0}
    /\ {MaxCalls, MaxMsgs, MaxPresses, MaxBoards, MaxGoogles} \subseteq Nat

VARIABLES
    kind,     \* the messages sent so far, by kind; a message is its position
    fate,     \* what became of each: "waiting", "handled", "skipped", "read"
              \* (taken as an authorization code) or "lost" with the process
    updates,  \* updates the splitter has not delivered
    msgCh,    \* msgChan
    cbCh,     \* callbackChan
    main,     \* [st, msg, calls]: what the main goroutine does
    readers,  \* ReadReply calls whose GetClient has timed out
    job,      \* background jobs
    asking,   \* the keyboard each goroutine waits on, 0 for none
    boards,   \* the keyboards sent, by what they ask about
    said,     \* history: the buttons pressed on each of them
    cache,    \* ApprovalCache: the keyboard that approved a key, 0 for none
    ran,      \* history: gated calls executed, with the keyboard that allowed it
    stolen,   \* history: waiting keyboards whose press another wait dropped
    overlap,  \* history: two waits have existed at once
    presses,  \* presses so far
    up        \* FALSE after a panic

chat == <<kind, fate, updates, msgCh, main, readers>>
ask == <<cbCh, asking, boards, said, cache, ran, stolen, overlap, presses>>
vars == <<chat, ask, job, up>>

Owners == {Main} \cup Jobs
\* A command other than /google is a run that makes no calls.
Kinds == {"ask", "google", "foreign", "blank"}
Silent == [st |-> "none", rounds |-> 0, closed |-> FALSE, buf |-> 0]
Idle == [st |-> "idle", msg |-> 0, calls |-> 0]

Init ==
    /\ kind = <<>> /\ fate = <<>> /\ updates = <<>> /\ msgCh = <<>>
    /\ main = Idle /\ readers = 0
    /\ cbCh = <<>> /\ asking = [o \in Owners |-> 0] /\ boards = <<>> /\ said = <<>>
    /\ cache = [k \in Keys |-> 0] /\ ran = {} /\ stolen = {} /\ overlap = FALSE
    /\ presses = 0
    /\ job = [j \in Jobs |-> Silent] /\ up = TRUE

Registered(j) == job[j].st \notin {"none", "gone"}
Waiting == {o \in Owners : asking[o] # 0}
-----------------------------------------------------------------------------
\* The user and the splitter.

UserSends(k) ==
    /\ Len(kind) < MaxMsgs
    /\ k = "google" => Cardinality({i \in DOMAIN kind : kind[i] = k}) < MaxGoogles
    /\ kind' = Append(kind, k)
    /\ fate' = Append(fate, "waiting")
    /\ updates' = Append(updates, [t |-> "msg", n |-> Len(kind) + 1])
    /\ UNCHANGED <<msgCh, main, readers, ask, job, up>>

\* A press on any keyboard that was ever sent, by an allowed user or another.
UserPresses(b, yes, allowed) ==
    /\ presses < MaxPresses /\ presses' = presses + 1 /\ (allowed \/ yes)
    /\ updates' = Append(updates, [t |-> "press", n |-> b, yes |-> yes, ok |-> allowed])
    /\ said' = [said EXCEPT ![b] = IF allowed THEN @ \cup {yes} ELSE @]
    /\ UNCHANGED <<kind, fate, msgCh, main, readers>>
    /\ UNCHANGED <<cbCh, asking, boards, cache, ran, stolen, overlap, job, up>>

\* The splitter goroutine blocks on a full channel, and on nothing else.
Split ==
    /\ up /\ updates # <<>> /\ updates' = Tail(updates)
    /\ LET u == Head(updates) IN
       \/ u.t = "msg" /\ Len(msgCh) < MsgCap
          /\ msgCh' = Append(msgCh, u.n) /\ UNCHANGED cbCh
       \/ u.t = "press" /\ Len(cbCh) < CbCap
          /\ cbCh' = Append(cbCh, u) /\ UNCHANGED msgCh
    /\ UNCHANGED <<kind, fate, main, readers, job, up>>
    /\ UNCHANGED <<asking, boards, said, cache, ran, stolen, overlap, presses>>
-----------------------------------------------------------------------------
\* Confirm and PromptWithOptions.

Ask(o, what) ==
    /\ Len(boards) < MaxBoards
    /\ boards' = Append(boards, what)
    /\ said' = Append(said, {})
    /\ asking' = [asking EXCEPT ![o] = Len(boards) + 1]
    /\ overlap' = (overlap \/ Waiting # {})
    /\ UNCHANGED <<cbCh, cache, ran, stolen, presses>>

\* PromptWithOptions: the same wait, on a keyboard of options.
AskMenu(o) == Ask(o, Menu)

\* Execute, allowed by keyboard b.
Execute(key, b) == ran' = ran \cup {<<key, b>>}

\* A tool call of orchestrator run o through confirmToolExec.
GatedCall(o, key) ==
    IF cache[key] # 0
    THEN /\ Execute(key, cache[key])
         /\ UNCHANGED <<cbCh, asking, boards, said, cache, stolen, overlap, presses>>
    ELSE Ask(o, key)

\* Mutant of Answers: the nonce of the press is not compared.
AnswersAnyNonce(o, p) == p.ok
\* Mutant of Answers: a denial is not recognised.
AnswersYesOnly(o, p) == p.ok /\ p.yes /\ p.n = asking[o]
\* A press answers a wait when it is the user's and carries its nonce.
Answers(o, p) == p.ok /\ p.n = asking[o]

\* Whoever waits may receive the next press.  What is not its own it drops.
Receive(o) ==
    LET p == Head(cbCh)
        b == asking[o]
        own == Answers(o, p)
    IN  /\ asking[o] # 0 /\ cbCh # <<>> /\ cbCh' = Tail(cbCh)
        /\ asking' = IF own THEN [asking EXCEPT ![o] = 0] ELSE asking
        /\ IF own /\ p.yes /\ boards[b] \in Keys
           THEN /\ cache' = [cache EXCEPT ![boards[b]] = b]
                /\ Execute(boards[b], b)
           ELSE UNCHANGED <<cache, ran>>
        /\ stolen' = IF ~own /\ p.ok /\ \E w \in Waiting : asking[w] = p.n
                     THEN stolen \cup {p.n} ELSE stolen
        /\ UNCHANGED <<boards, said, overlap, presses>>
        /\ UNCHANGED <<chat, job, up>>

\* Mutant of GiveUp: only a context ends the wait, there is no timer.
GiveUpCancelled(o) ==
    /\ asking[o] # 0 /\ o \in Jobs
    /\ asking' = [asking EXCEPT ![o] = 0]
    /\ UNCHANGED <<cbCh, boards, said, cache, ran, stolen, overlap, presses>>
    /\ UNCHANGED <<chat, job, up>>
\* The timer of the wait, or the context of a cancelled job.
GiveUp(o) ==
    /\ asking[o] # 0
    /\ asking' = [asking EXCEPT ![o] = 0]
    /\ UNCHANGED <<cbCh, boards, said, cache, ran, stolen, overlap, presses>>
    /\ UNCHANGED <<chat, job, up>>

\* The TTL of an approval passes.
Expire(key) ==
    /\ cache[key] # 0
    /\ cache' = [cache EXCEPT ![key] = 0]
    /\ UNCHANGED <<cbCh, asking, boards, said, ran, stolen, overlap, presses>>
    /\ UNCHANGED <<chat, job, up>>
-----------------------------------------------------------------------------
\* The main loop.

Settle(n, what) == fate' = [fate EXCEPT ![n] = what]
Busy == main.st = "orch" /\ asking[Main] = 0 /\ up
Called == main' = [main EXCEPT !.calls = @ + 1]

\* The next message: rejected senders and photos that could not be downloaded
\* and carry no caption are skipped.
Take ==
    /\ up /\ main.st = "idle" /\ msgCh # <<>>
    /\ msgCh' = Tail(msgCh)
    /\ LET n == Head(msgCh) IN
       /\ IF kind[n] \in {"foreign", "blank"} THEN Settle(n, "skipped")
          ELSE UNCHANGED fate
       /\ main' = CASE kind[n] = "ask" -> [st |-> "orch", msg |-> n, calls |-> 0]
                    [] kind[n] = "google" -> [st |-> "auth", msg |-> n, calls |-> 0]
                    [] OTHER -> Idle
    /\ UNCHANGED <<kind, updates, readers, ask, job, up>>

\* processMessage ends: the reply is sent.
Respond ==
    /\ Busy /\ main' = Idle /\ Settle(main.msg, "handled")
    /\ UNCHANGED <<kind, updates, msgCh, readers, ask, job, up>>

MainCalls(key) ==
    /\ Busy /\ main.calls < MaxCalls /\ Called
    /\ GatedCall(Main, key)
    /\ UNCHANGED <<kind, fate, updates, msgCh, readers, job, up>>

PromptUser ==
    /\ Busy /\ main.calls < MaxCalls /\ Called
    /\ AskMenu(Main)
    /\ UNCHANGED <<kind, fate, updates, msgCh, readers, job, up>>

\* reply_to_job.  A send on a closed channel panics, even in a select.
ReplyToJob(j) ==
    /\ Busy /\ main.calls < MaxCalls /\ Called
    /\ up' = ~(Registered(j) /\ job[j].closed)
    /\ job' = IF Registered(j) /\ ~job[j].closed
              THEN [job EXCEPT ![j].buf = 1] ELSE job
    /\ UNCHANGED <<kind, fate, updates, msgCh, readers, ask>>

\* cancel_job and Cancel.  The context it also ends makes the inference fail,
\* if it is in time, as Failed allows at any moment.
CancelJob(j) ==
    /\ Busy /\ main.calls < MaxCalls /\ Called
    /\ job' = IF Registered(j) THEN [job EXCEPT ![j].closed = TRUE] ELSE job
    /\ UNCHANGED <<kind, fate, updates, msgCh, readers, ask, up>>

\* The orchestrator asks for a background job: acknowledged, and the message
\* is done.
SpawnJob(j) ==
    /\ Busy /\ job[j].st = "none"
    /\ job' = [job EXCEPT ![j].st = "new"]
    /\ main' = Idle /\ Settle(main.msg, "handled")
    /\ UNCHANGED <<kind, updates, msgCh, readers, ask, up>>
-----------------------------------------------------------------------------
\* /google: GetClient waits for a reply at most five minutes, its ReadReply
\* for ever.

\* ReadReply returns the next text it receives, whoever sent it; a message
\* without text it drops.
GotReply == kind[Head(msgCh)] # "blank"
Read == [fate EXCEPT ![Head(msgCh)] = IF GotReply THEN "read" ELSE "skipped"]

AuthReads ==
    /\ up /\ main.st = "auth" /\ msgCh # <<>> /\ msgCh' = Tail(msgCh)
    /\ IF GotReply THEN /\ main' = Idle
                        /\ fate' = [Read EXCEPT ![main.msg] = "handled"]
                   ELSE /\ fate' = Read /\ UNCHANGED main
    /\ UNCHANGED <<kind, updates, readers, ask, job, up>>

AuthTimesOut ==
    /\ up /\ main.st = "auth"
    /\ main' = Idle /\ readers' = readers + 1
    /\ Settle(main.msg, "handled")
    /\ UNCHANGED <<kind, updates, msgCh, ask, job, up>>

\* Mutant of LeftoverReads: the reader goes on reading.
LeftoverReadsOn ==
    /\ up /\ readers > 0 /\ msgCh # <<>> /\ msgCh' = Tail(msgCh) /\ fate' = Read
    /\ UNCHANGED <<kind, updates, main, readers, ask, job, up>>
LeftoverReads ==
    /\ up /\ readers > 0 /\ msgCh # <<>> /\ msgCh' = Tail(msgCh) /\ fate' = Read
    /\ readers' = IF GotReply THEN readers - 1 ELSE readers
    /\ UNCHANGED <<kind, updates, main, ask, job, up>>
-----------------------------------------------------------------------------
\* runBackgroundJob.

Working(j) == job[j].st = "infer" /\ asking[j] = 0 /\ up

\* A new context, SetActive(true), and a slot.
Round(j) ==
    /\ up /\ job[j].st = "new"
    /\ job' = IF job[j].rounds = MaxRounds
              THEN [job EXCEPT ![j].st = "ending"]
              ELSE [job EXCEPT ![j] = [@ EXCEPT !.st = "infer", !.rounds = @ + 1]]
    /\ UNCHANGED <<chat, ask, up>>

JobCalls(j, key) ==
    /\ Working(j)
    /\ GatedCall(j, key)
    /\ UNCHANGED <<chat, job, up>>

\* QueryOrchestrator returns a reply: the job is complete if its tool has
\* succeeded, and parks with a question if not.
Answered(j) ==
    /\ Working(j)
    /\ \E next \in {"ending", "parked"} : job' = [job EXCEPT ![j].st = next]
    /\ UNCHANGED <<chat, ask, up>>

\* QueryOrchestrator returns an error, its own or that of the context.
Failed(j) ==
    /\ Working(j)
    /\ job' = [job EXCEPT ![j].st = "ending"]
    /\ UNCHANGED <<chat, ask, up>>

\* Mutant of Wake: only a message unparks the job.
WakeByMessage(j) ==
    /\ up /\ job[j].st = "parked" /\ job[j].buf = 1
    /\ job' = [job EXCEPT ![j].st = "new", ![j].buf = 0]
    /\ UNCHANGED <<chat, ask, up>>
\* The receive from InputCh: a message that was in it before the close comes
\* out first.
Wake(j) ==
    /\ up /\ job[j].st = "parked"
    /\ job[j].buf = 1 \/ job[j].closed
    /\ job' = [job EXCEPT ![j].st = IF job[j].buf = 1 THEN "new" ELSE "ending",
                          ![j].buf = 0]
    /\ UNCHANGED <<chat, ask, up>>

\* The last message has been sent and RemoveJob runs.
Removed(j) ==
    /\ up /\ job[j].st = "ending"
    /\ job' = [job EXCEPT ![j].st = "gone"]
    /\ UNCHANGED <<chat, ask, up>>
-----------------------------------------------------------------------------
\* The process is started again: what was in memory is gone, the keyboards
\* in the chat are not.
Restart ==
    /\ ~up /\ up' = TRUE
    /\ msgCh' = <<>> /\ cbCh' = <<>> /\ main' = Idle /\ readers' = 0
    /\ fate' = [n \in DOMAIN fate |->
                  IF \E i \in DOMAIN msgCh : msgCh[i] = n THEN "lost"
                  ELSE IF main.st # "idle" /\ main.msg = n THEN "lost" ELSE fate[n]]
    /\ job' = [j \in Jobs |-> IF job[j].st = "none" THEN Silent
                              ELSE [Silent EXCEPT !.st = "gone"]]
    /\ asking' = [o \in Owners |-> 0] /\ cache' = [k \in Keys |-> 0]
    /\ UNCHANGED <<kind, updates, boards, said, ran, stolen, overlap, presses>>

JobStep(j) ==
    \/ Round(j) \/ Answered(j) \/ Failed(j) \/ Wake(j) \/ Removed(j)

Next ==
    \/ \E k \in Kinds : UserSends(k)
    \/ \E b \in DOMAIN boards, yes, ok \in BOOLEAN : UserPresses(b, yes, ok)
    \/ Split \/ Take \/ Respond \/ PromptUser
    \/ \E o \in Owners : Receive(o) \/ GiveUp(o)
    \/ \E k \in Keys : Expire(k) \/ MainCalls(k)
    \/ \E j \in Jobs : ReplyToJob(j) \/ CancelJob(j) \/ SpawnJob(j)
    \/ AuthReads \/ AuthTimesOut \/ LeftoverReads
    \/ \E j \in Jobs, k \in Keys : JobCalls(j, k)
    \/ \E j \in Jobs : JobStep(j)
    \/ Restart

Spec == Init /\ [][Next]_vars

\* The goroutines run, a model server answers or fails, and every timer fires.
\* Nothing is assumed of the user.
Fairness ==
    /\ WF_vars(Split) /\ WF_vars(Take) /\ WF_vars(Respond) /\ WF_vars(AuthTimesOut)
    /\ \A o \in Owners : WF_vars(GiveUp(o))
    /\ \A j \in Jobs : WF_vars(JobStep(j))
    /\ WF_vars(Restart)

FairSpec == Spec /\ Fairness
-----------------------------------------------------------------------------
\* A gated call is executed only under a keyboard that asked about its own
\* key and on which an allowed user pressed the approving button (confirm.go:26,
\* telegram.go:215): a late press on an old keyboard approves nothing else.
ApprovedBeforeRun ==
    \A r \in ran : boards[r[2]] = r[1] /\ TRUE \in said[r[2]]

\* A press on a keyboard that is still waited on is dropped only when two
\* waits have overlapped (telegram.go:215-217): with one wait at a time a
\* press in time is heard.
PressHeard == stolen # {} => overlap

\* A cancelled job leaves the registry (background_jobs.go:63), whatever it
\* was doing.
CancelledJobEnds ==
    \A j \in Jobs : (Registered(j) /\ job[j].closed) ~> (job[j].st = "gone")

\* The splitter blocks on a full callback channel that nobody reads.
Jammed ==
    /\ updates # <<>> /\ Head(updates).t = "press"
    /\ Len(cbCh) = CbCap /\ Waiting = {}

\* Every message is dealt with (main.go:329), unless presses on keyboards
\* nobody waits on have filled the callback channel (telegram.go:57).
MessageDealtWith ==
    \A n \in 1..MaxMsgs :
        (n \in DOMAIN fate) ~> (Jammed \/ (n \in DOMAIN fate /\ fate[n] # "waiting"))

\* Each /google takes at most one message for itself, be it the code or, once
\* its flow has timed out, a message meant for the bot (auth.go:122).
OneReadPerGoogle ==
    readers + Cardinality({n \in DOMAIN fate : fate[n] = "read"})
        <= Cardinality({n \in DOMAIN kind : kind[n] = "google"})
=============================================================================
