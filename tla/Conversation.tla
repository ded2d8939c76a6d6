---------------------------- MODULE Conversation ----------------------------
(***************************************************************************)
(* The conversation that all loops share (engine/state.go) and the slide   *)
(* that keeps it short (engine/slide.go).  Writers append the transcript   *)
(* of an orchestrator run message by message; sliders then cut the oldest  *)
(* part off and hand its text to the distillation.  Every access takes the *)
(* StateManager's lock by itself, so another loop can come in between.     *)
(***************************************************************************)
EXTENDS Integers, Sequences, FiniteSets, FiniteSetsExt, Functions

CONSTANTS
    Writers,      \* loops that append transcripts
    Sliders,      \* the writers that slide afterwards: message loop, heartbeat
    Recovering,   \* the writers that recover from a panic: heartbeatTick
    MaxMessages,  \* MAX_MESSAGES (40)
    MaxRounds,    \* bound: tool rounds of a run (the code allows 15)
    MaxAppended   \* bound: messages appended in a behaviour

ASSUME ConversationAssumption ==
    /\ Sliders \subseteq Writers
    /\ Recovering \subseteq Writers
    /\ MaxMessages \in Nat \ {0}
    /\ MaxRounds \in Nat /\ MaxAppended \in Nat

VARIABLES
    messages,  \* StateManager.messages
    pc,        \* writer -> where it is; "dead" when a panic ended the process
    turn,      \* writer -> messages it has yet to append
    old,       \* slider -> the messages it read, archived and means to remove
    appended,  \* history: number of messages appended
    surplus    \* history: slider -> kind -> messages it archived, less those it removed

conversationVars == <<messages, pc, turn, old, appended, surplus>>

-----------------------------------------------------------------------------
(***************************************************************************)
(* Messages are told apart by what the slide sees in them.  "result" is    *)
(* the text isToolMessage recognises; "error" is the other half of a tool  *)
(* exchange, "Tool error (attempt 1/3)", which it does not.  A call whose  *)
(* text starts with its reasoning is not recognised either and counts as   *)
(* a "reply".  Messages of a kind may have equal text, the hardest case    *)
(* for the fingerprint (Time is not part of it).                           *)
(***************************************************************************)
Kinds == {"user", "reply", "call", "result", "error"}

isSafeBoundary(k) == k \in {"user", "reply", "error"}

Exchanges == {<<"call", "result">>, <<"call", "error">>,
              <<"reply", "result">>, <<"reply", "error">>}

(* What RunLoop returns after the history: the prompt, the exchange of      *)
(* every round, and the reply unless the run ended in an error.            *)
Rounds(n) == {s \in [1 .. 2 * n -> Kinds] :
                 \A i \in 1 .. n : <<s[2 * i - 1], s[2 * i]>> \in Exchanges}
Transcripts ==
    UNION {{<<"user">> \o s, <<"user">> \o s \o <<"reply">>} :
              s \in UNION {Rounds(n) : n \in 0 .. MaxRounds}}

At(s, i) == s[i + 1]                            \* the code counts from 0
Slice(s, from, to) == SubSeq(s, from + 1, to)   \* s[from:to]
Tally(s) == [k \in Kinds |-> Cardinality({i \in DOMAIN s : s[i] = k})]

(***************************************************************************)
(* The cut of a snapshot: the last safe boundary up to the naive cutoff,   *)
(* else the first one after it, else the naive cutoff itself.  A boundary  *)
(* at index 0 or 1 counts as none.                                         *)
(***************************************************************************)
NaiveCutoff(s) == Len(s) - MaxMessages

Boundaries(s, from, to) == {i \in from .. to : i >= 0 /\ isSafeBoundary(At(s, i))}

\* Mutant of SafeIndex: no forced truncation.
Unforced(s) ==
    LET safe == Boundaries(s, 2, Len(s) - 2)
        back == {i \in safe : i <= NaiveCutoff(s)}
    IN  IF back # {} THEN Max(back) ELSE IF safe # {} THEN Min(safe) ELSE 1

SafeIndex(s) ==
    LET naive    == NaiveCutoff(s)
        backward == Boundaries(s, 2, naive)
        forward  == Boundaries(s, naive + 1, Len(s) - 2)
    IN  IF backward # {} THEN Max(backward)
        ELSE IF forward # {} /\ Min(forward) > 1 THEN Min(forward)
        ELSE naive

(* An index, or the slice that is archived, is out of range.               *)
Panics(s) == NaiveCutoff(s) + 1 < 0 \/ SafeIndex(s) < 1

-----------------------------------------------------------------------------
ConversationInit ==
    /\ messages = <<>>
    /\ pc = [w \in Writers |-> "idle"]
    /\ turn = [w \in Writers |-> <<>>]
    /\ old = [w \in Sliders |-> <<>>]
    /\ appended = 0
    /\ surplus = [w \in Sliders |-> [k \in Kinds |-> 0]]

GoTo(w, l) == pc' = [pc EXCEPT ![w] = l]

(* What the writers hold in hand counts against the bound too.              *)
Room == MaxAppended - appended - SumFunction([w \in Writers |-> Len(turn[w])])

(* A run of the orchestrator ends; its transcript is still to be appended.  *)
(* A heartbeat in a stale conversation, or with nothing to do, appends none.*)
Turn(w) ==
    /\ pc[w] = "idle"
    /\ \E t \in Transcripts :
        /\ Len(t) <= Room
        /\ turn' = [turn EXCEPT ![w] = t]
    /\ GoTo(w, "append")
    /\ UNCHANGED <<messages, old, appended, surplus>>

Tick(w) ==
    /\ w \in Sliders \cap Recovering
    /\ pc[w] = "idle"
    /\ GoTo(w, "count")
    /\ UNCHANGED <<messages, turn, old, appended, surplus>>

AppendOne(k) ==
    /\ messages' = Append(messages, k)
    /\ appended' = appended + 1

(* The next message of a transcript.                                        *)
AppendMessage(w) ==
    /\ pc[w] = "append"
    /\ turn[w] # <<>>
    /\ AppendOne(Head(turn[w]))
    /\ turn' = [turn EXCEPT ![w] = Tail(@)]
    /\ IF Len(turn[w]) > 1 THEN UNCHANGED pc
       ELSE GoTo(w, IF w \in Sliders THEN "count" ELSE "idle")
    /\ UNCHANGED <<old, surplus>>

(* A single message of a routine, a reflection, a job that ended or that    *)
(* the message loop handed over.                                            *)
Alive == \A w \in Writers : pc[w] # "dead"

Deliver ==
    /\ Alive
    /\ Room > 0
    /\ \E k \in {"user", "reply"} : AppendOne(k)
    /\ UNCHANGED <<pc, turn, old, surplus>>

-----------------------------------------------------------------------------
(* SlideAndArchiveContext: MessageCount, then ReadMessages with the cut and *)
(* the launch of the archive, then SlideMessages.                           *)
Count(w) ==
    /\ pc[w] = "count"
    /\ GoTo(w, IF Len(messages) <= MaxMessages THEN "idle" ELSE "read")
    /\ UNCHANGED <<messages, turn, old, appended, surplus>>

Read(w) ==
    /\ pc[w] = "read"
    /\ ~Panics(messages)
    /\ LET part == Slice(messages, 1, SafeIndex(messages))
       IN  /\ old' = [old EXCEPT ![w] = part]
           /\ surplus' = [surplus EXCEPT ![w] = [k \in Kinds |-> @[k] + Tally(part)[k]]]
    /\ GoTo(w, "slide")
    /\ UNCHANGED <<messages, turn, appended>>

(* Another slide shortened the conversation after the count: the heartbeat  *)
(* loses the rest of its tick, the message loop takes the process down.     *)
Panic(w) ==
    /\ pc[w] = "read"
    /\ Panics(messages)
    /\ IF w \in Recovering THEN GoTo(w, "idle") ELSE pc' = [v \in Writers |-> "dead"]
    /\ UNCHANGED <<messages, turn, old, appended, surplus>>

\* Mutant of Unchanged: only the length is looked at.
LongEnough(w) == Len(messages) > Len(old[w]) + 1

(* The messages that were read, or others with the same texts, are still the*)
(* oldest ones.                                                             *)
Unchanged(w) ==
    LET cut == Len(old[w]) + 1
    IN  Len(messages) > cut /\ Slice(messages, 1, cut) = old[w]

SlideMessages(w) ==
    /\ pc[w] = "slide"
    /\ IF Unchanged(w)
       THEN LET cut == Len(old[w]) + 1
            IN  /\ messages' = Slice(messages, 0, 1) \o Slice(messages, cut, Len(messages))
                /\ surplus' = [surplus EXCEPT ![w] =
                                [k \in Kinds |-> @[k] - Tally(messages)[k] + Tally(messages')[k]]]
       ELSE UNCHANGED <<messages, surplus>>
    /\ old' = [old EXCEPT ![w] = <<>>]
    /\ GoTo(w, "idle")
    /\ UNCHANGED <<turn, appended>>

-----------------------------------------------------------------------------
Slide(w) == Count(w) \/ Read(w) \/ Panic(w) \/ SlideMessages(w)

ConversationNext ==
    \/ \E w \in Writers : Turn(w) \/ Tick(w) \/ AppendMessage(w)
    \/ \E w \in Sliders : Slide(w)
    \/ Deliver

ConversationSpec == ConversationInit /\ [][ConversationNext]_conversationVars

(* The goroutines run, and the ticker of the heartbeat fires for ever.      *)
ConversationFairSpec ==
    /\ ConversationSpec
    /\ \A w \in Writers : WF_conversationVars(AppendMessage(w))
    /\ \A w \in Sliders : WF_conversationVars(Slide(w))
    /\ \A w \in Sliders \cap Recovering : WF_conversationVars(Tick(w))

-----------------------------------------------------------------------------
(* However the two slides overlap, a slide takes a message out of the        *)
(* conversation only after it handed a message of that text to the archive:  *)
(* the fingerprint ignores time, so it may cut off other messages than it    *)
(* read, but never ones whose text it did not hand over, nor rely on what    *)
(* the other one archived (slide.go:117-123, state.go:258-281).              *)
NothingLost ==
    \A w \in Sliders, k \in Kinds : surplus[w][k] >= 0

(* Once nothing more is appended the heartbeat's slides bring the           *)
(* conversation down to the limit and one, although slides abort each other *)
(* and a tick can be lost to a panic: it does not grow for ever             *)
(* (slide.go:71-77).                                                        *)
ContextSettles == Len(messages) > MaxMessages + 1 ~> ~Alive \/ Len(messages) <= MaxMessages + 1
=============================================================================
