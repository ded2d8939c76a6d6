-------------------------------- MODULE Profile --------------------------------
(***************************************************************************)
(* What the assistant knows about its user and itself: the identity        *)
(* profile, which consolidation merges high-salience memories into and     *)
(* /bootstrap replaces, the personality traits, the user preferences, and  *)
(* the copies of all three that the engine puts into every prompt.         *)
(*                                                                         *)
(* Two goroutines may be at it at once: the heartbeat's cognitive run,     *)
(* `cog`, and one other, which is a consolidation of the tool, of a        *)
(* paradigm shift or of the start, a bootstrap, or a change of a trait.    *)
(* A high-salience memory is the person it is about, the profile is its    *)
(* list of important people, and what the deep thinker makes of a memory   *)
(* is a choice.  There is one trait and one preference.                    *)
(***************************************************************************)
EXTENDS Integers, Sequences, FiniteSetsExt, SequencesExt

CONSTANTS
    People,     \* persons who may get a high-salience memory
    Old,        \* one the profile of an earlier run may know
    Cap,        \* people a profile holds (15 in the code)
    Values,     \* values of the trait and of the preference
    MaxEvents   \* bound on memories, commands, tool calls and faults

ASSUME ProfileAssumption == Cap \in Nat \ {0} /\ MaxEvents \in Nat

VARIABLES
    mem,       \* high-salience memories of the last 24 hours
    unread,    \* history: those no consolidation has read
    nudging,   \* those whose triage is about to call NudgeConsolidate
    nudge,     \* consolidateNudge
    active,    \* identity rows not superseded, by created_at: [by, who, sees, open]
    run,       \* cog and other: [at, kind, left, base, new, got, excused]
    trait,     \* personality_traits
    pref,      \* user_preferences, and StateManager's copy of it
    engine,    \* the Engine's ProfileContent and PersonalityContent
    events     \* the bound's counter

memories == <<mem, unread, nudging, nudge>>
vars == <<memories, active, run, trait, pref, engine, events>>

Runs == {"cog", "other"}
Event == events < MaxEvents /\ events' = events + 1
Known == {i \in DOMAIN active : ~active[i].open}

\* GetIdentityProfile: the newest row that is not superseded, or "{}".
Current == IF Known = {} THEN <<>> ELSE active[Max(Known)].who

\* mergeProfileJSON: a new person is appended, and of too many the last are kept.
Merged(who, p) ==
    LET all == IF Contains(who, p) THEN who ELSE Append(who, p) IN
    SubSeq(all, Len(all) - (IF Len(all) > Cap THEN Cap ELSE Len(all)) + 1, Len(all))

Resting == [at |-> "rest", kind |-> "cog", left |-> {}, base |-> <<>>, new |-> <<>>,
            got |-> [who |-> <<>>, trait |-> "none"], excused |-> FALSE]

\* FormatPersonalityForPrompt and GetIdentityProfile: what the prompt should have.
Prompt == [who |-> Current, trait |-> trait]

Init ==
    /\ mem = {} /\ unread = {} /\ nudging = {} /\ nudge = FALSE
    /\ \/ active = <<>>
       \/ active = <<[by |-> "cog", who |-> <<Old>>, sees |-> {}, open |-> FALSE]>>
    /\ run = [c \in Runs |-> Resting]
    /\ trait = "none" /\ pref = [db |-> "none", sm |-> "none"]
    /\ engine = Prompt
    /\ events = 0
-----------------------------------------------------------------------------
\* Triage saves a memory of salience 8 or more, and then nudges.
Save(p) ==
    /\ Event /\ p \notin mem /\ mem' = mem \cup {p}
    /\ unread' = unread \cup {p} /\ nudging' = nudging \cup {p}
    /\ UNCHANGED <<nudge, active, run, trait, pref, engine>>

Nudge(p) ==
    /\ p \in nudging /\ nudging' = nudging \ {p} /\ nudge' = TRUE
    /\ UNCHANGED <<mem, unread, active, run, trait, pref, engine, events>>

Begin(kind, at) == run' = [run EXCEPT !["other"] = [Resting EXCEPT !.at = at, !.kind = kind]]

\* A paradigm shift does not nudge: it starts a consolidation of its own, but
\* only when the deep thinker has made its transition memory.
Shift(p) ==
    /\ Event /\ p \notin mem /\ mem' = mem \cup {p}
    /\ run["other"].at = "rest" /\ Begin("shift", "transition")
    /\ UNCHANGED <<unread, nudging, nudge, active, trait, pref, engine>>

Transition ==
    /\ run["other"].at = "transition"
    /\ \/ run' = [run EXCEPT !["other"].at = "query"] /\ UNCHANGED events
       \/ run' = [run EXCEPT !["other"] = Resting] /\ Event
    /\ UNCHANGED <<memories, active, trait, pref, engine>>

\* The nudge is cleared before anything is read, whichever trigger it was.
Cognitive ==
    /\ run["cog"].at = "rest"
    /\ run' = [run EXCEPT !["cog"].at = "query"]
    /\ nudge' = FALSE
    /\ UNCHANGED <<mem, unread, nudging, active, trait, pref, engine, events>>

\* The tool consolidate_memory.
ConsolidateMemory ==
    /\ Event /\ run["other"].at = "rest" /\ Begin("tool", "query")
    /\ UNCHANGED <<memories, active, trait, pref, engine>>

\* The start's consolidation, skipped when no memory is newer than the last one.
InitialConsolidation ==
    /\ Event /\ run["other"].at = "rest"
    /\ \E at \in {"query", "done"} : Begin("start", at)
    /\ UNCHANGED <<memories, active, trait, pref, engine>>
-----------------------------------------------------------------------------
\* ConsolidateCore.

Open(c) == \E i \in DOMAIN active : active[i].open /\ active[i].by # c

\* The memories first; without any the tool's run ends here.  A profile that
\* cannot be read counts as empty.
Query(c) ==
    /\ run[c].at = "query" /\ unread' = {}
    /\ IF mem = {}
       THEN /\ run' = [run EXCEPT ![c].at = IF run[c].kind = "tool" THEN "stopped" ELSE "done"]
            /\ UNCHANGED events
       ELSE \E read \in BOOLEAN :
              /\ IF read THEN UNCHANGED events ELSE Event
              /\ run' = [run EXCEPT ![c].at = "batch", ![c].left = mem,
                           ![c].base = IF read THEN Current ELSE <<>>,
                           ![c].excused = ~read \/ Open(c)]
    /\ UNCHANGED <<mem, nudging, nudge, active, trait, pref, engine>>

\* The deep thinker's answer for a batch: a person to merge, or none.
Batch(c) ==
    /\ run[c].at = "batch"
    /\ \E p \in run[c].left, learn \in BOOLEAN :
         LET new == IF learn THEN Merged(run[c].base, p) ELSE run[c].base IN
         run' = [run EXCEPT ![c].left = @ \ {p}, ![c].new = new,
                   ![c].at = IF new = run[c].base THEN "carry" ELSE "write"]
    /\ UNCHANGED <<memories, active, trait, pref, engine, events>>

After(c) == IF run[c].left = {} THEN "done" ELSE "batch"

\* Mutant of Carry: every batch starts from the first profile.
CarryNothing(c) ==
    /\ run[c].at = "carry"
    /\ run' = [run EXCEPT ![c].at = After(c)]
    /\ UNCHANGED <<memories, active, trait, pref, engine, events>>
\* Its updates of traits are stored.  The next batch starts from the profile as
\* it now is, or, where it cannot be read, from the one before.
Carry(c) ==
    /\ run[c].at = "carry" /\ trait' \in Values \cup {trait, "none"}
    /\ \E read \in BOOLEAN :
         /\ IF read THEN UNCHANGED events ELSE Event
         /\ run' = [run EXCEPT ![c].at = After(c),
                      ![c].base = IF read THEN Current ELSE @,
                      ![c].excused = ~read \/ Open(c)]
    /\ UNCHANGED <<memories, active, pref, engine>>

\* The deep thinker fails or answers no JSON, and what earlier batches wrote
\* stays; the start's consolidation may begin again, as a bootstrap may, which
\* has changed nothing.  Or a refresh fails.
Fail(c) ==
    /\ Event
    /\ \/ run[c].at \in {"batch", "boot"} /\ run' = [run EXCEPT ![c].at = "stopped"]
       \/ run[c].at = "batch" /\ run[c].kind = "start" /\ run' = [run EXCEPT ![c].at = "query"]
       \/ run[c].at = "refresh" /\ run' = [run EXCEPT ![c] = Resting]
    /\ UNCHANGED <<memories, active, trait, pref, engine>>
-----------------------------------------------------------------------------
\* WriteIdentityProfile.  The transaction inserts a row and supersedes those it
\* sees, waiting for an earlier one that supersedes one of them; what that one
\* inserts it does not see.
WriteBegins(c) ==
    /\ run[c].at = "write"
    /\ active' = Append(active, [by |-> c, who |-> run[c].new, open |-> TRUE,
                     sees |-> Known])
    /\ run' = [d \in Runs |-> IF d = c THEN [run[c] EXCEPT !.at = "commit"]
                              ELSE [run[d] EXCEPT !.excused = TRUE]]
    /\ UNCHANGED <<memories, trait, pref, engine, events>>

Mine(c) == CHOOSE i \in DOMAIN active : active[i].open /\ active[i].by = c

\* The place of i among the members of S, and the member at a place.
Place(S, i) == Cardinality({j \in S : j <= i})
Nth(S, k) == CHOOSE i \in S : Place(S, i) = k

\* The rows at places in gone leave the sequence.
Drop(rows, gone) ==
    LET left == DOMAIN rows \ gone IN
    [k \in 1..Cardinality(left) |->
       [rows[Nth(left, k)] EXCEPT !.sees = {Place(left, i) : i \in @ \ gone}]]

Commit(c) ==
    LET mine == Mine(c) IN
    /\ run[c].at = "commit"
    /\ \A i \in 1..(mine - 1) : active[i].open => active[i].sees \cap active[mine].sees = {}
    /\ active' = Drop([active EXCEPT ![mine].open = FALSE, ![mine].sees = {}],
                      active[mine].sees)
    /\ run' = [d \in Runs |->
                 IF d # c THEN [run[d] EXCEPT !.excused = TRUE]
                 ELSE [run[c] EXCEPT !.at = IF run[c].kind = "boot" THEN "done" ELSE "carry"]]
    /\ UNCHANGED <<memories, trait, pref, engine, events>>

Rollback(c) ==
    /\ Event /\ run[c].at = "commit"
    /\ active' = Drop(active, {Mine(c)})
    /\ run' = [run EXCEPT ![c].at = "stopped"]
    /\ UNCHANGED <<memories, trait, pref, engine>>
-----------------------------------------------------------------------------
\* /bootstrap: its traits and preferences first, then a card that replaces the
\* profile, whatever that is by now.
Bootstrap ==
    /\ Event /\ run["other"].at = "rest" /\ Begin("boot", "boot")
    /\ UNCHANGED <<memories, active, trait, pref, engine>>

BootstrapAttempt ==
    /\ run["other"].at = "boot"
    /\ \E v \in Values \cup {trait, "none"}, u \in Values \cup {pref.db},
          who \in {<<>>} \cup {<<p>> : p \in People} :
         /\ trait' = v /\ pref' = [pref EXCEPT !.db = u]
         /\ run' = [run EXCEPT !["other"].at = "write", !["other"].new = who]
    /\ UNCHANGED <<memories, active, engine, events>>

\* UpsertPersonalityTrait and DeletePersonalityTrait, by a run of kind that then
\* refreshes.
SetTrait(v, kind) ==
    /\ Event /\ run["other"].at = "rest" /\ v # trait /\ trait' = v /\ Begin(kind, "done")
    /\ UNCHANGED <<memories, active, pref, engine>>

ManagePersonality == \E v \in Values \cup {"none"} : SetTrait(v, "tool trait")

\* A memory tagged as a preference becomes a trait at once; the profile is
\* refreshed as well.
PreferenceFastPath == \E v \in Values : SetTrait(v, "fast path")

\* SetPref and DeletePref: the copy first, then the table, which may fail.
SetPref(v) ==
    /\ Event /\ pref.sm # v
    /\ \/ pref' = [db |-> v, sm |-> v]
       \/ pref' = [pref EXCEPT !.sm = v]
    /\ UNCHANGED <<memories, active, run, trait, engine>>

\* The tool set_preference; an empty value removes.
SetPreference == \E v \in Values \cup {"none"} : SetPref(v)

\* Every heartbeat takes over what the table has, and only adds.
RefreshPrefs ==
    /\ pref.db # "none" /\ pref' = [pref EXCEPT !.sm = pref.db]
    /\ UNCHANGED <<memories, active, run, trait, engine, events>>
-----------------------------------------------------------------------------
\* RefreshProfile and RefreshPersonality read, though not for a tool or a
\* bootstrap that failed, ...
Ends(c) ==
    /\ run[c].at \in {"done", "stopped"}
    /\ run' = [run EXCEPT ![c] =
                 IF run[c].at = "stopped" /\ run[c].kind \in {"tool", "boot"} THEN Resting
                 ELSE [@ EXCEPT !.at = "refresh", !.got = Prompt]]
    /\ UNCHANGED <<memories, active, trait, pref, engine, events>>

\* Mutant of Refresh: the nudge is cleared at the end.
RefreshClears(c) ==
    /\ run[c].at = "refresh" /\ run' = [run EXCEPT ![c] = Resting]
    /\ engine' = IF run[c].kind = "tool trait" THEN [engine EXCEPT !.trait = run[c].got.trait]
                 ELSE run[c].got
    /\ nudge' = (nudge /\ c # "cog")
    /\ UNCHANGED <<mem, unread, nudging, active, trait, pref, events>>
\* Mutant of Refresh: the heartbeat's refresh leaves the traits out.
RefreshProfileOnly(c) ==
    /\ run[c].at = "refresh" /\ run' = [run EXCEPT ![c] = Resting]
    /\ engine' = IF run[c].kind = "tool trait" THEN [engine EXCEPT !.trait = run[c].got.trait]
                 ELSE [engine EXCEPT !.who = run[c].got.who]
    /\ UNCHANGED <<memories, active, trait, pref, events>>
\* ... and then assign, without a lock.
Refresh(c) ==
    /\ run[c].at = "refresh" /\ run' = [run EXCEPT ![c] = Resting]
    /\ engine' = IF run[c].kind = "tool trait" THEN [engine EXCEPT !.trait = run[c].got.trait]
                 ELSE run[c].got
    /\ UNCHANGED <<memories, active, trait, pref, events>>

Step(c) ==
    \/ c = "other" /\ (Transition \/ BootstrapAttempt)
    \/ Query(c) \/ Batch(c) \/ Carry(c)
    \/ WriteBegins(c) \/ Commit(c) \/ Ends(c) \/ Refresh(c)

Next ==
    \/ \E p \in People : Save(p) \/ Nudge(p) \/ Shift(p)
    \/ Cognitive \/ ConsolidateMemory \/ InitialConsolidation \/ Bootstrap
    \/ ManagePersonality \/ PreferenceFastPath \/ SetPreference \/ RefreshPrefs
    \/ \E c \in Runs : Step(c) \/ Fail(c) \/ Rollback(c)

Spec == Init /\ [][Next]_vars

\* Goroutines go on, the heartbeat comes again and again, and its ceiling makes
\* it a cognitive run every so often.
FairSpec ==
    /\ Spec /\ WF_vars(Cognitive) /\ WF_vars(RefreshPrefs)
    /\ \A c \in Runs : WF_vars(Step(c))
-----------------------------------------------------------------------------
\* A consolidation keeps the people its profile had, whatever the number of
\* batches, up to the cap (ConsolidateCore: "processed in batches with the
\* profile carried forward between batches"), unless another profile was
\* written meanwhile or the table could not be read.
ProfileKept ==
    \A i \in DOMAIN active :
        LET r == active[i] IN
        (r.open /\ run[r.by].kind # "boot" /\ ~run[r.by].excused)
            => Len(r.who) = Cap \/ \A p \in DOMAIN Current : Contains(r.who, Current[p])

\* A memory no consolidation has read is still going to cause one: its nudge is
\* to come, is there, or was taken by a run that has not read yet.
NudgeKept ==
    unread \subseteq nudging \/ nudge \/ run["cog"].at = "query" \/ run["other"].at = "query"

\* Again and again the prompt has what the tables have, whatever failed.
PromptCurrent ==
    []<>(/\ engine = Prompt
         /\ pref.db \in {"none", pref.sm})
=============================================================================
