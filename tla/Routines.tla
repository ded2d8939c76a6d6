-------------------------------- MODULE Routines --------------------------------
(***************************************************************************)
(* The routines: the TOML file that is their source of truth, the table    *)
(* made from it, the ticker that looks for changes of the file and then    *)
(* runs what is due, /reload, and manage_routines, which writes the table  *)
(* first and the file afterwards.  One routine calls a Google tool, with   *)
(* the credentials of GoogleAccess.                                        *)
(*                                                                         *)
(* The time of the file's last change is only ever compared with the one   *)
(* the ticker saw last, and `seen` is the outcome of that comparison.  The *)
(* clock is left out: a row falls due, by its interval or its schedule,    *)
(* and stays so until its timer is advanced.                               *)
(***************************************************************************)
EXTENDS GoogleAccess, FiniteSets

CONSTANTS
    Names,      \* names of routines
    Versions,   \* valid entries of the file
    Mail,       \* the routine whose action is a Google tool
    MaxEvents   \* bound on edits, commands, tool calls, faults and restarts

\* Where the scheduler stands between two runs; during one it is at the name.
Places == {"idle", "read", "apply", "query", "batch"}

ASSUME RoutinesAssumption ==
    Mail \in Names /\ Names \cap Places = {} /\ MaxEvents \in Nat

VARIABLES
    toml,     \* the entries of the file: "none", "bad" (invalid) or a version
    parses,   \* the file is valid TOML
    seen,     \* lastMtime: "zero", "old" or "cur"(rent)
    db,       \* the table: "none" or a version
    due,      \* rows whose interval or schedule has come
    tick,     \* the scheduler: [at, has, cur, torn]
    batch,    \* what executeDueRoutines has still to run, the running one first
    gone,     \* of these, the ones whose row was deleted meanwhile
    reload,   \* /reload: [on, has]
    writer,   \* manage_routines between table and file: [at, full, name, entry]
    runs,     \* history: runs of a row since it last fell due
    missed,   \* history: a difference of table and file that no look will mend
    events    \* the bound's counter

files == <<toml, parses, seen, missed>>
table == <<db, due, gone>>
ticker == <<tick, batch, runs>>
routinesVars == <<google, files, table, ticker, reload, writer, events>>

Empty == [n \in Names |-> "none"]
Idle == [at |-> "idle", has |-> Empty, cur |-> FALSE, torn |-> FALSE]
NotReloading == [on |-> FALSE, has |-> Empty]
NotWriting == [at |-> "no", full |-> Empty, name |-> Mail, entry |-> "none"]
Event == events < MaxEvents /\ events' = events + 1

\* validateEntry and the parsing of intervals and schedules before it.
Valid(e) == e \in Versions

\* What SyncFromFile makes of a table: invalid entries keep their row, entries
\* whose statement failed too, and rows without an entry are deleted.
Synced(rows, f, failed) ==
    [n \in Names |-> IF f[n] = "bad" \/ n \in failed THEN rows[n] ELSE f[n]]
Same(f, rows) == Synced(rows, f, {}) = rows

RoutinesInit ==
    /\ InitGoogle
    /\ \E v \in Versions : toml = [n \in Names |-> v]
    /\ parses = TRUE /\ seen = "zero" /\ missed = FALSE
    /\ db = toml /\ due = {} /\ gone = {}
    /\ tick = Idle /\ batch = {} /\ runs = [n \in Names |-> 0]
    /\ reload = NotReloading /\ writer = NotWriting /\ events = 0

\* The table becomes rows.  A new row starts with its timer at now.
NewRows(rows) ==
    /\ db' = rows
    /\ due' = {n \in due : rows[n] # "none"}

Rewrite(rows) ==
    /\ NewRows(rows)
    /\ gone' = gone \cup {n \in batch : db[n] # "none" /\ rows[n] = "none"}

\* The file's time moves on.
Touch ==
    /\ seen' = IF seen = "zero" THEN "zero" ELSE "old"
    /\ tick' = [tick EXCEPT !.cur = FALSE]
-----------------------------------------------------------------------------
\* The user edits the file.  What is edited between the start and the first
\* look, which only notes the time, is not seen until the next edit.
Edit(n, e) ==
    /\ Event /\ toml[n] # e /\ toml' = [toml EXCEPT ![n] = e]
    /\ writer.at # "fill"
    /\ parses' = TRUE /\ Touch /\ missed' = (seen = "zero")
    /\ UNCHANGED <<google, table, batch, runs, reload, writer>>

Break ==
    /\ Event /\ parses /\ parses' = FALSE
    /\ writer.at # "fill"
    /\ Touch /\ missed' = (seen = "zero")
    /\ UNCHANGED <<google, toml, table, batch, runs, reload, writer>>

\* Mutant of ToolDeletes: the entry stays in the file.
ToolDeletesRow(n) ==
    /\ Event /\ writer.at = "no" /\ db[n] # "none"
    /\ Rewrite([db EXCEPT ![n] = "none"])
    /\ UNCHANGED <<google, files, ticker, reload, writer>>
\* manage_routines delete: the row, then the entry.  Without a row it returns.
ToolDeletes(n) ==
    /\ Event /\ writer.at = "no" /\ db[n] # "none"
    /\ Rewrite([db EXCEPT ![n] = "none"])
    /\ writer' = [NotWriting EXCEPT !.at = "load", !.name = n]
    /\ UNCHANGED <<google, files, ticker, reload>>

\* manage_routines upsert: the row, with its timer at now, then the entry.
ToolUpserts(n, v) ==
    /\ Event /\ writer.at = "no" /\ db[n] # v
    /\ db' = [db EXCEPT ![n] = v] /\ due' = due \ {n}
    /\ writer' = [NotWriting EXCEPT !.at = "load", !.name = n, !.entry = v]
    /\ UNCHANGED <<google, files, gone, ticker, reload>>

\* FileAdapter: a file that does not parse is left alone, any other is read,
\* then truncated, ...
WriterLoads ==
    /\ writer.at = "load"
    /\ IF parses
       THEN /\ writer' = [NotWriting EXCEPT !.at = "fill",
                            !.full = [toml EXCEPT ![writer.name] = writer.entry]]
            /\ toml' = Empty /\ Touch
            /\ missed' = (missed /\ seen = "zero")
       ELSE writer' = NotWriting /\ UNCHANGED <<toml, seen, tick, missed>>
    /\ UNCHANGED <<google, parses, table, batch, runs, reload, events>>

\* ... and written, perhaps within the same unit of the file's time.
WriterFills ==
    /\ writer.at = "fill" /\ writer' = NotWriting
    /\ toml' = writer.full
    /\ \/ Touch
       \/ UNCHANGED <<seen, tick>>
    /\ missed' = (missed \/ (seen' # "old" /\ ~Same(toml', db)))
    /\ UNCHANGED <<google, parses, table, batch, runs, reload, events>>
-----------------------------------------------------------------------------
\* /reload: SyncFromFile, beside the scheduler.
ReloadReads ==
    /\ Event /\ parses /\ ~reload.on
    /\ reload' = [on |-> TRUE, has |-> toml]
    /\ UNCHANGED <<google, files, table, ticker, writer>>

\* An old content may be written over what the scheduler has just read.
ReloadApplies ==
    /\ reload.on /\ reload' = NotReloading
    /\ Rewrite(Synced(db, reload.has, {}))
    /\ missed' = (reload.has # toml /\ (missed \/ seen # "old"))
    /\ UNCHANGED <<google, toml, parses, seen, ticker, writer, events>>
-----------------------------------------------------------------------------
\* runRoutineScheduler: SyncIfChanged, whose first look only notes the time.
TickLooks ==
    /\ tick.at = "idle"
    /\ IF seen = "old"
       THEN tick' = [Idle EXCEPT !.at = "read", !.cur = TRUE] /\ UNCHANGED seen
       ELSE tick' = [Idle EXCEPT !.at = "query"] /\ seen' = "cur"
    /\ UNCHANGED <<google, toml, parses, missed, table, batch, runs, reload, writer, events>>

\* lastMtime is what was seen before the file was read.
Noted == seen' = IF tick.cur THEN "cur" ELSE "old"

\* Mutant of TickReads: the round ends where the file cannot be read.
TickReadsOrEnds ==
    /\ tick.at = "read"
    /\ tick' = IF parses THEN [tick EXCEPT !.at = "apply", !.has = toml,
                                 !.torn = writer.at = "fill"]
                ELSE Idle
    /\ UNCHANGED <<google, files, table, batch, runs, reload, writer, events>>
\* A file that does not parse is not looked at again until it changes.
TickReads ==
    /\ tick.at = "read"
    /\ IF parses
       THEN /\ tick' = [tick EXCEPT !.at = "apply", !.has = toml,
                          !.torn = writer.at = "fill"]
            /\ UNCHANGED seen
       ELSE tick' = [Idle EXCEPT !.at = "query"] /\ Noted
    /\ UNCHANGED <<google, toml, parses, missed, table, batch, runs, reload, writer, events>>

\* The time is noted whatever failed, and a read of the truncated file may have
\* been its last one.
TickApplies ==
    /\ tick.at = "apply" /\ tick' = [Idle EXCEPT !.at = "query"] /\ Noted
    /\ \E failed \in SUBSET {n \in Names : Valid(tick.has[n])} :
         /\ IF failed = {} THEN UNCHANGED events ELSE Event
         /\ Rewrite(Synced(db, tick.has, failed))
         /\ missed' = (tick.cur /\ (failed # {} \/ (tick.torn /\ tick.has # toml)))
    /\ UNCHANGED <<google, toml, parses, batch, runs, reload, writer>>

\* executeDueRoutines works on what was due at this time.
QueryDue ==
    /\ tick.at = "query"
    /\ batch' = due /\ gone' = {}
    /\ tick' = [Idle EXCEPT !.at = IF due = {} THEN "idle" ELSE "batch"]
    /\ UNCHANGED <<google, files, db, due, runs, reload, writer, events>>

Rest(n) ==
    /\ batch' = batch \ {n} /\ gone' = gone \ {n}
    /\ tick' = [Idle EXCEPT !.at = IF batch = {n} THEN "idle" ELSE "batch"]

\* The timer of the row, if there still is one, is advanced before the run.
RunStarts(n) ==
    /\ tick.at = "batch" /\ n \in batch
    /\ tick' = [Idle EXCEPT !.at = n]
    /\ due' = IF n \in gone THEN due ELSE due \ {n}
    /\ runs' = [runs EXCEPT ![n] = IF n \in gone \/ @ = 2 THEN @ ELSE @ + 1]
    /\ UNCHANGED <<google, files, db, gone, batch, reload, writer, events>>

\* Mutant of AdvanceFails: it is run all the same.
AdvanceFailsRuns(n) ==
    /\ Event /\ tick.at = "batch" /\ n \in batch
    /\ tick' = [Idle EXCEPT !.at = n]
    /\ runs' = [runs EXCEPT ![n] = IF n \in gone \/ @ = 2 THEN @ ELSE @ + 1]
    /\ UNCHANGED <<google, files, table, batch, reload, writer>>
\* Without its timer advanced a routine is not run in this round.
AdvanceFails(n) ==
    /\ Event /\ tick.at = "batch" /\ n \in batch /\ Rest(n)
    /\ UNCHANGED <<google, files, db, due, runs, reload, writer>>

\* The action of the mail routine is a call of the Google tool, if registered;
\* whatever comes of it, the orchestrator reports and the run ends.
RunEnds(n) ==
    /\ tick.at = n /\ Rest(n)
    /\ IF n = Mail /\ tool # 0 THEN CallSucceeds(tool) \/ CallRefused(tool)
       ELSE UNCHANGED google
    /\ UNCHANGED <<files, db, due, runs, reload, writer, events>>

\* A panic ends the run and no more.
RunPanics(n) ==
    /\ Event /\ tick.at = n /\ Rest(n)
    /\ UNCHANGED <<google, files, db, due, runs, reload, writer>>

\* Time passes for a row: its interval ends or one of its schedule times comes.
FallDue(n) ==
    /\ n \notin due /\ db[n] # "none" /\ due' = due \cup {n}
    /\ runs' = [runs EXCEPT ![n] = 0]
    /\ UNCHANGED <<google, files, db, gone, tick, batch, reload, writer, events>>

\* A schedule only knows the times of today: at midnight the row is not due.
DayEnds(n) ==
    /\ n \in due /\ n # Mail /\ due' = due \ {n}
    /\ UNCHANGED <<google, files, db, gone, ticker, reload, writer, events>>

\* The next start syncs the table with whatever the file is, and forgets its time.
Restarted ==
    /\ Event /\ FromToken
    /\ IF parses THEN NewRows(Synced(db, toml, {})) ELSE UNCHANGED <<db, due>>
    /\ seen' = "zero" /\ missed' = FALSE
    /\ tick' = Idle /\ batch' = {} /\ gone' = {}
    /\ reload' = NotReloading /\ writer' = NotWriting
    /\ UNCHANGED <<toml, parses, runs>>

Google ==
    /\ \/ Event /\ (OtherToolMentionsIt \/ GoogleStarts)
       \/ UNCHANGED events /\ (Revoke \/ GoogleFails \/ GoogleSucceeds)
    /\ UNCHANGED <<files, table, ticker, reload, writer>>
-----------------------------------------------------------------------------
Write == WriterLoads \/ WriterFills
Sync == TickLooks \/ TickReads \/ TickApplies
RunRoutine(n) == RunStarts(n) \/ RunEnds(n)

RoutinesNext ==
    \/ \E n \in Names : \E e \in Versions \cup {"none", "bad"} : Edit(n, e)
    \/ Break \/ Write \/ ReloadReads \/ ReloadApplies
    \/ \E n \in Names : ToolDeletes(n) \/ \E v \in Versions : ToolUpserts(n, v)
    \/ Sync \/ QueryDue
    \/ \E n \in Names :
         RunRoutine(n) \/ AdvanceFails(n) \/ RunPanics(n) \/ FallDue(n) \/ DayEnds(n)
    \/ Restarted \/ Google

RoutinesSpec == RoutinesInit /\ [][RoutinesNext]_routinesVars

\* The goroutines under way go on, the ticker comes again and again, and so do
\* the times of the routines.
FairSpec ==
    /\ RoutinesSpec
    /\ WF_routinesVars(Write) /\ WF_routinesVars(ReloadApplies)
    /\ WF_routinesVars(Sync) /\ WF_routinesVars(QueryDue)
    /\ \A n \in Names : WF_routinesVars(RunRoutine(n)) /\ WF_routinesVars(FallDue(n))
-----------------------------------------------------------------------------
\* Table and file agree in the end, whatever edits, manage_routines, /reload,
\* failures and restarts came in between (routines/sync.go: "TOML file is the
\* source of truth"), but for the named cases in which no look comes any more.
SourceOfTruth == <>[](missed \/ ~parses \/ Same(toml, db))

\* A row runs once for each time it falls due, across panics and restarts
\* (engine/routines.go: "to prevent double-fire on crash").
RunsOnce == \A n \in Names : runs[n] <= 1

\* A row that is due is run, or no longer due, whatever else fails in its round.
DueRuns == \A n \in Names : n \in due ~> n \notin due

\* The user is told that the grant the tools work with is refused, each time
\* this happens, or the grant works again.
RefusalTold ==
    (tool # 0 /\ ~Works(tool) /\ db[Mail] # "none")
        ~> (told \/ Works(tool) \/ tool = 0 \/ db[Mail] = "none")
=============================================================================
