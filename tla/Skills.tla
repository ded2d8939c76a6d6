--------------------------------- MODULE Skills ---------------------------------
(***************************************************************************)
(* The skills: their directories, the tool registry, the lists made from   *)
(* the registry (the delegate's allowed tools and the embedded tool        *)
(* selection) and the key-value rows a skill keeps.                        *)
(*                                                                         *)
(* create_skill, manage_skills and update_skill run in whichever           *)
(* orchestrator run calls them, SyncSkills on the heartbeat and in         *)
(* /reload, a re-embedding in a goroutine per rebuild.  No lock joins      *)
(* their steps.                                                            *)
(*                                                                         *)
(* A program is the number of the write that put it on disk; a time of     *)
(* modification is the number of a write as well.  What a skill computes   *)
(* is left out but for the rows it writes.                                 *)
(***************************************************************************)
EXTENDS Integers, FiniteSets, Functions

CONSTANTS
    Names,       \* names of skills
    NoName,      \* what a goroutine works on when it works on none
    Authors,     \* orchestrator runs that may create, update and delete skills
    Runners,     \* orchestrator runs that may run skills
    Syncers,     \* the goroutines that call SyncSkills: heartbeat, message loop
    Heartbeat,   \* the one that does so again and again
    MaxWrites,   \* bound on the files written
    MaxEmbeds    \* bound on the re-embeddings under way

ASSUME SkillsAssumption ==
    /\ IsFiniteSet(Names) /\ NoName \notin Names /\ Heartbeat \in Syncers
    /\ {MaxWrites, MaxEmbeds} \subseteq Nat

VARIABLES
    dir,        \* the skill directories
    reg,        \* the registry's closures, by name
    mtimes,     \* mtimeCache of SyncSkills, 0 for no entry
    th,         \* what each goroutine is doing
    allowed,    \* names in DelegateConfig
    offered,    \* names embedded in the ToolSelector
    unembedded,     \* re-embeddings that have not read the registry yet
    embedding,  \* those that have, by the names they read
    kv,         \* skills with rows in skill_kv
    writes,     \* files written so far
    crossed,    \* history: two rebuilds, or two re-embeddings, were under way
                \* at once, or a re-embedding failed
    late        \* history: skills with rows that were written after the skill
                \* was deleted or before there was one, or that no
                \* manage_skills delete has cleaned

files == <<dir, writes>>
lists == <<allowed, offered, unembedded, embedding>>
skillsVars == <<files, reg, mtimes, th, lists, kv, crossed, late>>

Threads == Authors \cup Runners \cup Syncers
Langs == {"js", "ts"}

\* md: when SKILL.md was written, 0 if it is missing; lang: the language it
\* declares; ts, js: the program in handler.ts and handler.js, 0 if missing.
NoDir == [md |-> 0, lang |-> "js", ts |-> 0, js |-> 0]
NoTool == [src |-> 0, live |-> FALSE]
Idle == [at |-> "idle", name |-> NoName, lang |-> "js", then |-> "idle",
         seen |-> [n \in Names |-> 0]]

Registered(n) == reg[n].src # 0
Skilled == {n \in Names : Registered(n)}

SkillsInit ==
    /\ dir = [n \in Names |-> NoDir] /\ writes = 0
    /\ reg = [n \in Names |-> NoTool] /\ mtimes = [n \in Names |-> 0]
    /\ th = [t \in Threads |-> Idle]
    /\ allowed = {} /\ offered = {} /\ unembedded = 0
    /\ embedding = [s \in SUBSET Names |-> 0]
    /\ kv = {} /\ crossed = FALSE /\ late = {}

Goto(t, where) == th' = [th EXCEPT ![t].at = where]
Start(t, where, n) == th' = [th EXCEPT ![t] = [Idle EXCEPT !.at = where, !.name = n]]
Doing(t, where) == th[t].at = where
CanWrite == writes < MaxWrites
-----------------------------------------------------------------------------
\* Loading.

\* loadSkillSource prefers handler.ts.
SourceOf(d) == IF d.ts # 0 THEN d.ts ELSE d.js
\* A directory is a skill when its SKILL.md parses and its source compiles.
Loads(d) == d.md # 0 /\ SourceOf(d) # 0
\* RegisterSkill.
Closure(src, live) == [src |-> src, live |-> live]
-----------------------------------------------------------------------------
\* Running a skill.

\* A registered skill is called, or one on disk is tested by manage_skills.
StartRun(t, n) ==
    /\ t \in Runners /\ Doing(t, "idle") /\ (Registered(n) \/ Loads(dir[n]))
    /\ Start(t, "run", n)
    /\ UNCHANGED <<files, reg, mtimes, lists, kv, crossed, late>>

Executing(t) == th[t].at \in {"run", "testnew", "testupdate"}
\* The rows a run writes now will be cleaned by no deletion.
Orphaned(t, n) == Doing(t, "testnew") \/ dir[n] = NoDir

\* kv_set, from a run or from the test of a program that is not a skill yet.
KvSet(t) ==
    LET n == th[t].name IN
    /\ Executing(t) /\ n \notin kv
    /\ kv' = kv \cup {n}
    /\ late' = IF Orphaned(t, n) THEN late \cup {n} ELSE late
    /\ UNCHANGED <<files, reg, mtimes, th, lists, crossed>>

KvDelete(t) ==
    LET n == th[t].name IN
    /\ Executing(t) /\ n \in kv
    /\ kv' = kv \ {n}
    /\ UNCHANGED <<files, reg, mtimes, th, lists, crossed, late>>

\* ExecuteSkill returns, or its timeout interrupts it.
EndRun(t) ==
    /\ Doing(t, "run") /\ th' = [th EXCEPT ![t] = Idle]
    /\ UNCHANGED <<files, reg, mtimes, lists, kv, crossed, late>>
-----------------------------------------------------------------------------
\* rebuildGrammar.

Rebuilding == {t \in Threads : th[t].at \in {"rebuild", "update lists"}}

Embeds == unembedded + FoldFunction(LAMBDA x, y : x + y, 0, embedding)

\* The lists are made from what the registry holds now.
ReadRegistry(t) ==
    /\ Doing(t, "rebuild")
    /\ th' = [th EXCEPT ![t].at = "update lists",
                        ![t].seen = [n \in Names |-> IF Registered(n) THEN 1 ELSE 0]]
    /\ crossed' = (crossed \/ Rebuilding # {t})
    /\ UNCHANGED <<files, reg, mtimes, lists, kv, late>>

\* DelegateConfig.Update, and a goroutine to embed the descriptions again.
UpdateLists(t) ==
    /\ Doing(t, "update lists") /\ Embeds < MaxEmbeds
    /\ allowed' = {n \in Names : th[t].seen[n] = 1}
    /\ unembedded' = unembedded + 1
    /\ IF th[t].then = "idle" THEN th' = [th EXCEPT ![t] = Idle]
       ELSE Start(t, th[t].then, th[t].name)
    /\ crossed' = (crossed \/ Rebuilding # {t})
    /\ UNCHANGED <<files, reg, mtimes, offered, embedding, kv, late>>

\* UpdateEmbeddings reads the schemas ...
EmbedReads ==
    /\ unembedded > 0 /\ unembedded' = unembedded - 1
    /\ embedding' = [embedding EXCEPT ![Skilled] = @ + 1]
    /\ crossed' = (crossed \/ \E s \in SUBSET Names : embedding[s] > 0)
    /\ UNCHANGED <<files, reg, mtimes, th, allowed, offered, kv, late>>

\* ... and stores its result, or fails and leaves the old one.
EmbedEnds(s) ==
    /\ embedding[s] > 0
    /\ embedding' = [embedding EXCEPT ![s] = @ - 1]
    /\ \/ offered' = s /\ UNCHANGED crossed
       \/ crossed' = TRUE /\ UNCHANGED offered
    /\ UNCHANGED <<files, reg, mtimes, th, allowed, unembedded, kv, late>>
-----------------------------------------------------------------------------
\* create_skill: refused for a name in the registry; the program is tested,
\* the two files are written, the tool is registered and the lists rebuilt.

CreateStarts(t, n) ==
    /\ t \in Authors /\ Doing(t, "idle") /\ ~Registered(n) /\ CanWrite
    /\ \E lang \in Langs :
         th' = [th EXCEPT ![t] = [Idle EXCEPT !.at = "testnew", !.name = n, !.lang = lang]]
    /\ UNCHANGED <<files, reg, mtimes, lists, kv, crossed, late>>

TestFails(t) ==
    /\ th[t].at \in {"testnew", "testupdate"} /\ th' = [th EXCEPT ![t] = Idle]
    /\ UNCHANGED <<files, reg, mtimes, lists, kv, crossed, late>>

\* MkdirAll and SKILL.md.
CreateManifest(t) ==
    LET n == th[t].name IN
    /\ Doing(t, "testnew") /\ CanWrite /\ writes' = writes + 1
    /\ dir' = [dir EXCEPT ![n].md = writes + 1, ![n].lang = th[t].lang]
    /\ Goto(t, "handler")
    /\ UNCHANGED <<reg, mtimes, lists, kv, crossed, late>>

CreateHandler(t) ==
    LET n == th[t].name IN
    /\ Doing(t, "handler")
    /\ \/ /\ dir[n] # NoDir /\ CanWrite /\ writes' = writes + 1
          /\ dir' = [dir EXCEPT ![n][th[t].lang] = writes + 1]
          /\ th' = [th EXCEPT ![t].at = "register", ![t].seen[n] = writes + 1]
       \/ UNCHANGED files /\ th' = [th EXCEPT ![t] = Idle]  \* the write fails
    /\ UNCHANGED <<reg, mtimes, lists, kv, crossed, late>>

\* The closure is given no directory.
CreateRegisters(t) ==
    LET n == th[t].name IN
    /\ Doing(t, "register")
    /\ reg' = [reg EXCEPT ![n] = Closure(th[t].seen[n], FALSE)]
    /\ Goto(t, "rebuild")
    /\ UNCHANGED <<files, mtimes, lists, kv, crossed, late>>
-----------------------------------------------------------------------------
\* update_skill: the handler of the declared language is overwritten.

UpdateStarts(t, n) ==
    /\ t \in Authors /\ Doing(t, "idle") /\ dir[n].md # 0 /\ CanWrite
    /\ th' = [th EXCEPT ![t] = [Idle EXCEPT !.at = "testupdate", !.name = n,
                                            !.lang = dir[n].lang]]
    /\ UNCHANGED <<files, reg, mtimes, lists, kv, crossed, late>>

UpdateWrites(t) ==
    LET n == th[t].name IN
    /\ Doing(t, "testupdate") /\ dir[n] # NoDir /\ CanWrite /\ writes' = writes + 1
    /\ dir' = [dir EXCEPT ![n][th[t].lang] = writes + 1]
    /\ th' = [th EXCEPT ![t] = Idle]
    /\ UNCHANGED <<reg, mtimes, lists, kv, crossed, late>>
-----------------------------------------------------------------------------
\* manage_skills delete.  The entry of mtimeCache stays.

DeleteDir(t, n) ==
    /\ t \in Authors /\ Doing(t, "idle") /\ dir[n] # NoDir
    /\ dir' = [dir EXCEPT ![n] = NoDir]
    /\ Start(t, "unregister", n)
    /\ UNCHANGED <<writes, reg, mtimes, lists, kv, crossed, late>>

DeleteUnregisters(t) ==
    /\ Doing(t, "unregister")
    /\ reg' = [reg EXCEPT ![th[t].name] = NoTool]
    /\ th' = [th EXCEPT ![t].at = "rebuild", ![t].then = "clean"]
    /\ UNCHANGED <<files, mtimes, lists, kv, crossed, late>>

\* Mutant of DeleteRows: the rows are left.
DeleteRowsNot(t) ==
    /\ Doing(t, "clean") /\ th' = [th EXCEPT ![t] = Idle]
    /\ UNCHANGED <<files, reg, mtimes, lists, kv, crossed, late>>
\* The rows go last.  An error of that is logged and forgotten.
DeleteRows(t) ==
    LET n == th[t].name IN
    /\ Doing(t, "clean") /\ th' = [th EXCEPT ![t] = Idle]
    /\ \/ kv' = kv \ {n} /\ late' = late \ {n}
       \/ n \in kv /\ late' = late \cup {n} /\ UNCHANGED kv
    /\ UNCHANGED <<files, reg, mtimes, lists, crossed>>
-----------------------------------------------------------------------------
\* SyncSkills.

\* The directories are read, one skill after the other, before the registry.
SyncLoads(t) ==
    /\ t \in Syncers /\ Doing(t, "idle")
    /\ th' = [th EXCEPT ![t] = [Idle EXCEPT !.at = "sync",
                !.seen = [n \in Names |-> IF Loads(dir[n]) THEN SourceOf(dir[n]) ELSE 0]]]
    /\ UNCHANGED <<files, reg, mtimes, lists, kv, crossed, late>>

\* SKILL.md is looked at again for its time; a skill that lost it is passed over.
Listed(t) == {n \in Names : th[t].seen[n] # 0 /\ dir[n].md # 0}
Added(t) == {n \in Listed(t) : ~Registered(n)}
Updated(t) == {n \in Listed(t) : Registered(n) /\ mtimes[n] # 0 /\ dir[n].md > mtimes[n]}
\* Mutant of Removed: what is gone from the disk stays registered.
RemovedNone(t) == {}
Removed(t) == {n \in Names : Registered(n) /\ th[t].seen[n] = 0}

\* Mutant of SyncApplies: a removal does not rebuild the lists.
SyncAppliesRemovalUnlisted(t) ==
    /\ Doing(t, "sync")
    /\ reg' = [n \in Names |->
                 IF n \in Added(t) \cup Updated(t) THEN Closure(th[t].seen[n], TRUE)
                 ELSE IF n \in Removed(t) THEN NoTool ELSE reg[n]]
    /\ mtimes' = [n \in Names |-> IF n \in Listed(t) THEN
                    IF n \in Added(t) \cup Updated(t) \/ mtimes[n] = 0 THEN dir[n].md
                    ELSE mtimes[n]
                  ELSE IF n \in Removed(t) THEN 0 ELSE mtimes[n]]
    /\ th' = [th EXCEPT ![t] = IF Added(t) \cup Updated(t) = {} THEN Idle
                               ELSE [Idle EXCEPT !.at = "rebuild"]]
    /\ UNCHANGED <<files, lists, kv, crossed, late>>
SyncApplies(t) ==
    /\ Doing(t, "sync")
    /\ reg' = [n \in Names |->
                 IF n \in Added(t) \cup Updated(t) THEN Closure(th[t].seen[n], TRUE)
                 ELSE IF n \in Removed(t) THEN NoTool ELSE reg[n]]
    /\ mtimes' = [n \in Names |-> IF n \in Listed(t) THEN
                    IF n \in Added(t) \cup Updated(t) \/ mtimes[n] = 0 THEN dir[n].md
                    ELSE mtimes[n]
                  ELSE IF n \in Removed(t) THEN 0 ELSE mtimes[n]]
    /\ th' = [th EXCEPT ![t] = IF Added(t) \cup Updated(t) \cup Removed(t) = {} THEN Idle
                               ELSE [Idle EXCEPT !.at = "rebuild"]]
    /\ UNCHANGED <<files, lists, kv, crossed, late>>
-----------------------------------------------------------------------------
\* The owner edits the directory by hand: installs a skill, touches its
\* SKILL.md, or removes it.  A TypeScript skill need not declare its language.
UserInstalls(n) ==
    /\ dir[n] = NoDir /\ writes + 1 < MaxWrites /\ writes' = writes + 2
    /\ \E lang, kept \in Langs :
         /\ kept = "js" => lang = "js"
         /\ dir' = [dir EXCEPT ![n] = [NoDir EXCEPT !.md = writes + 1, !.lang = lang,
                                                 ![kept] = writes + 2]]
    /\ UNCHANGED <<reg, mtimes, th, lists, kv, crossed, late>>

UserTouches(n) ==
    /\ dir[n].md # 0 /\ CanWrite /\ writes' = writes + 1
    /\ dir' = [dir EXCEPT ![n].md = writes + 1]
    /\ UNCHANGED <<reg, mtimes, th, lists, kv, crossed, late>>

UserRemoves(n) ==
    /\ dir[n] # NoDir /\ dir' = [dir EXCEPT ![n] = NoDir]
    /\ late' = late \cup (kv \cap {n})       \* nothing cleans its rows
    /\ UNCHANGED <<writes, reg, mtimes, th, lists, kv, crossed>>

\* The process is started again: the skills on disk are registered, the lists
\* built, the cache of modification times is empty.
Restart ==
    /\ th' = [t \in Threads |-> Idle]
    /\ reg' = [n \in Names |-> IF Loads(dir[n]) THEN Closure(SourceOf(dir[n]), TRUE)
                               ELSE NoTool]
    /\ allowed' = {n \in Names : Loads(dir[n])} /\ offered' = allowed'
    /\ unembedded' = 0 /\ embedding' = [s \in SUBSET Names |-> 0]
    /\ mtimes' = [n \in Names |-> 0] /\ crossed' = FALSE
    /\ late' = late \cup {n \in kv : dir[n] = NoDir}
    /\ UNCHANGED <<files, kv>>

SkillStep(t) ==
    \/ \E n \in Names : StartRun(t, n) \/ CreateStarts(t, n) \/ UpdateStarts(t, n)
                        \/ DeleteDir(t, n)
    \/ KvSet(t) \/ KvDelete(t) \/ EndRun(t) \/ TestFails(t)
    \/ ReadRegistry(t) \/ UpdateLists(t)
    \/ CreateManifest(t) \/ CreateHandler(t) \/ CreateRegisters(t)
    \/ UpdateWrites(t) \/ DeleteUnregisters(t) \/ DeleteRows(t)
    \/ SyncLoads(t) \/ SyncApplies(t)

SkillsNext ==
    \/ \E t \in Threads : SkillStep(t)
    \/ EmbedReads \/ \E s \in SUBSET Names : EmbedEnds(s)
    \/ \E n \in Names : UserInstalls(n) \/ UserTouches(n) \/ UserRemoves(n)
    \/ Restart

SkillsSpec == SkillsInit /\ [][SkillsNext]_skillsVars

\* The steps of a tool call follow each other, and the heartbeat ticks.
Finish(t) ==
    \/ EndRun(t) \/ TestFails(t) \/ ReadRegistry(t) \/ UpdateLists(t)
    \/ CreateHandler(t) \/ CreateRegisters(t) \/ DeleteUnregisters(t) \/ DeleteRows(t)
    \/ SyncApplies(t)
Fairness ==
    /\ \A t \in Threads : WF_skillsVars(Finish(t))
    /\ WF_skillsVars(SyncLoads(Heartbeat))
    /\ WF_skillsVars(EmbedReads) /\ \A s \in SUBSET Names : WF_skillsVars(EmbedEnds(s))

SkillsFairSpec == SkillsSpec /\ Fairness
-----------------------------------------------------------------------------
Quiet == \A t \in Threads : th[t].at \in {"idle", "run", "testnew", "testupdate", "sync"}

\* Once nobody writes any more the registry holds exactly the skills on disk
\* (skill_loader.go:275), whatever the order in which the calls and the sync
\* that read an older listing took their steps.
RegistrySettles == <>[](\A n \in Names : Registered(n) <=> Loads(dir[n]))

\* When no change is half made, the delegate may call exactly the registered
\* skills, and once the embeddings are in, exactly they are offered; it takes
\* two rebuilds at once or a failed embedding to leave a list behind
\* (wire.go:221-261).
ListsCurrent ==
    Quiet /\ ~crossed =>
        /\ allowed = Skilled
        /\ (unembedded = 0 /\ \A s \in SUBSET Names : embedding[s] = 0) => offered = Skilled

Deleting(t, n) ==
    th[t].name = n /\ ("clean" \in {th[t].at, th[t].then} \/ Doing(t, "unregister"))

\* A deleted skill leaves no rows behind (create_skill.go:218) once its deletion
\* is through, unless one of its programs was running, or was only a test, when
\* it wrote them.
RowsOwned ==
    \A n \in kv : dir[n] # NoDir \/ n \in late \/ \E t \in Threads : Deleting(t, n)
=============================================================================
