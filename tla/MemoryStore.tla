---------------------------- MODULE MemoryStore ----------------------------
(***************************************************************************)
(* The memories table and the actors that write it: saves with their       *)
(* contradiction check (memory/contradiction.go) and the checks that wait  *)
(* in the work queue while the backends are busy, the quality gate         *)
(* (memory/scoring.go), the merges of the consolidation                    *)
(* (pipelines/consolidate_memory.go) and forget_topic.  Rows of the        *)
(* identity profile and pruning are not modelled.                          *)
(*                                                                         *)
(* Rows are numbered in the order of their commits (the code compares no   *)
(* ids).  What is near to what, and what a model answers, is arbitrary: a  *)
(* query returns any set of rows that its WHERE clause admits.  The chunks *)
(* of a long text are one row, they share the fate of the first.           *)
(***************************************************************************)
EXTENDS WorkQueue, FiniteSets

CONSTANTS
    Savers,         \* calls of CheckAndWriteWithContradiction
    Consolidators,  \* runs of ConsolidateCore
    Forgetters,     \* forget_topic with confirm
    SearchLimit,    \* LIMIT 3 of both candidate searches
    MaxRows         \* bound: rows ever committed

ASSUME MemoryAssumption == SearchLimit \in Nat /\ MaxRows \in Nat

VARIABLES
    rows,     \* ids of the rows of memories
    next,     \* number of rows ever committed
    by,       \* id -> superseded_by; 0 is NULL
    draft,    \* saver -> its local variables
    todo,     \* saver -> work it has yet to submit
    batch,    \* consolidator -> the rows it read
    matches,  \* forgetter -> the rows it read
    graders,  \* rows whose EnrichViaGrammarFn goroutine runs
    owed      \* history: rows whose deferred check has not been answered

table == <<rows, next, by>>
readers == <<batch, matches>>
vars == <<table, draft, todo, readers, graders, owed, queueVars>>

-----------------------------------------------------------------------------
Ids == 1 .. MaxRows
At(l) == [at |-> l, found |-> {}, open |-> {}, out |-> {}, defer |-> {}]

Active == {r \in rows : by[r] = 0}
UpTo(n, S) == {T \in SUBSET S : Cardinality(T) <= n}

Init ==
    /\ rows = {} /\ next = 0
    /\ by = [r \in Ids |-> 0]
    /\ draft = [s \in Savers |-> At("search")]
    /\ todo = [s \in Savers |-> <<>>]
    /\ batch = [c \in Consolidators |-> {}]
    /\ matches = [f \in Forgetters |-> {}]
    /\ graders = {} /\ owed = {}
    /\ QueueInit

(* A transaction: a new row, to which the rows of old now point.            *)
Insert(old) ==
    /\ next < MaxRows
    /\ next' = next + 1
    /\ rows' = rows \cup {next'}
    /\ by' = [r \in Ids |-> IF r \in old \cap rows THEN next' ELSE by[r]]

(* A DELETE.  The foreign key rejects it as a whole while a row that stays  *)
(* points to a row that goes.                                               *)
Delete(gone) ==
    /\ \A r \in rows \ gone : by[r] \notin gone
    /\ rows' = rows \ gone
    /\ by' = [r \in Ids |-> IF r \in gone THEN 0 ELSE by[r]]
    /\ UNCHANGED next

-----------------------------------------------------------------------------
(* The near-duplicate check, which ends a save without a trace, the search  *)
(* by embedding and the two calls that do not wait: a backend that is busy  *)
(* puts the verdict, or the entities, off.  What was found matters to the   *)
(* second search and to a check that was put off.                           *)
Search(s) ==
    /\ draft[s].at = "search"
    /\ \E F \in UpTo(SearchLimit, Active), answered \in BOOLEAN, known \in BOOLEAN :
       \E V \in SUBSET F :
        /\ ~answered => F # {} /\ V = {}
        /\ draft' = [draft EXCEPT ![s] =
              [at    |-> IF known THEN "lookup" ELSE "commit",
               found |-> IF known \/ ~answered THEN F ELSE {},
               open  |-> IF answered THEN {} ELSE F,
               out   |-> V,
               defer |-> (IF answered THEN {} ELSE {"check"}) \cup (IF known THEN {} ELSE {"entities"})]]
    /\ UNCHANGED <<table, todo, owed, readers, graders, queueVars>>

(* The second search, by entities, and its own verdict.                     *)
Lookup(s) ==
    /\ draft[s].at = "lookup"
    /\ \E E \in UpTo(SearchLimit, Active \ draft[s].found), answered \in BOOLEAN :
       \E V \in SUBSET E :
        /\ ~answered => V = {}
        /\ draft' = [draft EXCEPT ![s] =
              [at    |-> "commit",
               found |-> IF "check" \in draft[s].defer THEN draft[s].found \cup E ELSE {},
               open  |-> IF answered THEN draft[s].open ELSE draft[s].open \cup E,
               out   |-> draft[s].out \cup V,
               defer |-> draft[s].defer]]
    /\ UNCHANGED <<table, todo, owed, readers, graders, queueVars>>

Item(t, r, cand, p) == [task |-> t, row |-> r, cand |-> cand, tries |-> Retries, priority |-> p]

Deferred(d, r) ==
    (IF "check" \in d.defer THEN <<Item("check", r, d.found, "normal")>> ELSE <<>>)
    \o (IF "entities" \in d.defer THEN <<Item("entities", r, {}, "low")>> ELSE <<>>)
    \o <<Item("grade", r, {}, "normal")>>

(* Insert and supersede in one transaction, whatever became of the rows     *)
(* since they were read; when it fails nothing is saved or queued.          *)
Commit(s) ==
    /\ draft[s].at = "commit"
    /\ \/ /\ Insert(draft[s].out)
          /\ todo' = [todo EXCEPT ![s] = Deferred(draft[s], next')]
          /\ draft' = [draft EXCEPT ![s] = At("submit")]
          /\ owed' = owed \cup (IF "check" \in draft[s].defer THEN {next'} ELSE {})
       \/ /\ draft' = [draft EXCEPT ![s] = At("done")]
          /\ UNCHANGED <<table, todo, owed>>
    /\ UNCHANGED <<readers, graders, queueVars>>

(* What OnComplete does with an error: it logs it, at most as a failed      *)
(* operation.                                                               *)
CompleteWithError(item) ==
    /\ owed' = IF item.task = "check" THEN owed \ {item.row} ELSE owed
    /\ UNCHANGED <<table, graders>>

Submit(s) ==
    /\ draft[s].at = "submit"
    /\ LET item == Head(todo[s])
       IN  /\ QueueWork(item)
           /\ IF Dropped(item) THEN CompleteWithError(item) ELSE UNCHANGED <<table, graders, owed>>
    /\ todo' = [todo EXCEPT ![s] = Tail(@)]
    /\ draft' = IF Len(todo[s]) = 1 THEN [draft EXCEPT ![s] = At("done")] ELSE draft
    /\ UNCHANGED readers

-----------------------------------------------------------------------------
\* Mutant of Supersede: the ids in the UPDATE are swapped.
SupersedeNew(item, V) ==
    by' = [r \in Ids |-> IF r = item.row /\ by[r] = 0 /\ V \cap rows # {}
                         THEN CHOOSE c \in V \cap rows : TRUE ELSE by[r]]

(* The late verdict: only active rows change, and only while the new one    *)
(* exists (the foreign key).                                                *)
Supersede(item, V) ==
    by' = [r \in Ids |-> IF r \in V \cap rows /\ by[r] = 0 /\ item.row \in rows
                         THEN item.row ELSE by[r]]

(* The quality gate deletes a row that is vague; others get their score.    *)
Grade(r) == Delete({r}) \/ UNCHANGED table

Complete(item) ==
    \/ /\ item.task = "check"
       /\ \E V \in SUBSET item.cand : Supersede(item, V)
       /\ owed' = owed \ {item.row}
       /\ UNCHANGED <<rows, next, graders>>
    \/ item.task = "grade" /\ Grade(item.row) /\ UNCHANGED <<graders, owed>>
    \/ item.task = "entities" /\ UNCHANGED <<table, graders, owed>>

Work(w) ==
    \/ /\ Take(w) \/ Fail(w) \/ Retry(w)
       /\ UNCHANGED <<table, graders, owed>>
    \/ Succeeds(w) /\ Complete(held[w]) /\ Finish(w)
    \/ GivesUp(w) /\ CompleteWithError(held[w]) /\ Finish(w)

Wake ==
    \E item \in later :
        /\ Requeue(item)
        /\ IF Full THEN CompleteWithError(item) ELSE UNCHANGED <<table, graders, owed>>

QueueStep ==
    /\ Wake \/ \E w \in Workers : Work(w)
    /\ UNCHANGED <<draft, todo, readers>>

-----------------------------------------------------------------------------
(* A note of the archive is saved without a check or a grade.               *)
Write ==
    /\ Insert({})
    /\ UNCHANGED <<draft, todo, readers, graders, owed, queueVars>>

GradeDirectly(r) ==
    /\ r \in graders
    /\ Grade(r)
    /\ graders' = graders \ {r}
    /\ UNCHANGED <<draft, todo, readers, owed, queueVars>>

(* ConsolidateCore reads the active rows and asks the deep thinker.         *)
Consolidate(c) ==
    /\ batch[c] = {} /\ Active # {}
    /\ batch' = [batch EXCEPT ![c] = Active]
    /\ UNCHANGED <<table, draft, todo, matches, graders, owed, queueVars>>

(* One of the merges; it takes place even when its sources have been        *)
(* superseded or deleted since they were read.                              *)
Merge(c) ==
    /\ \E S \in SUBSET batch[c] : Cardinality(S) >= 2 /\ Insert(S \cap Active)
    /\ graders' = graders \cup {next'}
    /\ UNCHANGED <<draft, todo, readers, owed, queueVars>>

EndRound(c) ==
    /\ batch[c] # {}
    /\ batch' = [batch EXCEPT ![c] = {}]
    /\ UNCHANGED <<table, draft, todo, matches, graders, owed, queueVars>>

ReadTopic(f) ==
    /\ matches[f] = {}
    /\ \E M \in SUBSET Active : matches' = [matches EXCEPT ![f] = M]
    /\ UNCHANGED <<table, draft, todo, batch, graders, owed, queueVars>>

(* The archive row takes the place of all rows that were read.              *)
Archive(f) ==
    /\ matches[f] # {}
    /\ Insert(matches[f]) \/ UNCHANGED table
    /\ matches' = [matches EXCEPT ![f] = {}]
    /\ UNCHANGED <<draft, todo, batch, graders, owed, queueVars>>

-----------------------------------------------------------------------------
Save(s) == Search(s) \/ Lookup(s) \/ Commit(s) \/ Submit(s)

Next ==
    \/ \E s \in Savers : Save(s)
    \/ \E c \in Consolidators : Consolidate(c) \/ Merge(c) \/ EndRound(c)
    \/ \E f \in Forgetters : ReadTopic(f) \/ Archive(f)
    \/ \E r \in Ids : GradeDirectly(r)
    \/ QueueStep \/ Write

Spec == Init /\ [][Next]_vars

(* Goroutines run, executions end by their timeout, an hour passes.         *)
FairSpec ==
    /\ Spec
    /\ \A s \in Savers : WF_vars(Submit(s))
    /\ \A w \in Workers : WF_vars(Work(w) /\ UNCHANGED <<draft, todo, readers>>)
    /\ WF_vars(Wake /\ UNCHANGED <<draft, todo, readers>>)

-----------------------------------------------------------------------------
(* A queued check compares its row with older ones.                         *)
Items == {i \in [task : {"check", "entities", "grade"}, row : Ids, cand : SUBSET Ids,
                 tries : 0 .. Retries, priority : {"low", "normal"}] :
             \A c \in i.cand : c < i.row}

(* Tables, drafts, queue and rounds have their types; the queue is within   *)
(* its capacity and its items keep their retries in range.                  *)
TypeOK ==
    /\ rows \subseteq 1 .. next /\ next \in 0 .. MaxRows
    /\ by \in [Ids -> 0 .. MaxRows]
    /\ draft \in [Savers -> [at : {"search", "lookup", "commit", "submit", "done"}, found : SUBSET (1 .. next),
                             open : SUBSET (1 .. next), out : SUBSET (1 .. next),
                             defer : SUBSET {"check", "entities"}]]
    /\ todo \in [Savers -> Seq(Items)]
    /\ batch \in [Consolidators -> SUBSET (1 .. next)]
    /\ matches \in [Forgetters -> SUBSET (1 .. next)]
    /\ graders \subseteq Ids /\ owed \subseteq Ids
    /\ queue \in Seq(Items) /\ Len(queue) <= Cap
    /\ held \in [Workers -> Items \cup {Nothing}]
    /\ resting \subseteq {w \in Workers : held[w] # Nothing} /\ later \subseteq Items

(* A memory is only ever replaced by one that was committed after it and    *)
(* that still exists, however late a verdict comes and whoever superseded,  *)
(* merged, forgot or rejected rows in between: following                    *)
(* superseded_by from any row ends at an active one                         *)
(* (contradiction.go:288-297, 363-376, scoring.go:167).                     *)
ReplacedByNewer ==
    \A r \in rows : by[r] # 0 => by[r] > r /\ by[r] \in rows

ChecksIn(r) ==
    Cardinality({s \in Savers : \E i \in DOMAIN todo[s] : todo[s][i].task = "check" /\ todo[s][i].row = r})
    + Cardinality({i \in DOMAIN queue : queue[i].task = "check" /\ queue[i].row = r})
    + Cardinality({w \in Workers : held[w].task = "check" /\ held[w].row = r})

(* A check that was put off is in one place until its OnComplete has run,   *)
(* once: retries neither lose nor repeat a verdict (workqueue.go:89-105).   *)
ChecksKept ==
    \A r \in Ids : ChecksIn(r) = IF r \in owed THEN 1 ELSE 0

(* Every check that was put off is answered or given up, whatever fails and *)
(* however full the queue is (contradiction.go:302-307).                    *)
ChecksAnswered ==
    \A r \in Ids : r \in owed ~> r \notin owed

=============================================================================
