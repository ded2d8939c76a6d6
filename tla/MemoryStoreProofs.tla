------------------------- MODULE MemoryStoreProofs -------------------------
(***************************************************************************)
(* For any number of rows, savers, consolidators and workers: a memory is  *)
(* only replaced by a later one that exists.  The invariant is inductive   *)
(* with the types, which say of every deferred check that it compares its  *)
(* row with older ones, and with two facts: ids without a row point        *)
(* nowhere, and a saver about to submit has something to submit.  A        *)
(* second part follows the deferred checks: each is in one place, with a   *)
(* saver, in the queue or with a worker, until it is answered.             *)
(***************************************************************************)
EXTENDS MemoryStore, FiniteSetTheorems, TLAPS

TableOK ==
    /\ rows \subseteq 1 .. next /\ next \in 0 .. MaxRows
    /\ by \in [Ids -> 0 .. MaxRows]
    /\ \A r \in Ids \ rows : by[r] = 0
    /\ ReplacedByNewer

QueueOK ==
    /\ queue \in Seq(Items) /\ Len(queue) <= Cap
    /\ held \in [Workers -> Items \cup {Nothing}]
    /\ resting \subseteq {w \in Workers : held[w] # Nothing} /\ later \subseteq Items

SaverOK ==
    /\ draft \in [Savers -> [at : {"search", "lookup", "commit", "submit", "done"}, found : SUBSET (1 .. next),
                             open : SUBSET (1 .. next), out : SUBSET (1 .. next),
                             defer : SUBSET {"check", "entities"}]]
    /\ todo \in [Savers -> Seq(Items)]
    /\ \A s \in Savers : draft[s].at = "submit" => todo[s] # <<>>

ReaderOK ==
    /\ batch \in [Consolidators -> SUBSET (1 .. next)]
    /\ matches \in [Forgetters -> SUBSET (1 .. next)]

MarkOK == graders \subseteq Ids /\ owed \subseteq Ids

Inv == TableOK /\ QueueOK /\ SaverOK /\ ReaderOK /\ MarkOK

(* The conjuncts of the invariant are the two properties of the runs.       *)
LEMMA InvImplies == Inv => TypeOK /\ ReplacedByNewer
  BY DEF Inv, TypeOK, TableOK, QueueOK, SaverOK, ReaderOK, MarkOK

(* A new row is above all rows that it supersedes.                          *)
LEMMA InsertKeeps ==
  ASSUME TableOK, NEW old, Insert(old)
  PROVE  TableOK' /\ next' = next + 1 /\ next' \in Ids
<1>1. next' = next + 1 /\ next' \in 0 .. MaxRows /\ next' \in Ids /\ rows' \subseteq 1 .. next'
  BY MemoryAssumption DEF TableOK, Insert, Ids
<1>2. by' \in [Ids -> 0 .. MaxRows]
  BY <1>1 DEF TableOK, Insert
<1>3. ASSUME NEW r \in rows', by'[r] # 0
      PROVE  by'[r] > r /\ by'[r] \in rows'
  <2>1. r \in Ids /\ by'[r] = (IF r \in old \cap rows THEN next' ELSE by[r])
    BY <1>1, MemoryAssumption DEF Insert, TableOK, Ids
  <2>2. CASE r \in rows
    BY <1>1, <1>3, <2>1, <2>2 DEF Insert, TableOK, ReplacedByNewer
  <2>3. CASE r = next'
    <3>1. r \notin rows
      BY <1>1, <2>3 DEF TableOK
    <3> QED BY <1>3, <2>1, <3>1 DEF TableOK
  <2> QED BY <2>2, <2>3 DEF Insert
<1>4. \A r \in Ids \ rows' : by'[r] = 0
  BY DEF TableOK, Insert
<1> QED BY <1>1, <1>2, <1>3, <1>4 DEF TableOK, ReplacedByNewer

(* The foreign key keeps every row that another one points to.              *)
LEMMA DeleteKeeps ==
  ASSUME TableOK, NEW gone, Delete(gone)
  PROVE  TableOK' /\ next' = next
<1>1. next' = next /\ rows' = rows \ gone /\ rows' \subseteq 1 .. next'
  BY DEF TableOK, Delete
<1>2. by' \in [Ids -> 0 .. MaxRows]
  BY MemoryAssumption DEF TableOK, Delete
<1>3. ASSUME NEW r \in rows', by'[r] # 0
      PROVE  by'[r] > r /\ by'[r] \in rows'
  <2>1. r \in rows /\ r \notin gone /\ r \in Ids
    BY <1>1, MemoryAssumption DEF TableOK, Ids
  <2>2. by'[r] = by[r]
    BY <2>1 DEF Delete
  <2> QED BY <1>1, <1>3, <2>1, <2>2 DEF Delete, TableOK, ReplacedByNewer
<1>4. \A r \in Ids \ rows' : by'[r] = 0
  BY DEF TableOK, Delete
<1> QED BY <1>1, <1>2, <1>3, <1>4 DEF TableOK, ReplacedByNewer

(* The verdict of a deferred check is about older rows.                     *)
LEMMA SupersedeKeeps ==
  ASSUME TableOK, NEW item \in Items, NEW V \in SUBSET item.cand, Supersede(item, V),
         UNCHANGED <<rows, next>>
  PROVE  TableOK'
  BY MemoryAssumption DEF TableOK, Supersede, ReplacedByNewer, Ids, Items

(* What OnComplete does to the table and the histories.                     *)
LEMMA CompleteKeeps ==
  ASSUME TableOK, MarkOK, NEW item \in Items, Complete(item)
  PROVE  TableOK' /\ MarkOK' /\ next' = next
<1>1. CASE item.task = "check"
  <2>1. PICK V \in SUBSET item.cand : Supersede(item, V)
    BY <1>1 DEF Complete
  <2>2. UNCHANGED <<rows, next, graders>> /\ owed' = owed \ {item.row}
    BY <1>1 DEF Complete
  <2> QED BY <2>1, <2>2, SupersedeKeeps DEF MarkOK
<1>2. CASE item.task = "grade"
  <2>1. Grade(item.row) /\ UNCHANGED <<graders, owed>>
    BY <1>2 DEF Complete
  <2>2. CASE Delete({item.row})
    BY <2>1, <2>2, DeleteKeeps DEF MarkOK
  <2>3. CASE UNCHANGED table
    BY <2>1, <2>3 DEF MarkOK, TableOK, ReplacedByNewer, table
  <2> QED BY <2>1, <2>2, <2>3 DEF Grade
<1>3. CASE item.task = "entities"
  BY <1>3 DEF Complete, MarkOK, TableOK, ReplacedByNewer, table
<1> QED BY <1>1, <1>2, <1>3 DEF Items

\* An item given up is only forgotten.
LEMMA ErrorKeeps ==
  ASSUME TableOK, MarkOK, NEW item, CompleteWithError(item)
  PROVE  TableOK' /\ MarkOK' /\ next' = next
  BY DEF CompleteWithError, MarkOK, TableOK, ReplacedByNewer, table

(* The operations of the queue keep its items and its capacity.             *)
LEMMA QueueWorkKeeps ==
  ASSUME QueueOK, NEW item \in Items, QueueWork(item)
  PROVE  QueueOK'
<1>1. [item EXCEPT !.priority = "normal"] \in Items
  BY DEF Items
<1>2. queue' \in Seq(Items) /\ Len(queue') <= Cap
  BY QueueAssumption DEF QueueOK, QueueWork, Full
<1>3. later' \subseteq Items
  BY <1>1 DEF QueueOK, QueueWork
<1> QED BY <1>2, <1>3 DEF QueueOK, QueueWork

\* An item whose hour has come goes to the queue as it was, if there is room.
LEMMA RequeueKeeps ==
  ASSUME QueueOK, NEW item \in later, Requeue(item)
  PROVE  QueueOK' /\ item \in Items
  BY QueueAssumption DEF QueueOK, Requeue, Full

\* Workers hand on the items they got.
LEMMA WorkerKeeps ==
  ASSUME QueueOK, NEW w \in Workers, Take(w) \/ Fail(w) \/ Retry(w) \/ (held[w] # Nothing /\ Finish(w))
  PROVE  QueueOK'
<1>1. CASE Take(w)
  <2>1. Head(queue) \in Items /\ Tail(queue) \in Seq(Items) /\ Len(Tail(queue)) <= Cap
    BY <1>1, QueueAssumption DEF Take, QueueOK
  <2>2. Head(queue) # Nothing
    BY <2>1 DEF Items, Nothing
  <2> QED BY <1>1, <2>1, <2>2 DEF Take, QueueOK
<1>2. CASE Fail(w)
  <2>1. held[w] \in Items /\ held[w].tries \in 0 .. Retries /\ held[w].tries > 0
    BY <1>2 DEF Fail, Executes, QueueOK, Items
  <2>2. [held[w] EXCEPT !.tries = @ - 1] \in Items
    BY <2>1, QueueAssumption DEF Items
  <2>3. [held[w] EXCEPT !.tries = @ - 1] # Nothing
    BY <2>2 DEF Items, Nothing
  <2> QED BY <1>2, <2>2, <2>3 DEF Fail, QueueOK
<1>3. CASE Retry(w)
  BY <1>3, QueueAssumption DEF Retry, QueueOK, Full
<1>4. CASE held[w] # Nothing /\ Finish(w)
  BY <1>4 DEF Finish, QueueOK
<1> QED BY <1>1, <1>2, <1>3, <1>4

(* Sets of committed ids stay sets of committed ids.                        *)
LEMMA ReadersKeep ==
  ASSUME ReaderOK, next \in Nat, next' \in Nat, next' >= next, UNCHANGED readers
  PROVE  ReaderOK'
  BY DEF ReaderOK, readers

\* Ids only grow, so what a saver compares its row with stays older.
LEMMA SaversKeep ==
  ASSUME SaverOK, next \in Nat, next' \in Nat, next' >= next, UNCHANGED <<draft, todo>>
  PROVE  SaverOK'
  BY DEF SaverOK

-----------------------------------------------------------------------------
\* The table at the start satisfies the invariant.
LEMMA InitInv == Init => Inv
<1> SUFFICES ASSUME Init PROVE Inv
  OBVIOUS
<1>1. TableOK
  BY MemoryAssumption DEF Init, TableOK, ReplacedByNewer
<1>2. QueueOK
  BY QueueAssumption DEF Init, QueueInit, QueueOK
<1>3. SaverOK
  BY DEF Init, SaverOK, At
<1> QED BY <1>1, <1>2, <1>3 DEF Init, Inv, ReaderOK, MarkOK

(* One step per action; each part of the invariant that it leaves alone is  *)
(* carried over.                                                            *)
LEMMA SearchInv ==
  ASSUME Inv, NEW s \in Savers, Search(s) \/ Lookup(s)
  PROVE  Inv'
<1> USE DEF Inv
<1>1. TableOK' /\ QueueOK' /\ ReaderOK' /\ MarkOK' /\ next' = next
  BY DEF Search, Lookup, table, readers, queueVars, TableOK, ReplacedByNewer, QueueOK, ReaderOK,
       MarkOK
<1>2. todo' = todo
  BY DEF Search, Lookup
<1>3. \A F : F \in UpTo(SearchLimit, Active) => F \subseteq 1 .. next
  BY DEF UpTo, Active, TableOK
<1>4. SaverOK'
  <2>1. CASE Search(s)
    <3>1. PICK F \in UpTo(SearchLimit, Active), answered \in BOOLEAN, known \in BOOLEAN :
           \E V \in SUBSET F :
             draft' = [draft EXCEPT ![s] =
              [at    |-> IF known THEN "lookup" ELSE "commit",
               found |-> IF known \/ ~answered THEN F ELSE {},
               open  |-> IF answered THEN {} ELSE F,
               out   |-> V,
               defer |-> (IF answered THEN {} ELSE {"check"}) \cup (IF known THEN {} ELSE {"entities"})]]
      BY <2>1 DEF Search
    <3> QED BY <3>1, <1>1, <1>2, <1>3 DEF SaverOK
  <2>2. CASE Lookup(s)
    <3>1. PICK E \in UpTo(SearchLimit, Active \ draft[s].found), answered \in BOOLEAN :
           \E V \in SUBSET E :
             draft' = [draft EXCEPT ![s] =
              [at    |-> "commit",
               found |-> IF "check" \in draft[s].defer THEN draft[s].found \cup E ELSE {},
               open  |-> IF answered THEN draft[s].open ELSE draft[s].open \cup E,
               out   |-> draft[s].out \cup V,
               defer |-> draft[s].defer]]
      BY <2>2 DEF Lookup
    <3>2. E \subseteq 1 .. next
      BY DEF UpTo, Active, TableOK
    <3>3. draft[s].found \subseteq 1 .. next /\ draft[s].open \subseteq 1 .. next
          /\ draft[s].out \subseteq 1 .. next /\ draft[s].defer \in SUBSET {"check", "entities"}
      BY DEF SaverOK
    <3>4. PICK f \in SUBSET (1 .. next), o \in SUBSET (1 .. next), u \in SUBSET (1 .. next) :
             draft' = [draft EXCEPT ![s] =
               [at |-> "commit", found |-> f, open |-> o, out |-> u, defer |-> draft[s].defer]]
      BY <3>1, <3>2, <3>3
    <3> QED BY <3>3, <3>4, <1>1, <1>2 DEF SaverOK
  <2> QED BY <2>1, <2>2
<1> QED BY <1>1, <1>4

\* What a save defers compares its new row with older ones.
LEMMA DeferredItems ==
  ASSUME NEW d \in [at : {"search", "lookup", "commit", "submit", "done"}, found : SUBSET (1 .. next),
                    open : SUBSET (1 .. next), out : SUBSET (1 .. next),
                    defer : SUBSET {"check", "entities"}],
         next \in Nat, next + 1 \in Ids
  PROVE  Deferred(d, next + 1) \in Seq(Items) /\ Deferred(d, next + 1) # <<>>
<1>1. Item("check", next + 1, d.found, "normal") \in Items
  BY QueueAssumption, MemoryAssumption DEF Item, Items, Ids
<1>2. Item("entities", next + 1, {}, "low") \in Items /\ Item("grade", next + 1, {}, "normal") \in Items
  BY QueueAssumption DEF Item, Items
<1> DEFINE check == Item("check", next + 1, d.found, "normal")
           names == Item("entities", next + 1, {}, "low")
           grade == Item("grade", next + 1, {}, "normal")
<1> HIDE DEF check, names, grade
<1>3. check \in Items /\ names \in Items /\ grade \in Items
  BY <1>1, <1>2 DEF check, names, grade
<1>4. Deferred(d, next + 1) =
        (IF "check" \in d.defer THEN <<check>> ELSE <<>>)
        \o (IF "entities" \in d.defer THEN <<names>> ELSE <<>>) \o <<grade>>
  BY DEF Deferred, check, names, grade
<1> QED BY <1>3, <1>4

\* A save supersedes what it found, by the row it inserts.
LEMMA CommitInv ==
  ASSUME Inv, NEW s \in Savers, Commit(s)
  PROVE  Inv'
<1> USE DEF Inv
<1>1. QueueOK' /\ UNCHANGED readers
  BY DEF Commit, queueVars, QueueOK
<1>2. CASE Insert(draft[s].out) /\ todo' = [todo EXCEPT ![s] = Deferred(draft[s], next')]
           /\ draft' = [draft EXCEPT ![s] = At("submit")]
           /\ owed' = owed \cup (IF "check" \in draft[s].defer THEN {next'} ELSE {})
  <2>1. TableOK' /\ next' = next + 1 /\ next' \in Ids
    BY <1>2, InsertKeeps
  <2>2. next \in Nat /\ next' \in Nat /\ next' >= next
    BY <2>1, MemoryAssumption DEF TableOK
  <2>3. Deferred(draft[s], next') \in Seq(Items) /\ Deferred(draft[s], next') # <<>>
    BY <2>1, <2>2, DeferredItems DEF SaverOK
  <2>4. SaverOK'
    BY <1>2, <2>2, <2>3 DEF SaverOK, At
  <2>5. MarkOK'
    BY <1>2, <2>1 DEF MarkOK, Commit
  <2> QED BY <1>1, <2>1, <2>2, <2>4, <2>5, ReadersKeep
<1>3. CASE draft' = [draft EXCEPT ![s] = At("done")] /\ UNCHANGED <<table, todo, owed>>
  <2>1. TableOK' /\ ReaderOK' /\ MarkOK'
    BY <1>1, <1>3 DEF TableOK, ReplacedByNewer, ReaderOK, MarkOK, table, readers, Commit
  <2>2. SaverOK'
    BY <1>3 DEF SaverOK, At, table
  <2> QED BY <1>1, <2>1, <2>2
<1> QED BY <1>2, <1>3 DEF Commit

\* A list that is not empty has a first item and the others.
LEMMA HeadAndTail ==
  ASSUME NEW S, NEW q \in Seq(S), q # <<>>
  PROVE  Head(q) \in S /\ Tail(q) \in Seq(S) /\ (Len(q) # 1 => Tail(q) # <<>>)
<1>1. Len(q) \in Nat /\ Len(q) # 0 /\ Head(q) = q[1] /\ Tail(q) \in Seq(S) /\ Len(Tail(q)) = Len(q) - 1
  OBVIOUS
<1>2. Head(q) \in S
  BY <1>1
<1>3. ASSUME Len(q) # 1
      PROVE  Tail(q) # <<>>
  <2>1. Len(Tail(q)) # 0
    BY <1>1, <1>3
  <2>2. Len(<<>>) = 0
    OBVIOUS
  <2> QED BY <2>1, <2>2
<1> QED BY <1>1, <1>2, <1>3

\* A submission goes to the queue, or is dropped at its limit.
LEMMA SubmitInv ==
  ASSUME Inv, NEW s \in Savers, Submit(s)
  PROVE  Inv'
<1> USE DEF Inv
<1> DEFINE item == Head(todo[s])
<1>1. todo[s] \in Seq(Items) /\ todo[s] # <<>>
  BY DEF Submit, SaverOK
<1>2. item \in Items /\ Tail(todo[s]) \in Seq(Items) /\ (Len(todo[s]) # 1 => Tail(todo[s]) # <<>>)
  BY <1>1, HeadAndTail
<1> HIDE DEF item
<1>3. QueueWork(item) /\ (CompleteWithError(item) \/ UNCHANGED <<table, graders, owed>>)
  BY DEF Submit, item
<1>4. QueueOK'
  BY <1>2, <1>3, QueueWorkKeeps
<1>5. TableOK' /\ MarkOK' /\ next' = next
  <2>1. CASE CompleteWithError(item)
    BY <2>1, ErrorKeeps
  <2>2. CASE UNCHANGED <<table, graders, owed>>
    BY <2>2 DEF TableOK, ReplacedByNewer, MarkOK, table
  <2> QED BY <1>3, <2>1, <2>2
<1>6. ReaderOK'
  BY <1>5 DEF Submit, ReaderOK, readers
<1>7. SaverOK'
  <2>1. todo' = [todo EXCEPT ![s] = Tail(todo[s])]
        /\ draft' = IF Len(todo[s]) = 1 THEN [draft EXCEPT ![s] = At("done")] ELSE draft
    BY DEF Submit
  <2> QED BY <1>2, <1>5, <2>1 DEF SaverOK, At
<1> QED BY <1>4, <1>5, <1>6, <1>7

\* A late verdict supersedes older rows only.
LEMMA QueueInv ==
  ASSUME Inv, QueueStep
  PROVE  Inv'
<1> USE DEF Inv
<1>1. TableOK' /\ MarkOK' /\ QueueOK' /\ next' = next
  <2>1. ASSUME NEW item \in later, Requeue(item),
               CompleteWithError(item) \/ UNCHANGED <<table, graders, owed>>
        PROVE  TableOK' /\ MarkOK' /\ QueueOK' /\ next' = next
    <3>1. QueueOK'
      BY <2>1, RequeueKeeps
    <3>2. CASE CompleteWithError(item)
      BY <3>1, <3>2, ErrorKeeps
    <3>3. CASE UNCHANGED <<table, graders, owed>>
      BY <3>1, <3>3 DEF TableOK, ReplacedByNewer, MarkOK, table
    <3> QED BY <2>1, <3>2, <3>3
  <2>2. ASSUME NEW w \in Workers, Work(w)
        PROVE  TableOK' /\ MarkOK' /\ QueueOK' /\ next' = next
    <3>1. CASE (Take(w) \/ Fail(w) \/ Retry(w)) /\ UNCHANGED <<table, graders, owed>>
      BY <3>1, WorkerKeeps DEF TableOK, ReplacedByNewer, MarkOK, table
    <3>2. CASE Succeeds(w) /\ Complete(held[w]) /\ Finish(w)
      <4>1. held[w] # Nothing /\ held[w] \in Items
        BY <3>2 DEF Succeeds, Executes, QueueOK
      <4> QED BY <3>2, <4>1, CompleteKeeps, WorkerKeeps
    <3>3. CASE GivesUp(w) /\ CompleteWithError(held[w]) /\ Finish(w)
      <4>1. held[w] # Nothing
        BY <3>3 DEF GivesUp, Executes, QueueOK
      <4> QED BY <3>3, <4>1, ErrorKeeps, WorkerKeeps
    <3> QED BY <2>2, <3>1, <3>2, <3>3 DEF Work
  <2> QED BY <2>1, <2>2 DEF QueueStep, Wake
<1>2. UNCHANGED <<draft, todo, readers>>
  BY DEF QueueStep
<1>3. SaverOK' /\ ReaderOK'
  BY <1>1, <1>2 DEF SaverOK, ReaderOK, readers
<1> QED BY <1>1, <1>3

\* An insertion supersedes rows of lower ids.
LEMMA InsertInv ==
  ASSUME Inv, NEW old, Insert(old),
         UNCHANGED <<draft, todo, owed, queueVars>>,
         graders' \subseteq graders \cup {next'},
         batch' = batch,
         matches' = matches \/ \E f \in Forgetters : matches' = [matches EXCEPT ![f] = {}]
  PROVE  Inv'
<1> USE DEF Inv
<1>1. TableOK' /\ next' = next + 1 /\ next' \in Ids
  BY InsertKeeps
<1>2. next \in Nat /\ next' \in Nat /\ next' >= next
  BY <1>1, MemoryAssumption DEF TableOK
<1>3. SaverOK'
  BY <1>2, SaversKeep
<1>4. ReaderOK'
  BY <1>2 DEF ReaderOK
<1>5. MarkOK' /\ QueueOK'
  BY <1>1 DEF MarkOK, QueueOK, queueVars
<1> QED BY <1>1, <1>3, <1>4, <1>5

\* Grades, merges and archives do so as well.
LEMMA OtherInv ==
  ASSUME Inv,
         \/ Write
         \/ \E r \in Ids : GradeDirectly(r)
         \/ \E c \in Consolidators : Consolidate(c) \/ Merge(c) \/ EndRound(c)
         \/ \E f \in Forgetters : ReadTopic(f) \/ Archive(f)
  PROVE  Inv'
<1> USE DEF Inv
<1>1. CASE Write
  BY <1>1, InsertInv DEF Write, readers
<1>2. ASSUME NEW r \in Ids, GradeDirectly(r) PROVE Inv'
  <2>1. UNCHANGED <<draft, todo, readers, owed, queueVars>> /\ graders' = graders \ {r} /\ Grade(r)
    BY <1>2 DEF GradeDirectly
  <2>2. TableOK' /\ next' = next
    <3>1. CASE Delete({r})
      BY <3>1, DeleteKeeps
    <3>2. CASE UNCHANGED table
      BY <3>2 DEF TableOK, ReplacedByNewer, table
    <3> QED BY <2>1, <3>1, <3>2 DEF Grade
  <2> QED BY <2>1, <2>2 DEF SaverOK, ReaderOK, MarkOK, QueueOK, queueVars, readers
<1>3. ASSUME NEW c \in Consolidators, Consolidate(c) \/ EndRound(c) PROVE Inv'
  <2>1. Active \subseteq 1 .. next
    BY DEF Active, TableOK
  <2>2. UNCHANGED <<table, draft, todo, matches, graders, owed, queueVars>>
        /\ (batch' = [batch EXCEPT ![c] = Active] \/ batch' = [batch EXCEPT ![c] = {}])
    BY <1>3 DEF Consolidate, EndRound
  <2> QED BY <2>1, <2>2 DEF TableOK, ReplacedByNewer, SaverOK, ReaderOK, MarkOK, QueueOK,
       queueVars, table
<1>4. ASSUME NEW c \in Consolidators, Merge(c) PROVE Inv'
  BY <1>4, InsertInv DEF Merge, readers
<1>5. ASSUME NEW f \in Forgetters, ReadTopic(f) PROVE Inv'
  <2>1. Active \subseteq 1 .. next
    BY DEF Active, TableOK
  <2>2. PICK M \in SUBSET Active : matches' = [matches EXCEPT ![f] = M]
    BY <1>5 DEF ReadTopic
  <2>3. UNCHANGED <<table, draft, todo, batch, graders, owed, queueVars>>
    BY <1>5 DEF ReadTopic
  <2> QED BY <2>1, <2>2, <2>3 DEF TableOK, ReplacedByNewer, SaverOK, ReaderOK, MarkOK, QueueOK,
       queueVars, table
<1>6. ASSUME NEW f \in Forgetters, Archive(f) PROVE Inv'
  <2>1. UNCHANGED <<draft, todo, batch, graders, owed, queueVars>> /\ matches' = [matches EXCEPT ![f] = {}]
    BY <1>6 DEF Archive
  <2>2. CASE Insert(matches[f])
    BY <2>1, <2>2, InsertInv
  <2>3. CASE UNCHANGED table
    BY <2>1, <2>3 DEF TableOK, ReplacedByNewer, SaverOK, ReaderOK, MarkOK, QueueOK, queueVars, table
  <2> QED BY <1>6, <2>2, <2>3 DEF Archive
<1> QED BY <1>1, <1>2, <1>3, <1>4, <1>5, <1>6

(* Every step keeps the invariant.                                          *)
THEOREM Inductive == Spec => []Inv
<1>1. Inv /\ [Next]_vars => Inv'
  <2> SUFFICES ASSUME Inv, [Next]_vars PROVE Inv'
    OBVIOUS
  <2>1. ASSUME NEW s \in Savers, Save(s) PROVE Inv'
    BY <2>1, SearchInv, CommitInv, SubmitInv DEF Save
  <2>2. CASE QueueStep
    BY <2>2, QueueInv
  <2>3. CASE UNCHANGED vars
    BY <2>3 DEF vars, table, readers, queueVars, Inv, TableOK, ReplacedByNewer, QueueOK, SaverOK,
         ReaderOK, MarkOK
  <2> QED BY <2>1, <2>2, <2>3, OtherInv DEF Next
<1> QED BY InitInv, <1>1, PTL DEF Spec

(* Drafts, queue and readers have their types, for every instance.          *)
THEOREM MemoryTyped == Spec => []TypeOK
  BY Inductive, InvImplies, PTL

(* However late a verdict comes, a memory is only replaced by a later one   *)
(* that still exists (contradiction.go:288-297, 363-376).                   *)
THEOREM MemoriesReplacedByNewer == Spec => []ReplacedByNewer
  BY Inductive, InvImplies, PTL

-----------------------------------------------------------------------------
(* Where the deferred check of a row may be.                                *)
About(e, r) == e.task = "check" /\ e.row = r
Checks(q, r) == {i \in DOMAIN q : About(q[i], r)}
SaversOf(r) == {s \in Savers : Checks(todo[s], r) # {}}
WorkersOf(r) == {w \in Workers : About(held[w], r)}

Nowhere(r) == SaversOf(r) = {} /\ Checks(queue, r) = {} /\ WorkersOf(r) = {}
InOnePlace(r) ==
    \/ \E s : SaversOf(r) = {s} /\ Checks(queue, r) = {} /\ WorkersOf(r) = {}
    \/ \E i : SaversOf(r) = {} /\ Checks(queue, r) = {i} /\ WorkersOf(r) = {}
    \/ \E w : SaversOf(r) = {} /\ Checks(queue, r) = {} /\ WorkersOf(r) = {w}
Kept(r) == IF r \in owed THEN InOnePlace(r) ELSE Nowhere(r)

(* A check is the first of what a save submits, never of low priority and   *)
(* so never put off for an hour; only committed rows are owed one.          *)
ChecksFirst ==
    /\ owed \subseteq 1 .. next
    /\ \A i \in later : i.task # "check"
    /\ \A s \in Savers :
          /\ draft[s].at # "submit" => todo[s] = <<>>
          /\ \A i \in DOMAIN todo[s] : todo[s][i].task = "check" =>
                i = 1 /\ todo[s][i].priority = "normal"

KInv == ChecksFirst /\ \A r \in Ids : Kept(r)

\* An item sent is the last of the queue, and no other is there twice for it.
LEMMA ChecksSent ==
  ASSUME NEW S, NEW q \in Seq(S), NEW e \in S, NEW r
  PROVE  /\ About(e, r) => Checks(Append(q, e), r) = Checks(q, r) \cup {Len(q) + 1}
         /\ ~About(e, r) => Checks(Append(q, e), r) = Checks(q, r)
<1>1. /\ \A i : i \in DOMAIN Append(q, e) <=> i \in DOMAIN q \/ i = Len(q) + 1
      /\ \A i \in DOMAIN q : Append(q, e)[i] = q[i]
      /\ Append(q, e)[Len(q) + 1] = e /\ Len(q) + 1 \notin DOMAIN q
  OBVIOUS
<1> QED BY <1>1 DEF Checks

\* The item a worker takes is the first, and the others move up.
LEMMA ChecksReceived ==
  ASSUME NEW S, NEW q \in Seq(S), q # <<>>, NEW r
  PROVE  /\ Checks(q, r) = {} => Checks(Tail(q), r) = {} /\ ~About(Head(q), r)
         /\ \A i : Checks(q, r) = {i} =>
               IF About(Head(q), r) THEN Checks(Tail(q), r) = {} ELSE Checks(Tail(q), r) = {i - 1}
<1>1. /\ Head(q) = q[1] /\ 1 \in DOMAIN q
      /\ \A i \in DOMAIN Tail(q) : i \in Nat \ {0} /\ i + 1 \in DOMAIN q /\ Tail(q)[i] = q[i + 1]
      /\ \A i \in DOMAIN q : i = 1 \/ (i \in Nat /\ i - 1 \in DOMAIN Tail(q) /\ q[i] = Tail(q)[i - 1])
  OBVIOUS
<1>2. CASE Checks(q, r) = {}
  BY <1>1, <1>2 DEF Checks
<1>3. ASSUME NEW i, Checks(q, r) = {i}, About(Head(q), r)
      PROVE  Checks(Tail(q), r) = {}
  <2>1. i = 1
    BY <1>1, <1>3 DEF Checks
  <2>2. \A k \in DOMAIN Tail(q) : ~About(Tail(q)[k], r)
    BY <1>1, <1>3, <2>1 DEF Checks
  <2> QED BY <2>2 DEF Checks
<1>4. ASSUME NEW i, Checks(q, r) = {i}, ~About(Head(q), r)
      PROVE  Checks(Tail(q), r) = {i - 1}
  <2>1. i \in DOMAIN q /\ About(q[i], r) /\ i # 1
    BY <1>1, <1>4 DEF Checks
  <2>2. i - 1 \in DOMAIN Tail(q) /\ About(Tail(q)[i - 1], r)
    BY <1>1, <2>1
  <2>3. \A k \in DOMAIN Tail(q) : About(Tail(q)[k], r) => k + 1 = i
    BY <1>1, <1>4 DEF Checks
  <2>4. \A k \in DOMAIN Tail(q) : About(Tail(q)[k], r) => k = i - 1
    BY <1>1, <2>1, <2>3
  <2> QED BY <2>2, <2>4 DEF Checks
<1> QED BY <1>1, <1>2, <1>3, <1>4 DEF Checks

(* A step that moves no item and answers no check.                          *)
LEMMA SameKept ==
  ASSUME NEW r, Kept(r), UNCHANGED <<todo, queue, held>>, r \in owed' <=> r \in owed
  PROVE  Kept(r)'
  BY DEF Kept, InOnePlace, Nowhere, SaversOf, WorkersOf

(* A worker takes an item, keeps it for a retry, gives it back, or is done   *)
(* with it.                                                                 *)
LEMMA TakeKept ==
  ASSUME QueueOK, NEW r, Kept(r), NEW w \in Workers, Take(w), UNCHANGED <<todo, owed>>
  PROVE  Kept(r)'
<1>1. queue \in Seq(Items) /\ queue # <<>> /\ queue' = Tail(queue)
      /\ held' = [held EXCEPT ![w] = Head(queue)] /\ held[w] = Nothing /\ w \in DOMAIN held
  BY DEF Take, QueueOK
<1>2. SaversOf(r)' = SaversOf(r)
  BY DEF SaversOf
<1>3. w \notin WorkersOf(r)
  BY <1>1 DEF WorkersOf, About, Nothing
<1>4. WorkersOf(r)' = IF About(Head(queue), r) THEN WorkersOf(r) \cup {w} ELSE WorkersOf(r)
  BY <1>1, <1>3 DEF WorkersOf, QueueOK
<1>5. /\ Checks(queue, r) = {} => Checks(queue', r) = {} /\ ~About(Head(queue), r)
      /\ \A i : Checks(queue, r) = {i} =>
            IF About(Head(queue), r) THEN Checks(queue', r) = {} ELSE Checks(queue', r) = {i - 1}
  BY <1>1, ChecksReceived
<1>6. CASE Nowhere(r) /\ r \notin owed
  BY <1>2, <1>4, <1>5, <1>6 DEF Nowhere, Kept
<1>7. CASE InOnePlace(r) /\ r \in owed
  <2>1. CASE Checks(queue, r) = {}
    BY <1>2, <1>4, <1>5, <1>7, <2>1 DEF InOnePlace, Kept
  <2>2. ASSUME NEW i, SaversOf(r) = {} /\ Checks(queue, r) = {i} /\ WorkersOf(r) = {}
        PROVE  Kept(r)'
    <3>1. CASE About(Head(queue), r)
      <4>1. SaversOf(r)' = {} /\ Checks(queue', r) = {} /\ WorkersOf(r)' = {w}
        BY <1>2, <1>4, <1>5, <2>2, <3>1
      <4> QED BY <1>7, <4>1 DEF InOnePlace, Kept
    <3>2. CASE ~About(Head(queue), r)
      <4>1. SaversOf(r)' = {} /\ Checks(queue', r) = {i - 1} /\ WorkersOf(r)' = {}
        BY <1>2, <1>4, <1>5, <2>2, <3>2
      <4> QED BY <1>7, <4>1 DEF InOnePlace, Kept
    <3> QED BY <3>1, <3>2
  <2> QED BY <1>7, <2>1, <2>2 DEF InOnePlace
<1> QED BY <1>6, <1>7 DEF Kept

\* A worker that fails keeps the check it owes,
LEMMA FailKept ==
  ASSUME QueueOK, NEW r, Kept(r), NEW w \in Workers, Fail(w), UNCHANGED <<todo, owed>>
  PROVE  Kept(r)'
<1>1. held[w] \in Items /\ held' = [held EXCEPT ![w].tries = @ - 1] /\ queue' = queue
  BY DEF Fail, Executes, QueueOK
<1>2. About([held[w] EXCEPT !.tries = @ - 1], r) <=> About(held[w], r)
  BY <1>1 DEF About, Items
<1>3. WorkersOf(r)' = WorkersOf(r)
  BY <1>1, <1>2 DEF WorkersOf, QueueOK
<1> QED BY <1>1, <1>3 DEF Kept, InOnePlace, Nowhere, SaversOf

\* and so does one that tries again.
LEMMA RetryKept ==
  ASSUME QueueOK, NEW r, Kept(r), NEW w \in Workers, Retry(w), UNCHANGED <<todo, owed>>
  PROVE  Kept(r)'
<1>1. queue \in Seq(Items) /\ held[w] \in Items /\ queue' = Append(queue, held[w])
      /\ held' = [held EXCEPT ![w] = Nothing]
  BY DEF Retry, QueueOK
<1>2. SaversOf(r)' = SaversOf(r)
  BY DEF SaversOf
<1>3. WorkersOf(r)' = WorkersOf(r) \ {w}
  BY <1>1 DEF WorkersOf, QueueOK, About, Nothing
<1>4. /\ About(held[w], r) => Checks(queue', r) = Checks(queue, r) \cup {Len(queue) + 1}
      /\ ~About(held[w], r) => Checks(queue', r) = Checks(queue, r)
  BY <1>1, ChecksSent
<1>5. About(held[w], r) <=> w \in WorkersOf(r)
  BY DEF WorkersOf
<1>6. CASE About(held[w], r)
  <2>1. r \in owed /\ SaversOf(r) = {} /\ Checks(queue, r) = {} /\ WorkersOf(r) = {w}
    BY <1>5, <1>6 DEF Kept, InOnePlace, Nowhere
  <2>2. SaversOf(r)' = {} /\ Checks(queue', r) = {Len(queue) + 1} /\ WorkersOf(r)' = {}
    BY <1>2, <1>3, <1>4, <1>6, <2>1
  <2> QED BY <2>1, <2>2 DEF Kept, InOnePlace
<1>7. CASE ~About(held[w], r)
  <2>1. WorkersOf(r)' = WorkersOf(r) /\ Checks(queue', r) = Checks(queue, r)
    BY <1>3, <1>4, <1>5, <1>7
  <2> QED BY <1>2, <2>1 DEF Kept, InOnePlace, Nowhere
<1> QED BY <1>6, <1>7

(* OnComplete runs, with the answer or an error: the check is in no place   *)
(* any more, and no longer owed.                                            *)
LEMMA FinishKept ==
  ASSUME QueueOK, NEW r, Kept(r), NEW w \in Workers, Finish(w), held[w] # Nothing,
         UNCHANGED todo,
         owed' = IF held[w].task = "check" THEN owed \ {held[w].row} ELSE owed
  PROVE  Kept(r)'
<1>1. held' = [held EXCEPT ![w] = Nothing] /\ queue' = queue
  BY DEF Finish
<1>2. SaversOf(r)' = SaversOf(r)
  BY DEF SaversOf
<1>3. WorkersOf(r)' = WorkersOf(r) \ {w}
  BY <1>1 DEF WorkersOf, QueueOK, About, Nothing
<1>4. About(held[w], r) <=> w \in WorkersOf(r)
  BY DEF WorkersOf
<1>5. CASE About(held[w], r)
  <2>1. SaversOf(r) = {} /\ Checks(queue, r) = {} /\ WorkersOf(r) = {w}
    BY <1>4, <1>5 DEF Kept, InOnePlace, Nowhere
  <2>2. SaversOf(r)' = {} /\ Checks(queue', r) = {} /\ WorkersOf(r)' = {} /\ r \notin owed'
    BY <1>1, <1>2, <1>3, <1>5, <2>1 DEF About
  <2> QED BY <2>2 DEF Kept, Nowhere
<1>6. CASE ~About(held[w], r)
  <2>1. WorkersOf(r)' = WorkersOf(r) /\ (r \in owed' <=> r \in owed)
    BY <1>3, <1>4, <1>6 DEF About
  <2> QED BY <1>1, <1>2, <2>1 DEF Kept, InOnePlace, Nowhere
<1> QED BY <1>5, <1>6

(* What has been put off for an hour is no check.                           *)
LEMMA WakeKept ==
  ASSUME QueueOK, NEW r, Kept(r), NEW item \in later, item.task # "check", Requeue(item),
         UNCHANGED <<todo, owed>>
  PROVE  Kept(r)'
<1>1. queue \in Seq(Items) /\ item \in Items /\ ~About(item, r) /\ held' = held
      /\ (queue' = queue \/ queue' = Append(queue, item))
  BY DEF QueueOK, Requeue, About
<1>2. Checks(Append(queue, item), r) = Checks(queue, r)
  BY <1>1, ChecksSent
<1>3. Checks(queue', r) = Checks(queue, r)
  BY <1>1, <1>2
<1> QED BY <1>1, <1>3 DEF Kept, InOnePlace, Nowhere, SaversOf, WorkersOf

(* A save hands its next item to the queue, or is told that it is full.     *)
LEMMA SubmitKept ==
  ASSUME QueueOK, SaverOK, ChecksFirst, NEW r, Kept(r), NEW s \in Savers, Submit(s)
  PROVE  Kept(r)'
<1> DEFINE item == Head(todo[s])
<1>1. todo[s] \in Seq(Items) /\ todo[s] # <<>> /\ item \in Items /\ item = todo[s][1]
      /\ 1 \in DOMAIN todo[s]
  BY DEF Submit, SaverOK
<1>2. todo' = [todo EXCEPT ![s] = Tail(todo[s])] /\ held' = held /\ QueueWork(item)
      /\ IF Dropped(item) THEN CompleteWithError(item) ELSE owed' = owed
  BY DEF Submit, QueueWork
<1>3. \A i \in DOMAIN Tail(todo[s]) : Tail(todo[s])[i].task # "check"
  <2>1. \A i \in DOMAIN Tail(todo[s]) : i + 1 \in DOMAIN todo[s] /\ i + 1 # 1
                                        /\ Tail(todo[s])[i] = todo[s][i + 1]
    BY <1>1
  <2> QED BY <2>1 DEF ChecksFirst
<1>4. /\ About(item, r) <=> s \in SaversOf(r)
      /\ SaversOf(r)' = SaversOf(r) \ {s}
  <2>1. Checks(Tail(todo[s]), r) = {}
    BY <1>3 DEF Checks, About
  <2>2. \A i \in DOMAIN todo[s] : About(todo[s][i], r) => i = 1
    BY DEF ChecksFirst, About
  <2>3. About(item, r) <=> Checks(todo[s], r) # {}
    BY <1>1, <2>2 DEF Checks
  <2> HIDE DEF item
  <2>4. SaversOf(r)' = SaversOf(r) \ {s}
    BY <1>2, <2>1 DEF SaversOf, SaverOK
  <2> QED BY <2>3, <2>4 DEF SaversOf
<1>5. WorkersOf(r)' = WorkersOf(r)
  BY <1>2 DEF WorkersOf
<1>6. item.task = "check" => item.priority = "normal"
  BY <1>1 DEF ChecksFirst
<1> HIDE DEF item
<1>7. CASE About(item, r)
  <2>1. r \in owed /\ SaversOf(r) = {s} /\ Checks(queue, r) = {} /\ WorkersOf(r) = {}
    BY <1>4, <1>7 DEF Kept, InOnePlace, Nowhere
  <2>2. ~Pressed(item)
    BY <1>6, <1>7 DEF Pressed, About
  <2>3. CASE Full
    <3>1. queue' = queue /\ owed' = owed \ {r}
      BY <1>2, <1>7, <2>2, <2>3 DEF QueueWork, Dropped, CompleteWithError, About
    <3>2. SaversOf(r)' = {} /\ Checks(queue', r) = {} /\ WorkersOf(r)' = {} /\ r \notin owed'
      BY <1>4, <1>5, <2>1, <3>1
    <3> QED BY <3>2 DEF Kept, Nowhere
  <2>4. CASE ~Full
    <3>1. queue' = Append(queue, item) /\ owed' = owed
      BY <1>2, <2>2, <2>4 DEF QueueWork, Dropped
    <3>2. Checks(queue', r) = {Len(queue) + 1}
      BY <1>1, <1>7, <2>1, <3>1, ChecksSent DEF QueueOK
    <3>3. SaversOf(r)' = {} /\ WorkersOf(r)' = {} /\ r \in owed'
      BY <1>4, <1>5, <2>1, <3>1
    <3> QED BY <3>2, <3>3 DEF Kept, InOnePlace
  <2> QED BY <2>3, <2>4
<1>8. CASE ~About(item, r)
  <2>1. queue' = queue \/ queue' = Append(queue, item)
    BY <1>2 DEF QueueWork
  <2>2. Checks(queue', r) = Checks(queue, r)
    <3>1. Checks(Append(queue, item), r) = Checks(queue, r)
      BY <1>1, <1>8, ChecksSent DEF QueueOK
    <3> QED BY <2>1, <3>1
  <2>3. SaversOf(r)' = SaversOf(r)
    BY <1>4, <1>8
  <2>4. r \in owed' <=> r \in owed
    BY <1>2, <1>8 DEF CompleteWithError, About
  <2> QED BY <1>5, <2>2, <2>3, <2>4 DEF Kept, InOnePlace, Nowhere
<1> QED BY <1>7, <1>8

(* What a save is going to submit: its check first, if it has one.          *)
LEMMA DeferredChecks ==
  ASSUME NEW d, NEW n
  PROVE  /\ \A i \in DOMAIN Deferred(d, n) : Deferred(d, n)[i].task = "check" =>
               /\ i = 1 /\ Deferred(d, n)[i].priority = "normal"
               /\ Deferred(d, n)[i].row = n /\ "check" \in d.defer
         /\ "check" \in d.defer => 1 \in DOMAIN Deferred(d, n) /\ About(Deferred(d, n)[1], n)
<1> DEFINE check == Item("check", n, d.found, "normal")
           names == Item("entities", n, {}, "low")
           grade == Item("grade", n, {}, "normal")
<1>1. /\ check.task = "check" /\ check.row = n /\ check.priority = "normal"
      /\ names.task # "check" /\ grade.task # "check"
  BY DEF Item
<1> HIDE DEF check, names, grade
<1>2. Deferred(d, n) = (IF "check" \in d.defer THEN <<check>> ELSE <<>>)
                       \o (IF "entities" \in d.defer THEN <<names>> ELSE <<>>) \o <<grade>>
  BY DEF Deferred, check, names, grade
<1> DEFINE X == {check, names, grade}
           A == IF "check" \in d.defer THEN <<check>> ELSE <<>>
           B == IF "entities" \in d.defer THEN <<names>> ELSE <<>>
<1>3. /\ A \in Seq(X) /\ (\A i \in DOMAIN A : i = 1 /\ A[i] = check /\ "check" \in d.defer)
      /\ "check" \in d.defer => Len(A) = 1 /\ A[1] = check
      /\ B \in Seq(X) /\ \A i \in DOMAIN B : B[i] = names
  <2>1. /\ <<>> \in Seq(X) /\ DOMAIN <<>> = {}
    OBVIOUS
  <2>2. \A e \in X : /\ <<e>> \in Seq(X) /\ DOMAIN <<e>> = {1} /\ Len(<<e>>) = 1
                     /\ <<e>>[1] = e
    OBVIOUS
  <2>3. CASE "check" \in d.defer
    <3>1. A = <<check>>
      BY <2>3
    <3> HIDE DEF A, B
    <3>2. A \in Seq(X) /\ DOMAIN A = {1} /\ Len(A) = 1 /\ A[1] = check
      BY <2>2, <3>1
    <3>3. B \in Seq(X) /\ \A i \in DOMAIN B : B[i] = names
      BY <2>1, <2>2 DEF B
    <3> QED BY <2>3, <3>2, <3>3
  <2>4. CASE "check" \notin d.defer
    <3>1. A = <<>>
      BY <2>4
    <3> HIDE DEF A, B
    <3>2. A \in Seq(X) /\ DOMAIN A = {}
      BY <2>1, <3>1
    <3>3. B \in Seq(X) /\ \A i \in DOMAIN B : B[i] = names
      BY <2>1, <2>2 DEF B
    <3> QED BY <2>4, <3>2, <3>3
  <2> QED BY <2>3, <2>4
<1>4. Deferred(d, n) = A \o B \o <<grade>>
  BY <1>2
<1> HIDE DEF A, B
<1>5. /\ \A i \in DOMAIN Deferred(d, n) :
            \/ i \in DOMAIN A /\ Deferred(d, n)[i] = A[i]
            \/ i - Len(A) \in DOMAIN B /\ Deferred(d, n)[i] = B[i - Len(A)]
            \/ Deferred(d, n)[i] = grade
      /\ \A i \in DOMAIN A : i \in DOMAIN Deferred(d, n) /\ Deferred(d, n)[i] = A[i]
  BY <1>3, <1>4
<1> QED BY <1>1, <1>3, <1>5 DEF About

(* A new row: nothing was owed to it.                                       *)
LEMMA CommitKept ==
  ASSUME SaverOK, ChecksFirst, next \in Nat, NEW r, Kept(r), NEW s \in Savers, Commit(s)
  PROVE  Kept(r)'
<1>1. held' = held /\ queue' = queue /\ todo[s] = <<>>
  BY DEF Commit, queueVars, ChecksFirst
<1>2. Checks(queue', r) = Checks(queue, r) /\ WorkersOf(r)' = WorkersOf(r)
  BY <1>1 DEF WorkersOf
<1>3. s \notin SaversOf(r)
  BY <1>1 DEF SaversOf, Checks
<1>4. CASE UNCHANGED <<table, todo, owed>>
  BY <1>1, <1>4, SameKept
<1>5. ASSUME Insert(draft[s].out),
             todo' = [todo EXCEPT ![s] = Deferred(draft[s], next')],
             owed' = owed \cup (IF "check" \in draft[s].defer THEN {next'} ELSE {})
      PROVE  Kept(r)'
  <2>1. next' \notin owed /\ next' = next + 1
    BY <1>5 DEF Insert, ChecksFirst
  <2>2. SaversOf(r)' = IF Checks(Deferred(draft[s], next'), r) # {} THEN SaversOf(r) \cup {s} ELSE SaversOf(r)
    BY <1>3, <1>5 DEF SaversOf, SaverOK
  <2>3. Checks(Deferred(draft[s], next'), r) # {} <=> r = next' /\ "check" \in draft[s].defer
    BY DeferredChecks DEF Checks, About
  <2>4. CASE r = next' /\ "check" \in draft[s].defer
    <3>1. Nowhere(r) /\ r \in owed'
      BY <1>5, <2>1, <2>4 DEF Kept
    <3>2. SaversOf(r)' = {s} /\ Checks(queue', r) = {} /\ WorkersOf(r)' = {}
      BY <1>2, <2>2, <2>3, <2>4, <3>1 DEF Nowhere
    <3> QED BY <3>1, <3>2 DEF Kept, InOnePlace
  <2>5. CASE ~(r = next' /\ "check" \in draft[s].defer)
    <3>1. SaversOf(r)' = SaversOf(r) /\ (r \in owed' <=> r \in owed)
      BY <1>5, <2>2, <2>3, <2>5
    <3> QED BY <1>2, <3>1 DEF Kept, InOnePlace, Nowhere
  <2> QED BY <2>4, <2>5
<1> QED BY <1>4, <1>5 DEF Commit

(* The steps of a save keep the order of what it submits.                   *)
LEMMA SaveFirst ==
  ASSUME Inv, ChecksFirst, NEW s \in Savers, Save(s)
  PROVE  ChecksFirst'
<1> USE DEF Inv
<1>1. next \in Nat /\ owed \subseteq 1 .. next
  BY DEF TableOK, ChecksFirst
<1>2. CASE Search(s) \/ Lookup(s)
  <2>1. UNCHANGED <<next, todo, owed, later>>
    BY <1>2 DEF Search, Lookup, table, queueVars
  <2>2. draft[s].at \in {"search", "lookup"} /\ \A z \in Savers \ {s} : draft'[z] = draft[z]
    BY <1>2 DEF Search, Lookup, SaverOK
  <2>3. \A z \in Savers : draft'[z].at # "submit" => todo[z] = <<>>
    BY <2>2 DEF ChecksFirst
  <2> QED BY <2>1, <2>3 DEF ChecksFirst
<1>3. CASE Commit(s)
  <2>1. later' = later /\ todo[s] = <<>>
    BY <1>3 DEF Commit, queueVars, ChecksFirst
  <2>2. CASE draft' = [draft EXCEPT ![s] = At("done")] /\ UNCHANGED <<table, todo, owed>>
    <3>1. \A z \in Savers : draft'[z].at # "submit" => todo[z] = <<>>
      BY <2>1, <2>2 DEF ChecksFirst, SaverOK
    <3> QED BY <2>1, <2>2, <3>1 DEF ChecksFirst, table
  <2>3. CASE Insert(draft[s].out) /\ todo' = [todo EXCEPT ![s] = Deferred(draft[s], next')]
             /\ draft' = [draft EXCEPT ![s] = At("submit")]
             /\ owed' = owed \cup (IF "check" \in draft[s].defer THEN {next'} ELSE {})
    <3>0. next' = next + 1 /\ next' \in 1 .. next'
      BY <1>1, <2>3 DEF Insert
    <3>1. next' = next + 1 /\ owed' \subseteq 1 .. next'
      <4>1. 1 .. next \subseteq 1 .. next'
        BY <1>1, <3>0
      <4>2. owed' \subseteq owed \cup {next'}
        BY <2>3
      <4> QED BY <1>1, <3>0, <4>1, <4>2
    <3>2. \A i \in DOMAIN Deferred(draft[s], next') : Deferred(draft[s], next')[i].task = "check" =>
             i = 1 /\ Deferred(draft[s], next')[i].priority = "normal"
      BY DeferredChecks
    <3>3. \A z \in Savers : draft'[z].at # "submit" => todo'[z] = <<>>
      BY <2>3 DEF ChecksFirst, SaverOK, At
    <3>4. \A z \in Savers : \A i \in DOMAIN todo'[z] : todo'[z][i].task = "check" =>
             i = 1 /\ todo'[z][i].priority = "normal"
      BY <2>3, <3>2 DEF ChecksFirst, SaverOK
    <3> QED BY <2>1, <3>1, <3>3, <3>4 DEF ChecksFirst
  <2> QED BY <1>3, <2>2, <2>3 DEF Commit
<1>4. CASE Submit(s)
  <2> DEFINE item == Head(todo[s])
  <2>1. /\ todo[s] \in Seq(Items) /\ todo[s] # <<>> /\ item \in Items /\ item = todo[s][1]
        /\ 1 \in DOMAIN todo[s] /\ (Len(todo[s]) = 1 => Tail(todo[s]) = <<>>)
    BY <1>4 DEF Submit, SaverOK
  <2>2. /\ todo' = [todo EXCEPT ![s] = Tail(todo[s])]
        /\ draft' = IF Len(todo[s]) = 1 THEN [draft EXCEPT ![s] = At("done")] ELSE draft
        /\ QueueWork(item) /\ next' = next /\ owed' \subseteq owed
    BY <1>4 DEF Submit, CompleteWithError, table
  <2>3. \A i \in DOMAIN Tail(todo[s]) : Tail(todo[s])[i].task # "check"
    <3>1. \A i \in DOMAIN Tail(todo[s]) : i + 1 \in DOMAIN todo[s] /\ i + 1 # 1
                                          /\ Tail(todo[s])[i] = todo[s][i + 1]
      BY <2>1
    <3> QED BY <3>1 DEF ChecksFirst
  <2>4. item.task = "check" => item.priority = "normal"
    BY <2>1 DEF ChecksFirst
  <2> HIDE DEF item
  <2>5. \A i \in later' : i.task # "check"
    <3>1. CASE Pressed(item)
      <4>1. [item EXCEPT !.priority = "normal"].task # "check"
        BY <2>1, <2>4, <3>1 DEF Pressed, Items
      <4> QED BY <2>2, <4>1 DEF QueueWork, ChecksFirst
    <3>2. CASE ~Pressed(item)
      BY <2>2, <3>2 DEF QueueWork, ChecksFirst
    <3> QED BY <3>1, <3>2
  <2>6. \A z \in Savers : draft'[z].at # "submit" => todo'[z] = <<>>
    <3>1. CASE Len(todo[s]) = 1
      BY <2>1, <2>2, <3>1 DEF ChecksFirst, SaverOK
    <3>2. CASE Len(todo[s]) # 1
      BY <1>4, <2>2, <3>2 DEF ChecksFirst, SaverOK, Submit
    <3> QED BY <3>1, <3>2
  <2>7. \A z \in Savers : \A i \in DOMAIN todo'[z] : todo'[z][i].task = "check" =>
           i = 1 /\ todo'[z][i].priority = "normal"
    BY <2>2, <2>3 DEF ChecksFirst, SaverOK
  <2> QED BY <1>1, <2>2, <2>5, <2>6, <2>7 DEF ChecksFirst
<1> QED BY <1>2, <1>3, <1>4 DEF Save

(* A step that submits nothing.                                             *)
LEMMA OtherFirst ==
  ASSUME ChecksFirst, UNCHANGED <<draft, todo>>, next \in Nat, next' \in Nat, next' >= next,
         owed' \subseteq owed, later' \subseteq later
  PROVE  ChecksFirst'
<1>1. owed' \subseteq 1 .. next'
  BY DEF ChecksFirst
<1> QED BY <1>1 DEF ChecksFirst

(* A step of the queue.                                                     *)
LEMMA QueueKept ==
  ASSUME Inv, KInv, QueueStep
  PROVE  KInv'
<1> USE DEF Inv
<1>1. ASSUME NEW w \in Workers, Work(w) PROVE KInv'
  <2>1. todo' = todo /\ draft' = draft
    BY DEF QueueStep
  <2>2. later' = later /\ owed' \subseteq owed /\ next' = next /\ \A r \in Ids : Kept(r)'
    <3>1. CASE (Take(w) \/ Fail(w) \/ Retry(w)) /\ UNCHANGED <<table, graders, owed>>
      BY <2>1, <3>1, TakeKept, FailKept, RetryKept DEF KInv, table, Take, Fail, Retry
    <3>2. CASE Succeeds(w) /\ Complete(held[w]) /\ Finish(w)
      <4>1. held[w] # Nothing
        BY <3>2 DEF Succeeds, Executes
      <4>2. /\ owed' = (IF held[w].task = "check" THEN owed \ {held[w].row} ELSE owed)
            /\ next' = next
        BY <3>2 DEF Complete, Grade, Delete, table
      <4> QED BY <2>1, <3>2, <4>1, <4>2, FinishKept DEF KInv, Finish
    <3>3. CASE GivesUp(w) /\ CompleteWithError(held[w]) /\ Finish(w)
      <4>1. held[w] # Nothing
        BY <3>3 DEF GivesUp, Executes, QueueOK
      <4> QED BY <2>1, <3>3, <4>1, FinishKept DEF KInv, Finish, CompleteWithError, table
    <3> QED BY <1>1, <3>1, <3>2, <3>3 DEF Work
  <2> QED BY <2>1, <2>2, OtherFirst DEF KInv, TableOK
<1>2. CASE Wake
  <2>1. PICK item \in later :
          Requeue(item) /\ (CompleteWithError(item) \/ UNCHANGED <<owed, next>>)
    BY <1>2 DEF Wake, table
  <2>2. item.task # "check" /\ todo' = todo /\ draft' = draft
    BY DEF KInv, ChecksFirst, QueueStep
  <2>3. owed' = owed /\ next' = next
    BY <2>1, <2>2 DEF CompleteWithError, table
  <2>4. \A r \in Ids : Kept(r)'
    BY <2>1, <2>2, <2>3, WakeKept DEF KInv
  <2>5. later' \subseteq later
    BY <2>1 DEF Requeue
  <2> QED BY <2>2, <2>3, <2>4, <2>5, OtherFirst DEF KInv, TableOK
<1> QED BY <1>1, <1>2 DEF QueueStep

\* Every step leaves each check in the one place where it is, or moves it on.
LEMMA NextKept == Inv /\ KInv /\ [Next]_vars => KInv'
<1> SUFFICES ASSUME Inv, KInv, [Next]_vars PROVE KInv'
  OBVIOUS
<1>0. next \in Nat
  BY DEF Inv, TableOK
<1>1. ASSUME NEW s \in Savers, Save(s) PROVE KInv'
  <2>1. CASE Search(s) \/ Lookup(s)
    <3>1. UNCHANGED <<todo, queue, held, owed>>
      BY <2>1 DEF Search, Lookup, queueVars
    <3> QED BY <1>1, <3>1, SameKept, SaveFirst DEF KInv
  <2>2. CASE Commit(s) \/ Submit(s)
    BY <1>0, <1>1, <2>2, CommitKept, SubmitKept, SaveFirst DEF KInv, Inv
  <2> QED BY <1>1, <2>1, <2>2 DEF Save
<1>2. CASE QueueStep
  BY <1>2, QueueKept
<1>3. ASSUME UNCHANGED <<draft, todo, owed, queueVars>>,
             UNCHANGED next \/ next' = next + 1
      PROVE  KInv'
  BY <1>0, <1>3, SameKept, OtherFirst DEF KInv, queueVars
<1>4. CASE Write \/ \E c \in Consolidators : Merge(c)
  BY <1>3, <1>4 DEF Write, Merge, Insert, readers
<1>5. CASE \E f \in Forgetters : Archive(f)
  BY <1>3, <1>5 DEF Archive, Insert, table
<1>6. CASE \E r \in Ids : GradeDirectly(r)
  BY <1>3, <1>6 DEF GradeDirectly, Grade, Delete, table
<1>7. CASE \/ \E c \in Consolidators : Consolidate(c) \/ EndRound(c)
           \/ \E f \in Forgetters : ReadTopic(f)
  BY <1>3, <1>7 DEF Consolidate, EndRound, ReadTopic, table
<1>8. CASE UNCHANGED vars
  BY <1>3, <1>8 DEF vars, table
<1> QED BY <1>1, <1>2, <1>4, <1>5, <1>6, <1>7, <1>8 DEF Next

\* At the start no check is owed.
LEMMA InitKept == Init => KInv
<1> SUFFICES ASSUME Init PROVE KInv
  OBVIOUS
<1>1. queue = <<>> /\ owed = {} /\ later = {} /\ next = 0
      /\ held = [w \in Workers |-> Nothing] /\ todo = [s \in Savers |-> <<>>]
  BY DEF Init, QueueInit
<1>2. ChecksFirst
  BY <1>1 DEF ChecksFirst
<1>3. ASSUME NEW r PROVE Nowhere(r)
  <2>1. Checks(<<>>, r) = {}
    BY DEF Checks
  <2>2. SaversOf(r) = {} /\ Checks(queue, r) = {}
    BY <1>1, <2>1 DEF SaversOf
  <2>3. WorkersOf(r) = {}
    BY <1>1 DEF WorkersOf, About, Nothing
  <2> QED BY <2>2, <2>3 DEF Nowhere
<1> QED BY <1>1, <1>2, <1>3 DEF KInv, Kept

(* However full the queue is, whatever fails and whatever is put off: a     *)
(* deferred check is in exactly one place until its OnComplete has run, and *)
(* that happens once (workqueue.go:89-105).                                 *)
THEOREM ChecksNeverLost == Spec => []ChecksKept
<1>1. KInv => ChecksKept
  <2> SUFFICES ASSUME KInv, NEW r \in Ids
               PROVE  ChecksIn(r) = IF r \in owed THEN 1 ELSE 0
    BY DEF ChecksKept
  <2>1. ChecksIn(r) = Cardinality(SaversOf(r)) + Cardinality(Checks(queue, r)) + Cardinality(WorkersOf(r))
    <3>1. SaversOf(r) = {s \in Savers : \E i \in DOMAIN todo[s] : todo[s][i].task = "check" /\ todo[s][i].row = r}
      BY DEF SaversOf, Checks, About
    <3> QED BY <3>1 DEF ChecksIn, Checks, About, WorkersOf
  <2>2. Cardinality({}) = 0 /\ \A x : Cardinality({x}) = 1
    BY FS_EmptySet, FS_Singleton
  <2>3. CASE r \in owed
    <3>1. InOnePlace(r)
      BY <2>3 DEF KInv, Kept
    <3>2. /\ Cardinality(SaversOf(r)) \in {0, 1} /\ Cardinality(Checks(queue, r)) \in {0, 1}
          /\ Cardinality(WorkersOf(r)) \in {0, 1}
          /\ \/ Cardinality(SaversOf(r)) = 1 /\ Cardinality(Checks(queue, r)) = 0
                /\ Cardinality(WorkersOf(r)) = 0
             \/ Cardinality(SaversOf(r)) = 0 /\ Cardinality(Checks(queue, r)) = 1
                /\ Cardinality(WorkersOf(r)) = 0
             \/ Cardinality(SaversOf(r)) = 0 /\ Cardinality(Checks(queue, r)) = 0
                /\ Cardinality(WorkersOf(r)) = 1
      <4>1. CASE \E s : SaversOf(r) = {s} /\ Checks(queue, r) = {} /\ WorkersOf(r) = {}
        BY <2>2, <4>1
      <4>2. CASE \E i : SaversOf(r) = {} /\ Checks(queue, r) = {i} /\ WorkersOf(r) = {}
        BY <2>2, <4>2
      <4>3. CASE \E w : SaversOf(r) = {} /\ Checks(queue, r) = {} /\ WorkersOf(r) = {w}
        BY <2>2, <4>3
      <4> QED BY <3>1, <4>1, <4>2, <4>3 DEF InOnePlace
    <3> QED BY <2>1, <2>3, <3>2
  <2>4. CASE r \notin owed
    <3>1. Nowhere(r)
      BY <2>4 DEF KInv, Kept
    <3> QED BY <2>1, <2>2, <2>4, <3>1 DEF Nowhere
  <2> QED BY <2>3, <2>4
<1> QED BY <1>1, Inductive, InitKept, NextKept, PTL DEF Spec
=============================================================================
