----------------------------- MODULE SemOpsProofs -----------------------------
(***************************************************************************)
(* Lemmas about the operations of SemOps, for any set of callers: what     *)
(* they do to the queues, and how they keep the books of who owns a slot.  *)
(***************************************************************************)
EXTENDS SemOps, TLAPS, FiniteSetTheorems, SequenceTheorems

\* Taking the head off a queue without repetitions removes that waiter and no
\* other (dispatch, ReleaseReserved: s.high = s.high[1:]).
LEMMA TailOfQueue ==
    ASSUME NEW S, NEW q \in Seq(S), q # <<>>, IsInjective(q)
    PROVE  /\ Tail(q) \in Seq(S)
           /\ Head(q) \in S /\ Contains(q, Head(q))
           /\ IsInjective(Tail(q))
           /\ \A x : Contains(Tail(q), x) <=> Contains(q, x) /\ x # Head(q)
BY DEF IsInjective, Contains

\* Appending a caller that is not queued keeps a queue free of repetitions
\* (the slow path of Acquire).
LEMMA AppendToQueue ==
    ASSUME NEW S, NEW q \in Seq(S), NEW c \in S, ~Contains(q, c), IsInjective(q)
    PROVE  /\ Append(q, c) \in Seq(S)
           /\ IsInjective(Append(q, c))
           /\ \A x : Contains(Append(q, c), x) <=> Contains(q, x) \/ x = c
BY DEF IsInjective, Contains

\* removeWaiterCh takes out that waiter and no other.
LEMMA RemoveFromQueue ==
    ASSUME NEW S, NEW q \in Seq(S), NEW c, Contains(q, c), IsInjective(q)
    PROVE  /\ RemoveFirst(q, c) \in Seq(S)
           /\ IsInjective(RemoveFirst(q, c))
           /\ \A x : Contains(RemoveFirst(q, c), x) <=> Contains(q, x) /\ x # c
<1>1. PICK k \in 1..Len(q) : q[k] = c
  BY DEF Contains
<1>2. {i \in 1..Len(q) : q[i] = c} = {k}
  BY <1>1 DEF IsInjective
<1>3. Min({k}) = k
  BY <1>1 DEF Min
<1>4. RemoveFirst(q, c) = RemoveAt(q, k)
  BY <1>1, <1>2, <1>3 DEF RemoveFirst, SelectInSeq
<1>. DEFINE r == RemoveAt(q, k)
<1>5. /\ r \in Seq(S)
      /\ Len(r) = Len(q) - 1
      /\ \A j \in 1..(Len(q) - 1) : r[j] = IF j < k THEN q[j] ELSE q[j + 1]
  <2>1. Len(q) \in Nat /\ \A j \in 1..Len(q) : q[j] \in S
    BY LenProperties, ElementOfSeq
  <2>. DEFINE u == SubSeq(q, 1, k - 1)
              v == SubSeq(q, k + 1, Len(q))
  <2>2. /\ u \in Seq(S) /\ Len(u) = k - 1
        /\ \A j \in 1..(k - 1) : u[j] = q[j]
    <3>1. \A j \in 1..(k - 1) : q[j] \in S
      BY <2>1
    <3>2. 1 \in Int /\ k - 1 \in Int
      BY <2>1
    <3>3. /\ u \in Seq(S)
          /\ Len(u) = IF 1 <= k - 1 THEN k - 1 - 1 + 1 ELSE 0
          /\ \A i \in 1..(k - 1 - 1 + 1) : u[i] = q[1 + i - 1]
      BY <3>1, <3>2, SubSeqProperties
    <3>. QED  BY <2>1, <3>3
  <2>3. /\ v \in Seq(S) /\ Len(v) = Len(q) - k
        /\ \A j \in 1..(Len(q) - k) : v[j] = q[k + j]
    <3>1. \A j \in (k + 1)..Len(q) : q[j] \in S
      BY <2>1
    <3>2. k + 1 \in Int /\ Len(q) \in Int
      BY <2>1
    <3>3. /\ v \in Seq(S)
          /\ Len(v) = IF k + 1 <= Len(q) THEN Len(q) - (k + 1) + 1 ELSE 0
          /\ \A i \in 1..(Len(q) - (k + 1) + 1) : v[i] = q[k + 1 + i - 1]
      BY <3>1, <3>2, SubSeqProperties
    <3>. QED  BY <2>1, <3>3
  <2>4. r = u \o v
    BY DEF RemoveAt
  <2>. HIDE DEF u, v, r
  <2>5. /\ u \o v \in Seq(S)
        /\ Len(u \o v) = Len(u) + Len(v)
        /\ \A i \in 1..(Len(u) + Len(v)) :
              (u \o v)[i] = IF i <= Len(u) THEN u[i] ELSE v[i - Len(u)]
    BY <2>2, <2>3, ConcatProperties
  <2>. QED
    BY <2>1, <2>2, <2>3, <2>4, <2>5
<1>6. DOMAIN q = 1..Len(q) /\ DOMAIN r = 1..Len(r) /\ Len(q) \in Nat
  BY <1>5, LenProperties
<1>. HIDE DEF r
<1>7. IsInjective(r)
  BY <1>5, <1>6 DEF IsInjective
<1>8. ASSUME NEW x
      PROVE  Contains(r, x) <=> Contains(q, x) /\ x # c
  <2>1. Contains(r, x) => Contains(q, x) /\ x # c
    BY <1>1, <1>5, <1>6 DEF Contains, IsInjective
  <2>2. ASSUME NEW i \in 1..Len(q), q[i] = x, x # c
        PROVE  Contains(r, x)
    <3>1. CASE i < k
      BY <2>2, <3>1, <1>5, <1>6, r[i] = x DEF Contains
    <3>2. CASE i > k
      <4>1. i - 1 \in 1..Len(r) /\ r[i - 1] = x
        BY <2>2, <3>2, <1>5, <1>6
      <4>. QED  BY <4>1 DEF Contains
    <3>. QED  BY <1>1, <2>2, <3>1, <3>2, <1>6
  <2>. QED  BY <2>1, <2>2 DEF Contains
<1>. QED
  BY <1>4, <1>5, <1>7, <1>8 DEF r
-----------------------------------------------------------------------------
\* A semaphore as the operations keep it.
SemOK(S, s) ==
    /\ s \in Semaphores(S)
    /\ IsInjective(s.high) /\ IsInjective(s.low)
    /\ \A x : ~(Contains(s.high, x) /\ Contains(s.low, x))

\* From s to t nobody new is queued, and no queue changes class.
Narrows(s, t) ==
    \A x : /\ Contains(t.high, x) => Contains(s.high, x)
           /\ Contains(t.low, x) => Contains(s.low, x)

\* A slot came back: it is free in t, or one waiter of s got it.
Frees(s, t) ==
    /\ t.avail + t.reserved = s.avail + s.reserved + 1
    /\ \A x : Queued(t, x) <=> Queued(s, x)
Hands(S, s, t) ==
    /\ t.avail + t.reserved = s.avail + s.reserved
    /\ \E w \in S :
          Queued(s, w) /\ \A x : Queued(t, x) <=> Queued(s, x) /\ x # w
Gives(S, s, t) == SemOK(S, t) /\ Narrows(s, t) /\ (Frees(s, t) \/ Hands(S, s, t))

\* Waking the head of the high queue hands the slot to that user.
LEMMA WakeHigh ==
    ASSUME NEW S, NEW s, SemOK(S, s), s.high # <<>>
    PROVE  Gives(S, s, [s EXCEPT !.high = Tail(@)])
<1>. DEFINE t == [s EXCEPT !.high = Tail(@)]
<1>1. /\ t.high = Tail(s.high) /\ t.low = s.low
      /\ t.avail = s.avail /\ t.reserved = s.reserved
      /\ s.high \in Seq(S) /\ s.low \in Seq(S)
      /\ s.avail \in Nat /\ s.reserved \in Nat
  BY DEF SemOK, Semaphores
<1>2. /\ Tail(s.high) \in Seq(S)
      /\ Head(s.high) \in S /\ Contains(s.high, Head(s.high))
      /\ IsInjective(Tail(s.high))
      /\ \A x : Contains(Tail(s.high), x) <=> Contains(s.high, x) /\ x # Head(s.high)
  BY <1>1, TailOfQueue DEF SemOK
<1>3. t \in Semaphores(S)
  BY <1>2 DEF SemOK, Semaphores
<1>. HIDE DEF t
<1>4. SemOK(S, t) /\ Narrows(s, t)
  BY <1>1, <1>2, <1>3 DEF SemOK, Narrows
<1>5. \A x : Queued(t, x) <=> Queued(s, x) /\ x # Head(s.high)
  BY <1>1, <1>2 DEF SemOK, Queued
<1>6. Hands(S, s, t)
  BY <1>1, <1>2, <1>5 DEF Hands, Queued
<1>. QED  BY <1>4, <1>6 DEF Gives, t

\* Waking the head of the low queue hands the slot to that background caller.
LEMMA WakeLow ==
    ASSUME NEW S, NEW s, SemOK(S, s), s.low # <<>>
    PROVE  Gives(S, s, [s EXCEPT !.low = Tail(@)])
<1>. DEFINE t == [s EXCEPT !.low = Tail(@)]
<1>1. /\ t.low = Tail(s.low) /\ t.high = s.high
      /\ t.avail = s.avail /\ t.reserved = s.reserved
      /\ s.high \in Seq(S) /\ s.low \in Seq(S)
      /\ s.avail \in Nat /\ s.reserved \in Nat
  BY DEF SemOK, Semaphores
<1>2. /\ Tail(s.low) \in Seq(S)
      /\ Head(s.low) \in S /\ Contains(s.low, Head(s.low))
      /\ IsInjective(Tail(s.low))
      /\ \A x : Contains(Tail(s.low), x) <=> Contains(s.low, x) /\ x # Head(s.low)
  BY <1>1, TailOfQueue DEF SemOK
<1>3. t \in Semaphores(S)
  BY <1>2 DEF SemOK, Semaphores
<1>. HIDE DEF t
<1>4. SemOK(S, t) /\ Narrows(s, t)
  BY <1>1, <1>2, <1>3 DEF SemOK, Narrows
<1>5. \A x : Queued(t, x) <=> Queued(s, x) /\ x # Head(s.low)
  BY <1>1, <1>2 DEF SemOK, Queued
<1>6. Hands(S, s, t)
  BY <1>1, <1>2, <1>5 DEF Hands, Queued
<1>. QED  BY <1>4, <1>6 DEF Gives, t

\* Release returns exactly one slot.
LEMMA ReleaseGives ==
    ASSUME NEW S, NEW s, SemOK(S, s)
    PROVE  Gives(S, s, Release(s))
<1>1. CASE s.high # <<>>
  BY <1>1, WakeHigh DEF Release, Dispatch
<1>2. CASE s.high = <<>> /\ s.low # <<>>
  BY <1>2, WakeLow DEF Release, Dispatch
<1>3. CASE s.high = <<>> /\ s.low = <<>>
  <2>. DEFINE t == [s EXCEPT !.avail = @ + 1]
  <2>1. /\ t \in Semaphores(S) /\ t.high = s.high /\ t.low = s.low
        /\ t.avail = s.avail + 1 /\ t.reserved = s.reserved
        /\ s.avail \in Nat /\ s.reserved \in Nat
    BY DEF SemOK, Semaphores
  <2>. HIDE DEF t
  <2>2. Gives(S, s, t)
    BY <2>1 DEF SemOK, Gives, Narrows, Frees, Queued
  <2>. QED  BY <1>3, <2>2 DEF Release, Dispatch, t
<1>. QED  BY <1>1, <1>2, <1>3

\* ReleaseReserved returns exactly one slot too.
LEMMA ReleaseReservedGives ==
    ASSUME NEW S, NEW s, SemOK(S, s)
    PROVE  Gives(S, s, ReleaseReserved(s))
<1>1. CASE s.high # <<>>
  BY <1>1, WakeHigh DEF ReleaseReserved
<1>2. CASE s.high = <<>>
  <2>. DEFINE t == [s EXCEPT !.reserved = @ + 1]
  <2>1. /\ t \in Semaphores(S) /\ t.high = s.high /\ t.low = s.low
        /\ t.avail = s.avail /\ t.reserved = s.reserved + 1
        /\ s.avail \in Nat /\ s.reserved \in Nat
    BY DEF SemOK, Semaphores
  <2>. HIDE DEF t
  <2>2. Gives(S, s, t)
    BY <2>1 DEF SemOK, Gives, Narrows, Frees, Queued
  <2>. QED  BY <1>2, <2>2 DEF ReleaseReserved, t
<1>. QED  BY <1>1, <1>2

\* CancelReservation of an outstanding reservation turns it into an available
\* slot and then returns one more: it gives a slot nobody held.
LEMMA CancelReservationGives ==
    ASSUME NEW S, NEW s, SemOK(S, s), s.reserved > 0
    PROVE  Gives(S, s, CancelReservation(s))
<1>. DEFINE r == [s EXCEPT !.reserved = @ - 1, !.avail = @ + 1]
<1>0. /\ s.avail \in Nat /\ s.reserved \in Nat
      /\ s.avail + 1 \in Nat /\ s.reserved - 1 \in Nat
  <2>1. s.avail \in Nat /\ s.reserved \in Nat
    BY DEF SemOK, Semaphores
  <2>. QED  BY <2>1
<1>1. /\ r \in Semaphores(S) /\ r.high = s.high /\ r.low = s.low
      /\ r.avail = s.avail + 1 /\ r.reserved = s.reserved - 1
      /\ s.avail \in Nat /\ s.reserved \in Nat
  BY <1>0 DEF SemOK, Semaphores
<1>2. CancelReservation(s) = Release(r)
  BY <1>1 DEF CancelReservation, Release
<1>. HIDE DEF r
<1>3. SemOK(S, r)
  BY <1>1 DEF SemOK
<1>4. Gives(S, r, Release(r))
  BY <1>3, ReleaseGives
<1>. HIDE DEF Release
<1>5. Gives(S, s, Release(r))
  BY <1>1, <1>4 DEF Gives, Narrows, Frees, Hands, Queued
<1>. QED  BY <1>2, <1>5

\* A waiter left its queue and nothing else changed.
Departs(S, s, c, t) ==
    /\ t \in Semaphores(S) /\ t.avail = s.avail /\ t.reserved = s.reserved
    /\ IsInjective(t.high) /\ IsInjective(t.low)
    /\ \A x : Contains(t.high, x) <=> Contains(s.high, x) /\ x # c
    /\ \A x : Contains(t.low, x) <=> Contains(s.low, x) /\ x # c

\* removeWaiterCh on the queue the waiter is in.
LEMMA RemoveWaiterDeparts ==
    ASSUME NEW S, NEW s, SemOK(S, s), NEW c, NEW user,
           user => Contains(s.high, c), ~user => Contains(s.low, c)
    PROVE  Departs(S, s, c, RemoveWaiter(s, c, user))
<1>. DEFINE t == RemoveWaiter(s, c, user)
<1>1. /\ s \in Semaphores(S) /\ s.high \in Seq(S) /\ s.low \in Seq(S)
      /\ IsInjective(s.high) /\ IsInjective(s.low)
  BY DEF SemOK, Semaphores
<1>2. CASE user
  <2>1. Contains(s.high, c) /\ ~Contains(s.low, c)
    BY <1>2 DEF SemOK
  <2>2. /\ RemoveFirst(s.high, c) \in Seq(S) /\ IsInjective(RemoveFirst(s.high, c))
        /\ \A x : Contains(RemoveFirst(s.high, c), x) <=> Contains(s.high, x) /\ x # c
    BY <1>1, <2>1, RemoveFromQueue
  <2>3. t = [s EXCEPT !.high = RemoveFirst(@, c)]
    BY <1>2 DEF RemoveWaiter
  <2>. QED  BY <1>1, <2>1, <2>2, <2>3 DEF Semaphores, Departs
<1>3. CASE ~user
  <2>1. Contains(s.low, c) /\ ~Contains(s.high, c)
    BY <1>3 DEF SemOK
  <2>2. /\ RemoveFirst(s.low, c) \in Seq(S) /\ IsInjective(RemoveFirst(s.low, c))
        /\ \A x : Contains(RemoveFirst(s.low, c), x) <=> Contains(s.low, x) /\ x # c
    BY <1>1, <2>1, RemoveFromQueue
  <2>3. t = [s EXCEPT !.low = RemoveFirst(@, c)]
    BY <1>3 DEF RemoveWaiter
  <2>. QED  BY <1>1, <2>1, <2>2, <2>3 DEF Semaphores, Departs
<1>. QED  BY <1>2, <1>3

\* Only ReleaseReserved parks a slot.
Sparing(s, t) == t.reserved \in Nat /\ t.reserved <= s.reserved

\* No operation but ReleaseReserved adds a reservation.
LEMMA OperationsSpare ==
    ASSUME NEW S, NEW s \in Semaphores(S), NEW c, NEW user
    PROVE  /\ Sparing(s, s)
           /\ Sparing(s, Take(s, user)) /\ Sparing(s, Enqueue(s, c, user))
           /\ Sparing(s, Release(s)) /\ Sparing(s, RemoveWaiter(s, c, user))
           /\ Sparing(s, CancelReservation(s))
<1>. USE DEF Semaphores, Sparing
<1>1. s.reserved \in Nat
  OBVIOUS
<1>2. Sparing(s, Take(s, user))
  BY DEF Take
<1>3. Sparing(s, Enqueue(s, c, user))
  BY DEF Enqueue
<1>4. Sparing(s, Release(s))
  BY DEF Release, Dispatch
<1>5. Sparing(s, RemoveWaiter(s, c, user))
  BY DEF RemoveWaiter
<1>6. Sparing(s, CancelReservation(s))
  BY DEF CancelReservation, Dispatch
<1>. QED  BY <1>1, <1>2, <1>3, <1>4, <1>5, <1>6
-----------------------------------------------------------------------------
(***************************************************************************)
(* The books of a semaphore s with n slots: the callers in H hold a slot,  *)
(* those in U and L are in Acquire, as users and as background work.  Only *)
(* they are queued, and a caller in Acquire that is not queued any more    *)
(* has been served.                                                        *)
(***************************************************************************)
Served(s, H, W) == H \cup {w \in W : ~Queued(s, w)}

Books(S, s, H, U, L, n) ==
    /\ s \in Semaphores(S) /\ IsInjective(s.high) /\ IsInjective(s.low)
    /\ IsFiniteSet(H) /\ IsFiniteSet(U) /\ IsFiniteSet(L)
    /\ H \cap (U \cup L) = {} /\ U \cap L = {}
    /\ \A x : (Contains(s.high, x) => x \in U) /\ (Contains(s.low, x) => x \in L)
    /\ n \in Int
    /\ s.avail + s.reserved + Cardinality(Served(s, H, U \cup L)) = n

\* Served callers can be counted, and all sums of the books are numbers.
LEMMA ServedFinite ==
    ASSUME NEW S, NEW s, NEW H, NEW U, NEW L, NEW n, Books(S, s, H, U, L, n)
    PROVE  /\ IsFiniteSet(Served(s, H, U \cup L))
           /\ Cardinality(Served(s, H, U \cup L)) \in Nat
           /\ s.avail \in Nat /\ s.reserved \in Nat /\ n \in Int
<1>1. IsFiniteSet(U \cup L)
  BY FS_Union DEF Books
<1>2. IsFiniteSet({w \in U \cup L : ~Queued(s, w)})
  BY <1>1, FS_Subset, {w \in U \cup L : ~Queued(s, w)} \subseteq U \cup L
<1>3. IsFiniteSet(Served(s, H, U \cup L))
  BY <1>2, FS_Union DEF Books, Served
<1>. QED  BY <1>3, FS_CardinalityType DEF Books, Semaphores

\* An admitted caller takes one of the free slots (Acquire's fast path).
LEMMA BooksTake ==
    ASSUME NEW S, NEW s, NEW H, NEW U, NEW L, NEW n, Books(S, s, H, U, L, n),
           NEW c, c \notin H \cup U \cup L, NEW user \in BOOLEAN, Admits(s, user)
    PROVE  Books(S, Take(s, user), H \cup {c}, U, L, n)
<1>. DEFINE t == Take(s, user)
<1>1. s \in Semaphores(S) /\ s.avail \in Nat /\ s.reserved \in Nat
  BY DEF Books, Semaphores
<1>2. /\ t \in Semaphores(S) /\ t.high = s.high /\ t.low = s.low
      /\ t.avail + t.reserved = s.avail + s.reserved - 1
      /\ t.avail \in Nat /\ t.reserved \in Nat
  <2>1. CASE user /\ s.reserved > 0
    <3>1. s.reserved - 1 \in Nat
      BY <1>1, <2>1
    <3>. QED  BY <1>1, <2>1, <3>1 DEF Take, Semaphores
  <2>2. CASE ~(user /\ s.reserved > 0)
    <3>1. s.avail - 1 \in Nat
      BY <1>1, <2>2 DEF Admits
    <3>. QED  BY <1>1, <2>2, <3>1 DEF Take, Semaphores
  <2>. QED  BY <2>1, <2>2
<1>. HIDE DEF t
<1>3. Served(t, H \cup {c}, U \cup L) = Served(s, H, U \cup L) \cup {c}
  BY <1>2 DEF Served, Queued
<1>4. c \notin Served(s, H, U \cup L)
  BY DEF Served
<1>5. Cardinality(Served(t, H \cup {c}, U \cup L)) = Cardinality(Served(s, H, U \cup L)) + 1
  BY <1>3, <1>4, ServedFinite, FS_AddElement
<1>6. IsFiniteSet(H \cup {c})
  BY FS_AddElement DEF Books
<1>7. t.avail + t.reserved + Cardinality(Served(t, H \cup {c}, U \cup L)) = n
  BY <1>1, <1>2, <1>5, ServedFinite DEF Books
<1>8. Books(S, t, H \cup {c}, U, L, n)
  BY <1>2, <1>6, <1>7 DEF Books
<1>. QED  BY <1>8 DEF t

\* The slow path of Acquire: the caller joins the queue of its priority.
LEMMA BooksJoinUser ==
    ASSUME NEW S, NEW s, NEW H, NEW U, NEW L, NEW n, Books(S, s, H, U, L, n),
           NEW c \in S, c \notin H \cup U \cup L
    PROVE  Books(S, Enqueue(s, c, TRUE), H, U \cup {c}, L, n)
<1>. DEFINE t == Enqueue(s, c, TRUE)
<1>1. /\ s \in Semaphores(S) /\ s.high \in Seq(S) /\ ~Contains(s.high, c)
      /\ IsInjective(s.high) /\ ~Contains(s.low, c)
  BY DEF Books, Semaphores
<1>2. /\ Append(s.high, c) \in Seq(S) /\ IsInjective(Append(s.high, c))
      /\ \A x : Contains(Append(s.high, c), x) <=> Contains(s.high, x) \/ x = c
  BY <1>1, AppendToQueue
<1>3. /\ t \in Semaphores(S) /\ t.high = Append(s.high, c) /\ t.low = s.low
      /\ t.avail = s.avail /\ t.reserved = s.reserved
  BY <1>1, <1>2 DEF Enqueue, Semaphores
<1>. HIDE DEF t
<1>4. Served(t, H, (U \cup {c}) \cup L) = Served(s, H, U \cup L)
  BY <1>2, <1>3 DEF Served, Queued
<1>5. IsFiniteSet(U \cup {c})
  BY FS_AddElement DEF Books
<1>6. Books(S, t, H, U \cup {c}, L, n)
  BY <1>2, <1>3, <1>4, <1>5 DEF Books
<1>. QED  BY <1>6 DEF t

\* A background caller that queues up is not served yet.
LEMMA BooksJoinBackground ==
    ASSUME NEW S, NEW s, NEW H, NEW U, NEW L, NEW n, Books(S, s, H, U, L, n),
           NEW c \in S, c \notin H \cup U \cup L
    PROVE  Books(S, Enqueue(s, c, FALSE), H, U, L \cup {c}, n)
<1>. DEFINE t == Enqueue(s, c, FALSE)
<1>1. /\ s \in Semaphores(S) /\ s.low \in Seq(S) /\ ~Contains(s.low, c)
      /\ IsInjective(s.low) /\ ~Contains(s.high, c)
  BY DEF Books, Semaphores
<1>2. /\ Append(s.low, c) \in Seq(S) /\ IsInjective(Append(s.low, c))
      /\ \A x : Contains(Append(s.low, c), x) <=> Contains(s.low, x) \/ x = c
  BY <1>1, AppendToQueue
<1>3. /\ t \in Semaphores(S) /\ t.low = Append(s.low, c) /\ t.high = s.high
      /\ t.avail = s.avail /\ t.reserved = s.reserved
  BY <1>1, <1>2 DEF Enqueue, Semaphores
<1>. HIDE DEF t
<1>4. Served(t, H, U \cup (L \cup {c})) = Served(s, H, U \cup L)
  BY <1>2, <1>3 DEF Served, Queued
<1>5. IsFiniteSet(L \cup {c})
  BY FS_AddElement DEF Books
<1>6. Books(S, t, H, U, L \cup {c}, n)
  BY <1>2, <1>3, <1>4, <1>5 DEF Books
<1>. QED  BY <1>6 DEF t

\* A slot that nobody owned is given: there is one more.
LEMMA BooksGift ==
    ASSUME NEW S, NEW s, NEW H, NEW U, NEW L, NEW n, Books(S, s, H, U, L, n),
           NEW t, Gives(S, s, t)
    PROVE  Books(S, t, H, U, L, n + 1)
<1>1. /\ t \in Semaphores(S) /\ IsInjective(t.high) /\ IsInjective(t.low)
      /\ \A x : (Contains(t.high, x) => x \in U) /\ (Contains(t.low, x) => x \in L)
      /\ t.avail \in Nat /\ t.reserved \in Nat
  BY DEF Gives, SemOK, Narrows, Books, Semaphores
<1>2. CASE Frees(s, t)
  <2>1. Served(t, H, U \cup L) = Served(s, H, U \cup L)
    BY <1>2 DEF Served, Frees
  <2>2. t.avail + t.reserved + Cardinality(Served(t, H, U \cup L)) = n + 1
    BY <1>1, <1>2, <2>1, ServedFinite DEF Frees, Books
  <2>. QED  BY <1>1, <2>2 DEF Books
<1>3. CASE Hands(S, s, t)
  <2>1. PICK w \in S : Queued(s, w) /\ \A x : Queued(t, x) <=> Queued(s, x) /\ x # w
    BY <1>3 DEF Hands
  <2>2. w \in U \cup L /\ w \notin H
    BY <2>1 DEF Books, Queued
  <2>3. /\ Served(t, H, U \cup L) = Served(s, H, U \cup L) \cup {w}
        /\ w \notin Served(s, H, U \cup L)
    BY <2>1, <2>2 DEF Served
  <2>4. Cardinality(Served(t, H, U \cup L)) = Cardinality(Served(s, H, U \cup L)) + 1
    BY <2>3, ServedFinite, FS_AddElement
  <2>5. t.avail + t.reserved + Cardinality(Served(t, H, U \cup L)) = n + 1
    BY <1>1, <1>3, <2>4, ServedFinite DEF Hands, Books
  <2>. QED  BY <1>1, <2>5 DEF Books
<1>. QED  BY <1>2, <1>3 DEF Gives

\* A holder gives its slot back.
LEMMA BooksGive ==
    ASSUME NEW S, NEW s, NEW H, NEW U, NEW L, NEW n, Books(S, s, H, U, L, n),
           NEW c \in H, NEW t, Gives(S, s, t)
    PROVE  Books(S, t, H \ {c}, U, L, n)
<1>1. Served(s, H \ {c}, U \cup L) = Served(s, H, U \cup L) \ {c}
      /\ c \in Served(s, H, U \cup L)
  BY DEF Served, Books
<1>2. Cardinality(Served(s, H \ {c}, U \cup L)) = Cardinality(Served(s, H, U \cup L)) - 1
  BY <1>1, ServedFinite, FS_RemoveElement
<1>3. s.avail + s.reserved + Cardinality(Served(s, H \ {c}, U \cup L)) = n - 1
  BY <1>2, ServedFinite DEF Books
<1>4. IsFiniteSet(H \ {c}) /\ n - 1 \in Int
  BY FS_RemoveElement DEF Books
<1>5. Books(S, s, H \ {c}, U, L, n - 1)
  BY <1>3, <1>4 DEF Books
<1>6. n - 1 + 1 = n
  BY DEF Books
<1>. QED  BY <1>5, <1>6, BooksGift

\* A caller that was served leaves Acquire.
LEMMA BooksWake ==
    ASSUME NEW S, NEW s, NEW H, NEW U, NEW L, NEW n, Books(S, s, H, U, L, n),
           NEW c \in U \cup L, ~Queued(s, c)
    PROVE  Books(S, s, H \cup {c}, U \ {c}, L \ {c}, n)
<1>1. Served(s, H \cup {c}, (U \ {c}) \cup (L \ {c})) = Served(s, H, U \cup L)
  BY DEF Served
<1>2. IsFiniteSet(H \cup {c}) /\ IsFiniteSet(U \ {c}) /\ IsFiniteSet(L \ {c})
  BY FS_AddElement, FS_RemoveElement DEF Books
<1>. QED  BY <1>1, <1>2 DEF Books, Queued

\* A caller whose context ends while it is queued leaves its queue.
LEMMA BooksLeave ==
    ASSUME NEW S, NEW s, NEW H, NEW U, NEW L, NEW n, Books(S, s, H, U, L, n),
           NEW c, Queued(s, c), NEW t, Departs(S, s, c, t)
    PROVE  Books(S, t, H, U \ {c}, L \ {c}, n)
<1>0. \A x : Queued(t, x) <=> Queued(s, x) /\ x # c
  BY DEF Queued, Departs
<1>1. Served(t, H, (U \ {c}) \cup (L \ {c})) = Served(s, H, U \cup L)
  BY <1>0 DEF Served
<1>2. IsFiniteSet(U \ {c}) /\ IsFiniteSet(L \ {c})
  BY FS_RemoveElement DEF Books
<1>3. t.avail + t.reserved + Cardinality(Served(t, H, (U \ {c}) \cup (L \ {c}))) = n
  BY <1>1 DEF Books, Departs
<1>4. /\ t \in Semaphores(S) /\ IsInjective(t.high) /\ IsInjective(t.low)
      /\ \A x : (Contains(t.high, x) => x \in U \ {c})
               /\ (Contains(t.low, x) => x \in L \ {c})
      /\ H \cap ((U \ {c}) \cup (L \ {c})) = {} /\ (U \ {c}) \cap (L \ {c}) = {}
  BY DEF Books, Departs
<1>. QED  BY <1>2, <1>3, <1>4 DEF Books

\* The semaphore of kept books is one the operations can be applied to.
LEMMA BooksSemOK ==
    ASSUME NEW S, NEW s, NEW H, NEW U, NEW L, NEW n, Books(S, s, H, U, L, n)
    PROVE  SemOK(S, s)
BY DEF Books, SemOK

\* A new semaphore has all its slots and nobody in it.
LEMMA BooksNew ==
    ASSUME NEW S, NEW slots \in Int
    PROVE  Books(S, NewPrioritySem(slots), {}, {}, {}, Capacity(slots))
<1>. DEFINE s == NewPrioritySem(slots)
<1>1. Capacity(slots) \in Nat
  BY DEF Capacity
<1>2. /\ s.avail = Capacity(slots) /\ s.reserved = 0
      /\ s.high = <<>> /\ s.low = <<>> /\ s \in Semaphores(S)
  BY <1>1 DEF NewPrioritySem, Semaphores
<1>. HIDE DEF s
<1>3. IsInjective(<<>>) /\ \A x : ~Contains(<<>>, x)
  BY DEF IsInjective, Contains
<1>4. Served(s, {}, {} \cup {}) = {}
  BY DEF Served
<1>5. Cardinality(Served(s, {}, {} \cup {})) = 0 /\ IsFiniteSet({})
  BY <1>4, FS_EmptySet
<1>6. Books(S, s, {}, {}, {}, Capacity(slots))
  BY <1>1, <1>2, <1>3, <1>5 DEF Books
<1>. QED  BY <1>6 DEF s
-----------------------------------------------------------------------------
\* Nobody who could have a free slot is queued: no user beside a free or parked
\* slot and, if all, no background caller beside an unreserved one.
NoneWaits(s, all) ==
    /\ s.avail + s.reserved > 0 => s.high = <<>>
    /\ all /\ s.avail > 0 => s.low = <<>>

\* The operations keep it.  CancelReservation wakes one caller and frees a slot
\* besides: it may leave background callers queued beside that slot.
LEMMA OperationsServe ==
    ASSUME NEW S, NEW s \in Semaphores(S), NEW all \in BOOLEAN, NoneWaits(s, all),
           NEW c, NEW user \in BOOLEAN
    PROVE  /\ Admits(s, user) => NoneWaits(Take(s, user), all)
           /\ ~Admits(s, user) => NoneWaits(Enqueue(s, c, user), all)
           /\ NoneWaits(Release(s), all)
           /\ NoneWaits(ReleaseReserved(s), all)
           /\ NoneWaits(RemoveWaiter(s, c, user), all)
           /\ NoneWaits(CancelReservation(s), all /\ s.reserved = 0)
<1>0. /\ s.avail \in Nat /\ s.reserved \in Nat
      /\ s.avail + s.reserved > 0 => s.high = <<>>
      /\ all /\ s.avail > 0 => s.low = <<>>
  BY DEF Semaphores, NoneWaits
<1>1. Admits(s, user) => NoneWaits(Take(s, user), all)
  BY <1>0 DEF Take, Admits, NoneWaits, Semaphores
<1>2. ~Admits(s, user) => NoneWaits(Enqueue(s, c, user), all)
  BY <1>0 DEF Enqueue, Admits, NoneWaits, Semaphores
<1>3. NoneWaits(Release(s), all)
  BY <1>0 DEF Release, Dispatch, NoneWaits, Semaphores
<1>4. NoneWaits(ReleaseReserved(s), all)
  BY <1>0 DEF ReleaseReserved, NoneWaits, Semaphores
<1>5. NoneWaits(RemoveWaiter(s, c, user), all)
  <2>1. RemoveFirst(<<>>, c) = <<>>
    BY DEF RemoveFirst
  <2>. QED  BY <1>0, <2>1 DEF RemoveWaiter, NoneWaits, Semaphores
<1>6. NoneWaits(CancelReservation(s), all /\ s.reserved = 0)
  <2>1. CASE s.reserved = 0
    BY <1>0, <2>1 DEF CancelReservation, NoneWaits
  <2>2. CASE s.reserved > 0
    <3>1. s.high = <<>>
      BY <1>0, <2>2
    <3>. QED
      BY <1>0, <2>2, <3>1 DEF CancelReservation, Dispatch, NoneWaits, Semaphores
  <2>. QED  BY <1>0, <2>1, <2>2
<1>. QED  BY <1>1, <1>2, <1>3, <1>4, <1>5, <1>6
=============================================================================
