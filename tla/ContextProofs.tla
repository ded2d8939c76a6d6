----------------------------- MODULE ContextProofs -----------------------------
(***************************************************************************)
(* Theorems about what the model is told: the conversation, the skills and *)
(* the profile.  Each holds for any number of goroutines, any names, messages *)
(* and persons, and any bounds; the only assumptions on the constants are those *)
(* of Conversation, of Skills and of Profile.                              *)
(***************************************************************************)
EXTENDS Profile, Conversation, Skills, FiniteSetTheorems, TLAPS,
        WellFoundedInduction, SequenceTheorems
-----------------------------------------------------------------------------
(***************************************************************************)
(* The conversation.  A slide reads the oldest messages, archives them in the *)
(* background and removes what is still there of them: old[w] is inside what *)
(* the archive got beyond what was removed, kind by kind, slider by slider. *)
(***************************************************************************)
\* Among subsets of a finite set one has no other one inside it.
LEMMA SmallestOf ==
    ASSUME NEW S, IsFiniteSet(S), NEW F \in SUBSET (SUBSET S), F # {}
    PROVE  \E T \in F : \A U \in F : U \subseteq T => U = T
<1>1. FiniteSubsetsOf(S) = SUBSET S
  BY FS_FiniteSubsetsOfFinite
<1>2. IsWellFoundedOn(StrictSubsetOrdering(S), SUBSET S)
  BY <1>1, FS_StrictSubsetOrderingWellFounded
<1>3. PICK T \in F : \A U \in F : <<U, T>> \notin StrictSubsetOrdering(S)
  BY <1>2, WFMin
<1>. QED  BY <1>3 DEF StrictSubsetOrdering

\* So a finite set of integers that has an element has a greatest one ...
LEMMA GreatestOf ==
    ASSUME NEW S, IsFiniteSet(S), S \subseteq Int, S # {}
    PROVE  Max(S) \in S /\ \A y \in S : Max(S) >= y
<1>. DEFINE Above(x) == {y \in S : y > x}
<1>0. PICK Cuts : Cuts = {Above(x) : x \in S}
  OBVIOUS
<1>1. PICK T \in Cuts : \A U \in Cuts : U \subseteq T => U = T
  <2>1. Cuts \in SUBSET (SUBSET S) /\ Cuts # {}
    BY <1>0
  <2>. QED  BY ONLY IsFiniteSet(S), <2>1, SmallestOf
<1>2. PICK x \in S : T = Above(x)
  BY <1>0, <1>1
<1>3. ASSUME NEW y \in S, y > x PROVE FALSE
  <2>1. y \in T /\ y \notin Above(y) /\ Above(y) \in Cuts
    BY <1>0, <1>2, <1>3
  <2>2. ASSUME NEW z \in S, z > y PROVE z \in T
    <3>1. x \in Int /\ y \in Int /\ z \in Int
      OBVIOUS
    <3>. QED  BY <1>2, <1>3, <2>2, <3>1
  <2>3. Above(y) \subseteq T
    BY <2>2
  <2>. QED  BY <1>1, <2>1, <2>3
<1>4. \A y \in S : x >= y
  BY <1>3
<1>. QED  BY <1>4 DEF Max

\* ... and a least one.
LEMMA LeastOf ==
    ASSUME NEW S, IsFiniteSet(S), S \subseteq Int, S # {}
    PROVE  Min(S) \in S
<1>. DEFINE Below(x) == {y \in S : y < x}
<1>0. PICK Cuts : Cuts = {Below(x) : x \in S}
  OBVIOUS
<1>1. PICK T \in Cuts : \A U \in Cuts : U \subseteq T => U = T
  <2>1. Cuts \in SUBSET (SUBSET S) /\ Cuts # {}
    BY <1>0
  <2>. QED  BY ONLY IsFiniteSet(S), <2>1, SmallestOf
<1>2. PICK x \in S : T = Below(x)
  BY <1>0, <1>1
<1>3. ASSUME NEW y \in S, y < x PROVE FALSE
  <2>1. y \in T /\ y \notin Below(y) /\ Below(y) \in Cuts
    BY <1>0, <1>2, <1>3
  <2>2. ASSUME NEW z \in S, z < y PROVE z \in T
    <3>1. x \in Int /\ y \in Int /\ z \in Int
      OBVIOUS
    <3>. QED  BY <1>2, <1>3, <2>2, <3>1
  <2>3. Below(y) \subseteq T
    BY <2>2
  <2>. QED  BY <1>1, <2>1, <2>3
<1>4. \A y \in S : x <= y
  BY <1>3
<1>. QED  BY <1>4 DEF Min

\* A tally is a number, and the tally of a concatenation is the sum.
LEMMA TallyNat ==
    ASSUME NEW s \in Seq(Kinds), NEW k \in Kinds
    PROVE  Tally(s)[k] \in Nat
<1>1. IsFiniteSet({i \in DOMAIN s : s[i] = k})
  <2>1. IsFiniteSet(1 .. Len(s))
    BY LenProperties, FS_Interval
  <2>. QED  BY <2>1, FS_Subset
<1>. QED  BY <1>1, FS_CardinalityType DEF Tally

\* The messages of two lists put together are those of both, kind by kind.
LEMMA TallyConcat ==
    ASSUME NEW a \in Seq(Kinds), NEW b \in Seq(Kinds), NEW k \in Kinds
    PROVE  Tally(a \o b)[k] = Tally(a)[k] + Tally(b)[k]
<1>. DEFINE A == {i \in DOMAIN a : a[i] = k}
            B == {i \in DOMAIN b : b[i] = k}
            C == {i \in DOMAIN (a \o b) : (a \o b)[i] = k}
            Shifted == {i + Len(a) : i \in B}
<1>1. Len(a) \in Nat /\ Len(b) \in Nat /\ DOMAIN a = 1 .. Len(a) /\ DOMAIN b = 1 .. Len(b)
  OBVIOUS
<1>2. IsFiniteSet(A) /\ IsFiniteSet(B)
  <2>1. IsFiniteSet(1 .. Len(a)) /\ IsFiniteSet(1 .. Len(b))
    BY <1>1, FS_Interval
  <2>. QED  BY <1>1, <2>1, FS_Subset
<1>3. IsFiniteSet(Shifted) /\ Cardinality(Shifted) = Cardinality(B)
  <2>. DEFINE f == [i \in B |-> i + Len(a)]
  <2>1. f \in Bijection(B, Shifted)
    BY <1>1 DEF Bijection, Injection, Surjection, IsInjective
  <2>. HIDE DEF f
  <2>2. ExistsBijection(B, Shifted)
    BY <2>1 DEF ExistsBijection
  <2>. QED  BY <1>2, <2>2, FS_Bijection
<1>4. A \cap Shifted = {}
  BY <1>1
<1>5. C = A \cup Shifted
  <2>1. ASSUME NEW i \in C PROVE i \in A \cup Shifted
    <3>1. i \in 1 .. Len(a) + Len(b)
      BY <1>1
    <3>2. CASE i <= Len(a)
      BY <1>1, <3>1, <3>2
    <3>3. CASE i > Len(a)
      <4>1. i - Len(a) \in B /\ i = (i - Len(a)) + Len(a)
        BY <1>1, <3>1, <3>3
      <4>. QED  BY <4>1
    <3>. QED  BY <1>1, <3>1, <3>2, <3>3
  <2>2. A \subseteq C
    BY <1>1
  <2>3. Shifted \subseteq C
    BY <1>1
  <2>. QED  BY <2>1, <2>2, <2>3
<1>6. Cardinality(C) = Cardinality(A) + Cardinality(B)
  <2>. HIDE DEF A, B, C, Shifted
  <2>1. Cardinality(C) = Cardinality(A) + Cardinality(Shifted) - Cardinality(A \cap Shifted)
    BY <1>2, <1>3, <1>5, FS_Union
  <2>2. Cardinality(A \cap Shifted) = 0
    BY <1>4, FS_EmptySet
  <2>3. Cardinality(A) \in Nat /\ Cardinality(B) \in Nat
    BY <1>2, FS_CardinalityType
  <2>. QED  BY <1>3, <2>1, <2>2, <2>3
<1>. QED  BY <1>6 DEF Tally

\* What a slide leaves: the parts before and after what it takes out.
LEMMA CutTally ==
    ASSUME NEW s \in Seq(Kinds), NEW part \in Seq(Kinds), NEW k \in Kinds,
           Len(s) > Len(part) + 1, Slice(s, 1, Len(part) + 1) = part
    PROVE  LET rest == Slice(s, 0, 1) \o Slice(s, Len(part) + 1, Len(s))
           IN  rest \in Seq(Kinds) /\ Tally(s)[k] - Tally(rest)[k] = Tally(part)[k]
<1>. DEFINE first == Slice(s, 0, 1)
            last == Slice(s, Len(part) + 1, Len(s))
            cut == Len(part) + 1
<1>1. cut \in Nat /\ cut >= 1 /\ cut < Len(s) /\ Len(s) \in Nat
  BY LenProperties
<1>2. first \in Seq(Kinds) /\ last \in Seq(Kinds)
  BY <1>1, SubSeqProperties DEF Slice
<1>3. s = first \o (part \o last)
  <2>1. part \o last = SubSeq(s, 2, Len(s))
    BY <1>1, ConcatAdjacentSubSeq DEF Slice
  <2>2. first \o SubSeq(s, 2, Len(s)) = SubSeq(s, 1, Len(s))
    BY <1>1, ConcatAdjacentSubSeq DEF Slice
  <2>. QED  BY <2>1, <2>2, SubSeqFull
<1>. HIDE DEF first, last
<1>4. Tally(s)[k] = Tally(first)[k] + (Tally(part)[k] + Tally(last)[k])
  <2>1. part \o last \in Seq(Kinds)
    BY <1>2, ConcatProperties
  <2>2. Tally(first \o (part \o last))[k] = Tally(first)[k] + Tally(part \o last)[k]
    BY <1>2, <2>1, TallyConcat
  <2>3. Tally(part \o last)[k] = Tally(part)[k] + Tally(last)[k]
    BY <1>2, TallyConcat
  <2>. QED  BY <1>3, <2>2, <2>3
<1>5. Tally(first \o last)[k] = Tally(first)[k] + Tally(last)[k]
  BY <1>2, TallyConcat
<1>6. first \o last \in Seq(Kinds)
  BY <1>2, ConcatProperties
<1>7. Tally(first)[k] \in Nat /\ Tally(last)[k] \in Nat /\ Tally(part)[k] \in Nat
  BY <1>2, TallyNat
<1>8. Tally(s)[k] - Tally(first \o last)[k] = Tally(part)[k]
  BY <1>4, <1>5, <1>7
<1>. QED  BY <1>6, <1>8 DEF first, last

\* The cut lies in the conversation.
LEMMA SafeIndexInside ==
    ASSUME NEW s \in Seq(Kinds)
    PROVE  SafeIndex(s) \in Int /\ (SafeIndex(s) >= 1 => SafeIndex(s) < Len(s))
<1>. DEFINE naive == NaiveCutoff(s)
            backward == Boundaries(s, 2, naive)
            forward == Boundaries(s, naive + 1, Len(s) - 2)
<1>1. Len(s) \in Nat /\ naive \in Int /\ naive < Len(s)
  BY ConversationAssumption, LenProperties DEF NaiveCutoff
<1>2. backward \subseteq 2 .. naive /\ forward \subseteq (naive + 1) .. (Len(s) - 2)
  BY DEF Boundaries
<1>3. IsFiniteSet(backward) /\ IsFiniteSet(forward)
  <2>1. IsFiniteSet(2 .. naive) /\ IsFiniteSet((naive + 1) .. (Len(s) - 2))
    BY <1>1, FS_Interval
  <2>. QED  BY <1>2, <2>1, FS_Subset
<1>4. backward # {} => Max(backward) \in 2 .. naive
  BY <1>2, <1>3, GreatestOf
<1>5. forward # {} => Min(forward) \in (naive + 1) .. (Len(s) - 2)
  BY <1>2, <1>3, LeastOf
<1>. QED  BY <1>1, <1>4, <1>5 DEF SafeIndex

-----------------------------------------------------------------------------
\* What a slider read and has not removed yet it has archived.
Talks ==
    /\ messages \in Seq(Kinds) /\ turn \in [Writers -> Seq(Kinds)]
    /\ old \in [Sliders -> Seq(Kinds)] /\ surplus \in [Sliders -> [Kinds -> Int]]
Archived == \A w \in Sliders, k \in Kinds : surplus[w][k] >= Tally(old[w])[k]
TalkInv == Talks /\ Archived

\* A transcript is a list of kinds of messages.
LEMMA TranscriptsTyped == Transcripts \subseteq Seq(Kinds)
<1>1. ASSUME NEW n \in 0 .. MaxRounds, NEW r \in Rounds(n) PROVE r \in Seq(Kinds)
  <2>1. r \in [1 .. 2 * n -> Kinds] /\ 2 * n \in Nat
    BY ConversationAssumption DEF Rounds
  <2>. QED  BY <2>1, IsASeq
<1>2. <<"user">> \in Seq(Kinds) /\ <<"reply">> \in Seq(Kinds)
  BY DEF Kinds
<1>3. ASSUME NEW n \in 0 .. MaxRounds, NEW s \in Rounds(n)
      PROVE  <<"user">> \o s \in Seq(Kinds) /\ <<"user">> \o s \o <<"reply">> \in Seq(Kinds)
  BY <1>1, <1>2, ConcatProperties
<1>4. ASSUME NEW t \in Transcripts PROVE t \in Seq(Kinds)
  <2>1. PICK s \in UNION {Rounds(n) : n \in 0 .. MaxRounds} :
          t \in {<<"user">> \o s, <<"user">> \o s \o <<"reply">>}
    BY DEF Transcripts
  <2>2. PICK n \in 0 .. MaxRounds : s \in Rounds(n)
    OBVIOUS
  <2>. QED  BY <1>3, <2>1, <2>2
<1>. QED  BY <1>4

\* The messages of an empty sequence.
LEMMA EmptyTally == ASSUME NEW k \in Kinds PROVE Tally(<<>>)[k] = 0
<1>1. {i \in DOMAIN <<>> : <<>>[i] = k} = {}
  OBVIOUS
<1>. QED  BY <1>1, FS_EmptySet DEF Tally

\* Where nobody reads or slides the books do not change.
LEMMA TalkGoesOn ==
    ASSUME TalkInv, Talks', UNCHANGED <<old, surplus>>
    PROVE  TalkInv'
BY DEF TalkInv, Archived

\* What a slide read goes to the archive at once, and is to be removed.
LEMMA ReadArchives == ASSUME TalkInv, NEW w \in Sliders, Read(w) PROVE TalkInv'
<1>. DEFINE part == Slice(messages, 1, SafeIndex(messages))
<1>1. part \in Seq(Kinds)
  <2>1. SafeIndex(messages) \in 1 .. Len(messages)
    <3>1. messages \in Seq(Kinds) /\ ~(SafeIndex(messages) < 1)
      BY DEF TalkInv, Talks, Read, Panics
    <3>2. SafeIndex(messages) \in Int
          /\ (SafeIndex(messages) >= 1 => SafeIndex(messages) < Len(messages))
      BY <3>1, SafeIndexInside
    <3>. QED  BY <3>1, <3>2, LenProperties
  <2>. QED  BY <2>1, SubSeqProperties DEF Slice, TalkInv, Talks
<1>2. /\ old' = [old EXCEPT ![w] = part]
      /\ surplus' = [surplus EXCEPT ![w] = [k \in Kinds |-> @[k] + Tally(part)[k]]]
      /\ UNCHANGED <<messages, turn>>
  BY DEF Read
<1>. HIDE DEF part
<1>3. ASSUME NEW k \in Kinds PROVE Tally(part)[k] \in Nat /\ Tally(old[w])[k] \in Nat
  BY <1>1, TallyNat DEF TalkInv, Talks
<1>4. surplus'[w] = [k \in Kinds |-> surplus[w][k] + Tally(part)[k]]
  BY <1>2 DEF TalkInv, Talks
<1>5. Talks'
  <2>1. surplus'[w] \in [Kinds -> Int]
    BY <1>3, <1>4 DEF TalkInv, Talks
  <2>. QED  BY <1>1, <1>2, <1>4, <2>1 DEF TalkInv, Talks
<1>6. ASSUME NEW v \in Sliders, NEW k \in Kinds PROVE surplus'[v][k] >= Tally(old'[v])[k]
  <2>1. CASE v = w
    <3>1. old'[v] = part /\ surplus'[v][k] = surplus[w][k] + Tally(part)[k]
      BY <1>2, <1>4, <2>1 DEF TalkInv, Talks
    <3>2. surplus[w][k] >= Tally(old[w])[k] /\ surplus[w][k] \in Int
      BY DEF TalkInv, Talks, Archived
    <3>. QED  BY <1>3, <3>1, <3>2
  <2>2. CASE v # w
    BY <1>2, <2>2 DEF TalkInv, Talks, Archived
  <2>. QED  BY <2>1, <2>2
<1>7. Archived'
  BY <1>6 DEF Archived
<1>. QED  BY <1>5, <1>7 DEF TalkInv

\* What it removes is no more than what it archived (SlideMessages).
LEMMA SlideRemovesArchived ==
    ASSUME TalkInv, NEW w \in Sliders, SlideMessages(w)
    PROVE  TalkInv'
<1>1. old' = [old EXCEPT ![w] = <<>>] /\ turn' = turn
  BY DEF SlideMessages
<1>2. ASSUME NEW k \in Kinds PROVE Tally(old[w])[k] \in Nat /\ Tally(<<>>)[k] = 0
  BY TallyNat, EmptyTally DEF TalkInv, Talks
<1>3. CASE ~Unchanged(w)
  <2>1. UNCHANGED <<messages, surplus>>
    BY <1>3 DEF SlideMessages
  <2>2. Talks'
    BY <1>1, <2>1 DEF TalkInv, Talks
  <2>3. ASSUME NEW v \in Sliders, NEW k \in Kinds PROVE surplus[v][k] >= Tally(old'[v])[k]
    <3>1. surplus[v][k] >= Tally(old[v])[k] /\ surplus[v][k] \in Int
      BY DEF TalkInv, Talks, Archived
    <3>2. CASE v = w
      BY <1>1, <1>2, <3>1, <3>2 DEF TalkInv, Talks
    <3>3. CASE v # w
      BY <1>1, <3>1, <3>3 DEF TalkInv, Talks
    <3>. QED  BY <3>2, <3>3
  <2>. QED  BY <2>1, <2>2, <2>3 DEF TalkInv, Archived
<1>4. CASE Unchanged(w)
  <2>1. Len(messages) > Len(old[w]) + 1 /\ Slice(messages, 1, Len(old[w]) + 1) = old[w]
    BY <1>4 DEF Unchanged
  <2>2. /\ messages' = Slice(messages, 0, 1) \o Slice(messages, Len(old[w]) + 1, Len(messages))
        /\ surplus' = [surplus EXCEPT ![w] =
                          [k \in Kinds |-> @[k] - Tally(messages)[k] + Tally(messages')[k]]]
    BY <1>4 DEF SlideMessages
  <2>3. ASSUME NEW k \in Kinds
       
        PROVE  messages' \in Seq(Kinds) /\ Tally(messages)[k] - Tally(messages')[k] = Tally(old[w])[k]
    BY <2>1, <2>2, CutTally DEF TalkInv, Talks
  <2>4. messages' \in Seq(Kinds)
    BY <2>3 DEF Kinds
  <2>5. surplus'[w] = [k \in Kinds |-> surplus[w][k] - Tally(messages)[k] + Tally(messages')[k]]
    BY <2>2 DEF TalkInv, Talks
  <2>6. ASSUME NEW k \in Kinds
        PROVE  surplus'[w][k] \in Int /\ surplus'[w][k] = surplus[w][k] - Tally(old[w])[k]
    <3>1. Tally(messages)[k] \in Nat /\ Tally(messages')[k] \in Nat /\ surplus[w][k] \in Int
      BY <2>4, TallyNat DEF TalkInv, Talks
    <3>. QED  BY <1>2, <2>3, <2>5, <3>1
  <2>7. Talks'
    <3>1. surplus'[w] \in [Kinds -> Int]
      BY <2>5, <2>6
    <3>. QED  BY <1>1, <2>2, <2>4, <3>1 DEF TalkInv, Talks
  <2>8. ASSUME NEW v \in Sliders, NEW k \in Kinds PROVE surplus'[v][k] >= Tally(old'[v])[k]
    <3>1. surplus[v][k] >= Tally(old[v])[k] /\ surplus[v][k] \in Int
      BY DEF TalkInv, Talks, Archived
    <3>2. CASE v = w
      <4>1. Tally(old'[v])[k] = 0
        BY <1>1, <1>2, <3>2 DEF TalkInv, Talks
      <4>. QED  BY <1>2, <2>6, <3>1, <3>2, <4>1
    <3>3. CASE v # w
      BY <1>1, <2>2, <3>1, <3>3 DEF TalkInv, Talks
    <3>. QED  BY <3>2, <3>3
  <2>. QED  BY <2>7, <2>8 DEF TalkInv, Archived
<1>. QED  BY <1>3, <1>4

\* Every step of the conversation keeps what the archive got beyond the removed.
LEMMA NextTalk == TalkInv /\ [ConversationNext]_conversationVars => TalkInv'
<1>. SUFFICES ASSUME TalkInv, [ConversationNext]_conversationVars PROVE TalkInv'
  OBVIOUS
<1>1. ASSUME NEW w \in Writers, Turn(w) PROVE TalkInv'
  <2>1. PICK t \in Transcripts : turn' = [turn EXCEPT ![w] = t]
    BY <1>1 DEF Turn
  <2>2. t \in Seq(Kinds)
    BY TranscriptsTyped
  <2>3. Talks'
    BY <1>1, <2>1, <2>2 DEF Turn, TalkInv, Talks
  <2>. QED  BY <1>1, <2>3, TalkGoesOn DEF Turn
<1>2. ASSUME NEW w \in Writers, AppendMessage(w) PROVE TalkInv'
  <2>1. turn[w] \in Seq(Kinds) /\ turn[w] # <<>>
    BY <1>2 DEF AppendMessage, TalkInv, Talks
  <2>2. Head(turn[w]) \in Kinds /\ Tail(turn[w]) \in Seq(Kinds)
    BY <2>1, HeadTailProperties
  <2>3. Talks'
    BY <1>2, <2>2, AppendProperties DEF AppendMessage, AppendOne, TalkInv, Talks
  <2>. QED  BY <1>2, <2>3, TalkGoesOn DEF AppendMessage
<1>3. CASE Deliver
  <2>1. Talks'
    BY <1>3, AppendProperties DEF Deliver, AppendOne, TalkInv, Talks, Kinds
  <2>. QED  BY <1>3, <2>1, TalkGoesOn DEF Deliver
<1>4. ASSUME UNCHANGED <<messages, turn, old, surplus>> PROVE TalkInv'
  BY <1>4, TalkGoesOn DEF TalkInv, Talks
<1>5. ASSUME NEW w \in Writers, Tick(w) PROVE TalkInv'
  BY <1>4, <1>5 DEF Tick
<1>6. ASSUME NEW w \in Sliders, Slide(w) PROVE TalkInv'
  BY <1>4, <1>6, ReadArchives, SlideRemovesArchived DEF Slide, Count, Panic
<1>7. CASE UNCHANGED conversationVars
  BY <1>4, <1>7 DEF conversationVars
<1>. QED  BY <1>1, <1>2, <1>3, <1>5, <1>6, <1>7 DEF ConversationNext

\* No slide takes a message out of the conversation whose text it did not
\* archive, for any number of loops and sliders, any limit and any transcripts,
\* however their counts, reads and removals interleave.
THEOREM NoMessageLost == ConversationSpec => []NothingLost
<1>1. ConversationInit => TalkInv
  <2>. SUFFICES ASSUME ConversationInit PROVE TalkInv
    OBVIOUS
  <2>1. Talks
    BY DEF ConversationInit, Talks
  <2>2. Archived
    BY EmptyTally DEF ConversationInit, Archived
  <2>. QED  BY <2>1, <2>2 DEF TalkInv
<1>2. TalkInv => NothingLost
  <2>. SUFFICES ASSUME TalkInv, NEW w \in Sliders, NEW k \in Kinds PROVE surplus[w][k] >= 0
    BY DEF NothingLost
  <2>1. Tally(old[w])[k] \in Nat
    BY TallyNat DEF TalkInv, Talks
  <2>2. surplus[w][k] >= Tally(old[w])[k] /\ surplus[w][k] \in Int
    BY DEF TalkInv, Talks, Archived
  <2>. QED  BY <2>1, <2>2
<1>. QED  BY <1>1, <1>2, NextTalk, PTL DEF ConversationSpec
-----------------------------------------------------------------------------
(***************************************************************************)
(* The skills.  The lists follow the registry because each change of it leaves *)
(* its goroutine in a rebuild, and a rebuild that nobody crosses lists what it *)
(* read.                                                                   *)
(***************************************************************************)
Rebuilds == {"rebuild", "update lists"}
Stations == Rebuilds \cup {"idle", "run", "testnew", "testupdate", "handler", "register",
                          "unregister", "clean", "sync"}
Shape == [at : Stations, name : Names \cup {NoName}, lang : Langs,
          then : {"idle", "clean"}, seen : [Names -> Nat]]
Task(r) ==
    /\ r \in Shape /\ (r.then = "clean" => r.at \in Rebuilds)
    /\ r.at \in {"run", "testnew", "testupdate"} => r.name \in Names
Dirs == [md : Nat, lang : Langs, ts : Nat, js : Nat]
SkillsTyped ==
    /\ dir \in [Names -> Dirs] /\ writes \in Nat
    /\ reg \in [Names -> [src : Nat, live : BOOLEAN]] /\ th \in [Threads -> Shape]
    /\ \A t \in Threads : Task(th[t])
    /\ kv \subseteq Names /\ unembedded \in Nat /\ embedding \in [SUBSET Names -> Nat]

\* What a rebuild is about to list, and what the lists say when none is under way.
Fresh(t) == \A n \in Names : th[t].seen[n] = 1 <=> Registered(n)
EmbedsCurrent ==
    /\ \A s \in SUBSET Names : embedding[s] # 0 => s = Skilled /\ embedding[s] = 1
    /\ (\A s \in SUBSET Names : embedding[s] = 0) => offered = Skilled
ListInv ==
    ~crossed =>
        /\ Rebuilding = {} => allowed = Skilled /\ (unembedded = 0 => EmbedsCurrent)
        /\ \A t \in Threads : Rebuilding = {t} /\ Doing(t, "update lists") => Fresh(t)
SkillsInv == SkillsTyped /\ ListInv /\ RowsOwned

\* A goroutine changes what it does, outside of a rebuild.
LEMMA Moves ==
    ASSUME SkillsTyped, NEW t \in Threads, NEW r, Task(r), th' = [th EXCEPT ![t] = r]
    PROVE  /\ th' \in [Threads -> Shape] /\ th'[t] = r
           /\ \A u \in Threads : u # t => th'[u] = th[u]
BY DEF SkillsTyped, Task

\* Lists, registry and rebuilds are as they were.
LEMMA ListsStay ==
    ASSUME ListInv, UNCHANGED <<reg, lists, crossed>>,
           \A t \in Threads : th'[t] = th[t]
                              \/ (th'[t].at \notin Rebuilds /\ th[t].at \notin Rebuilds)
    PROVE  ListInv'
<1>1. Rebuilding' = Rebuilding /\ Skilled' = Skilled
  BY DEF Rebuilding, Rebuilds, Skilled, Registered
<1>2. EmbedsCurrent' <=> EmbedsCurrent
  BY <1>1 DEF EmbedsCurrent, lists
<1>3. ASSUME NEW t \in Threads, Rebuilding' = {t}, Doing(t, "update lists")', ~crossed
      PROVE  Fresh(t)'
  <2>1. th'[t] = th[t]
    BY <1>3 DEF Doing, Rebuilds
  <2>. QED  BY <1>1, <1>3, <2>1 DEF ListInv, Fresh, Registered, Doing
<1>. QED  BY <1>1, <1>2, <1>3 DEF ListInv, lists

\* Whatever a goroutine did to the registry, it is about to rebuild the lists.
LEMMA RebuildBegins ==
    ASSUME ListInv, UNCHANGED <<lists, crossed>>, NEW t \in Threads,
           th'[t].at = "rebuild"
    PROVE  ListInv'
<1>1. t \in Rebuilding' /\ ~ Doing(t, "update lists")'
  BY DEF Rebuilding, Doing
<1>. QED  BY <1>1 DEF ListInv

\* Rows and directories are as they were, and so are the deletions.
LEMMA RowsStay ==
    ASSUME RowsOwned, UNCHANGED <<dir, kv, late>>,
           \A t \in Threads, n \in kv : Deleting(t, n) => Deleting(t, n)'
    PROVE  RowsOwned'
BY DEF RowsOwned

-----------------------------------------------------------------------------
\* A goroutine at rest, and what it may become outside of a deletion.
LEMMA IdleForm ==
    \E none \in [Names -> Nat] :
        Idle = [at |-> "idle", name |-> NoName, lang |-> "js", then |-> "idle", seen |-> none]
<1>. DEFINE none == [n \in Names |-> 0]
<1>1. none \in [Names -> Nat]
  OBVIOUS
<1>2. Idle = [at |-> "idle", name |-> NoName, lang |-> "js", then |-> "idle", seen |-> none]
  BY DEF Idle
<1>. HIDE DEF none
<1>. QED  BY <1>1, <1>2

\* The record of a goroutine that does nothing.
LEMMA IdleTask == Task(Idle) /\ Idle \in Shape /\ Idle.then = "idle" /\ Idle.at = "idle"
BY IdleForm DEF Task, Shape, Stations, Langs

\* A goroutine that neither rebuilds nor deletes goes to where it does neither,
\* or begins to delete.
LEMMA GoesOn ==
    ASSUME SkillsInv, NEW t \in Threads, NEW r, Task(r), th' = [th EXCEPT ![t] = r],
           th[t].at \notin Rebuilds \cup {"unregister", "clean"}, r.at \notin Rebuilds,
           UNCHANGED <<reg, lists, crossed>>
    PROVE  /\ th' \in [Threads -> Shape] /\ (\A u \in Threads : Task(th'[u])) /\ ListInv'
           /\ \A u \in Threads : \A n : Deleting(u, n) => Deleting(u, n)'
<1>1. /\ th' \in [Threads -> Shape] /\ th'[t] = r
      /\ \A u \in Threads : u # t => th'[u] = th[u]
  BY Moves DEF SkillsInv
<1>5. \A u \in Threads : Task(th'[u])
  BY <1>1 DEF SkillsInv, SkillsTyped
<1>2. ListInv'
  BY <1>1, ListsStay DEF SkillsInv
<1>3. \A n : ~Deleting(t, n)
  BY DEF Deleting, Doing, SkillsInv, SkillsTyped, Task
<1>4. \A u \in Threads : \A n : u # t => (Deleting(u, n)' <=> Deleting(u, n))
  BY <1>1 DEF Deleting, Doing
<1>. QED  BY <1>1, <1>2, <1>3, <1>4, <1>5

\* Runs and tests begin and end; a sync reads the directories.
LEMMA RunsKeepSkills ==
    ASSUME SkillsInv, NEW t \in Threads,
           \/ \E n \in Names : StartRun(t, n) \/ CreateStarts(t, n) \/ UpdateStarts(t, n)
           \/ EndRun(t) \/ TestFails(t) \/ SyncLoads(t)
    PROVE  SkillsInv'
<1>1. UNCHANGED <<dir, writes, reg, lists, kv, crossed, late>>
  BY DEF StartRun, CreateStarts, UpdateStarts, EndRun, TestFails, SyncLoads, files
<1>2. th[t].at \notin Rebuilds \cup {"unregister", "clean"}
  BY DEF StartRun, CreateStarts, UpdateStarts, EndRun, TestFails, SyncLoads, Doing, Rebuilds
<1>3. PICK r : Task(r) /\ th' = [th EXCEPT ![t] = r] /\ r.at \notin Rebuilds
  <2>1. CASE EndRun(t) \/ TestFails(t)
    BY <2>1, IdleTask DEF EndRun, TestFails, Rebuilds
  <2>2. CASE SyncLoads(t)
    <3>. DEFINE r == [Idle EXCEPT !.at = "sync",
                       !.seen = [n \in Names |-> IF Loads(dir[n]) THEN SourceOf(dir[n]) ELSE 0]]
    <3>1. th' = [th EXCEPT ![t] = r]
      BY <2>2 DEF SyncLoads
    <3>2. Task(r) /\ r.at \notin Rebuilds
      <4>1. [n \in Names |-> IF Loads(dir[n]) THEN SourceOf(dir[n]) ELSE 0] \in [Names -> Nat]
        BY DEF SkillsInv, SkillsTyped, SourceOf, Dirs
      <4>. QED  BY <4>1, IdleTask DEF Rebuilds, Stations, Shape, Task
    <3>. QED  BY <3>1, <3>2
  <2>3. ASSUME NEW n \in Names, StartRun(t, n)
        PROVE \E r : Task(r) /\ th' = [th EXCEPT ![t] = r] /\ r.at \notin Rebuilds
    <3>. DEFINE r == [Idle EXCEPT !.at = "run", !.name = n]
    <3>1. Task(r) /\ r.at \notin Rebuilds
      BY IdleTask, SkillsAssumption DEF Rebuilds, Stations, Shape, Task
    <3>. QED  BY <2>3, <3>1 DEF StartRun, Start
  <2>4. ASSUME NEW n \in Names, CreateStarts(t, n)
        PROVE \E r : Task(r) /\ th' = [th EXCEPT ![t] = r] /\ r.at \notin Rebuilds
    <3>1. PICK lang \in Langs :
            th' = [th EXCEPT ![t] = [Idle EXCEPT !.at = "testnew", !.name = n, !.lang = lang]]
      BY <2>4 DEF CreateStarts
    <3>. DEFINE r == [Idle EXCEPT !.at = "testnew", !.name = n, !.lang = lang]
    <3>2. Task(r) /\ r.at \notin Rebuilds
      BY IdleTask, SkillsAssumption DEF Rebuilds, Stations, Shape, Task
    <3>. QED  BY <3>1, <3>2
  <2>5. ASSUME NEW n \in Names, UpdateStarts(t, n)
        PROVE \E r : Task(r) /\ th' = [th EXCEPT ![t] = r] /\ r.at \notin Rebuilds
    <3>. DEFINE r == [Idle EXCEPT !.at = "testupdate", !.name = n, !.lang = dir[n].lang]
    <3>1. Task(r) /\ r.at \notin Rebuilds
      BY IdleTask, SkillsAssumption DEF Rebuilds, Stations, Shape, Task, SkillsInv, SkillsTyped,
           Dirs
    <3>. QED  BY <2>5, <3>1 DEF UpdateStarts
  <2>. QED  BY <2>1, <2>2, <2>3, <2>4, <2>5
<1>4. SkillsTyped'
  BY <1>1, <1>2, <1>3, GoesOn DEF SkillsInv, SkillsTyped, lists
<1>5. ListInv' /\ RowsOwned'
  BY <1>1, <1>2, <1>3, GoesOn, RowsStay DEF SkillsInv
<1>. QED  BY <1>4, <1>5 DEF SkillsInv

\* The rows a skill writes and deletes.
LEMMA KvKeepsSkills ==
    ASSUME SkillsInv, NEW t \in Threads, KvSet(t) \/ KvDelete(t)
    PROVE  SkillsInv'
<1>1. UNCHANGED <<files, reg, th, lists, crossed>>
  BY DEF KvSet, KvDelete
<1>2. ListInv'
  BY <1>1, ListsStay DEF SkillsInv
<1>4. kv' \subseteq Names
  <2>1. th[t].name \in Names \/ KvDelete(t)
    BY DEF SkillsInv, SkillsTyped, Task, KvSet, Executing
  <2>. QED  BY <2>1 DEF SkillsInv, SkillsTyped, KvSet, KvDelete
<1>5. SkillsTyped'
  BY <1>1, <1>4 DEF SkillsInv, SkillsTyped, files, lists
<1>3. RowsOwned'
  BY <1>1 DEF SkillsInv, RowsOwned, Deleting, Doing, KvSet, KvDelete, Orphaned, files
<1>. QED  BY <1>2, <1>3, <1>5 DEF SkillsInv

\* What is written into a directory leaves a directory.
LEMMA WriteDirectory ==
    ASSUME SkillsTyped, NEW n, NEW lang \in Langs, dir[n] # NoDir \/ n \notin Names,
           dir' = [dir EXCEPT ![n][lang] = writes + 1]
    PROVE  dir' \in [Names -> Dirs] /\ \A m \in Names : dir[m] # NoDir => dir'[m] # NoDir
<1>1. CASE n \notin Names
  BY <1>1 DEF SkillsTyped
<1>2. CASE n \in Names
  <2>1. CASE lang = "js"
    BY <1>2, <2>1 DEF SkillsTyped, Dirs, NoDir
  <2>2. CASE lang = "ts"
    BY <1>2, <2>2 DEF SkillsTyped, Dirs, NoDir
  <2>. QED  BY <2>1, <2>2 DEF Langs
<1>. QED  BY <1>1, <1>2

\* create_skill and update_skill write their files.
LEMMA WritesKeepSkills ==
    ASSUME SkillsInv, NEW t \in Threads,
           CreateManifest(t) \/ CreateHandler(t) \/ UpdateWrites(t)
    PROVE  SkillsInv'
<1>1. UNCHANGED <<reg, lists, kv, crossed, late>>
  BY DEF CreateManifest, CreateHandler, UpdateWrites
<1>2. th[t].at \notin Rebuilds \cup {"unregister", "clean"}
  BY DEF CreateManifest, CreateHandler, UpdateWrites, Doing, Rebuilds
<1>3. /\ Task(th[t]) /\ th[t] \in Shape
      /\ th[t].then = "idle" /\ th[t].lang \in Langs
  BY <1>2 DEF SkillsInv, SkillsTyped, Task, Shape
<1>4. writes' \in Nat /\ dir' \in [Names -> Dirs]
      /\ \A m \in Names : dir[m] # NoDir => dir'[m] # NoDir
  <2>1. CASE CreateManifest(t)
    <3>1. PICK n, lang : /\ n = th[t].name /\ lang = th[t].lang /\ writes' = writes + 1
                         /\ dir' = [dir EXCEPT ![n].md = writes + 1, ![n].lang = lang]
      BY <2>1 DEF CreateManifest
    <3>2. lang \in Langs /\ dir \in [Names -> Dirs] /\ writes \in Nat
      BY <1>3, <3>1 DEF SkillsInv, SkillsTyped
    <3>3. writes' \in Nat
      BY <3>1, <3>2
    <3>4. CASE n \notin Names
      <4>1. dir' = dir
        BY <3>1, <3>2, <3>4
      <4>. QED  BY <3>2, <3>3, <4>1
    <3>5. CASE n \in Names
      <4>1. dir' \in [Names -> Dirs]
        BY <3>1, <3>2, <3>5 DEF Dirs
      <4>2. dir'[n] # NoDir
        <5>1. dir'[n] = [dir[n] EXCEPT !.md = writes + 1, !.lang = lang]
          BY <3>1, <3>2, <3>5
        <5>2. dir'[n].md = writes + 1 /\ writes + 1 # 0
          BY <3>2, <3>5, <5>1 DEF Dirs
        <5>. QED  BY <5>2 DEF NoDir
      <4>3. \A m \in Names : m # n => dir'[m] = dir[m]
        BY <3>1, <3>2
      <4>. QED  BY <3>3, <4>1, <4>2, <4>3
    <3>. QED  BY <3>4, <3>5
  <2>2. CASE UNCHANGED files
    BY <2>2 DEF files, SkillsInv, SkillsTyped
  <2>3. CASE /\ dir[th[t].name] # NoDir /\ writes' = writes + 1
             /\ dir' = [dir EXCEPT ![th[t].name][th[t].lang] = writes + 1]
    <3>1. PICK n, lang : /\ n = th[t].name /\ lang = th[t].lang
                         /\ dir' = [dir EXCEPT ![n][lang] = writes + 1]
      BY <2>3
    <3>2. dir' \in [Names -> Dirs] /\ \A m \in Names : dir[m] # NoDir => dir'[m] # NoDir
      BY <1>3, <2>3, <3>1, WriteDirectory DEF SkillsInv
    <3>. QED  BY <2>3, <3>2 DEF SkillsInv, SkillsTyped
  <2>. QED  BY <2>1, <2>2, <2>3 DEF CreateHandler, UpdateWrites
<1>5. PICK r : Task(r) /\ th' = [th EXCEPT ![t] = r] /\ r.at \notin Rebuilds
  <2>1. CASE CreateManifest(t)
    <3>. DEFINE r == [th[t] EXCEPT !.at = "handler"]
    <3>1. Task(r) /\ r.at \notin Rebuilds
      BY <1>3 DEF Task, Shape, Stations, Rebuilds
    <3>. QED  BY <2>1, <3>1 DEF CreateManifest, Goto
  <2>2. CASE UpdateWrites(t)
    BY <2>2, IdleTask DEF UpdateWrites, Rebuilds
  <2>3. CASE CreateHandler(t)
    <3>1. CASE th' = [th EXCEPT ![t] = Idle]
      BY <3>1, IdleTask DEF Rebuilds
    <3>2. CASE th' = [th EXCEPT ![t].at = "register", ![t].seen[th[t].name] = writes + 1]
      <4>. DEFINE r == [th[t] EXCEPT !.at = "register", !.seen[th[t].name] = writes + 1]
      <4>1. Task(r) /\ r.at \notin Rebuilds
        <5>1. [th[t].seen EXCEPT ![th[t].name] = writes + 1] \in [Names -> Nat]
          <6>1. PICK n, seen : n = th[t].name /\ seen = th[t].seen
            OBVIOUS
          <6>2. seen \in [Names -> Nat] /\ writes + 1 \in Nat
            BY <1>3, <6>1 DEF Task, Shape, SkillsInv, SkillsTyped
          <6>. QED  BY <6>1, <6>2
        <5>2. r = [th[t] EXCEPT !.at = "register",
                                !.seen = [th[t].seen EXCEPT ![th[t].name] = writes + 1]]
          BY <1>3 DEF Task, Shape
        <5>. QED  BY <1>3, <5>1, <5>2 DEF Task, Shape, Stations, Rebuilds
      <4>2. th' = [th EXCEPT ![t] = r]
        BY <3>2, <1>3 DEF SkillsInv, SkillsTyped, Task, Shape
      <4>. QED  BY <4>1, <4>2
    <3>. QED  BY <2>3, <3>1, <3>2 DEF CreateHandler
  <2>. QED  BY <2>1, <2>2, <2>3
<1>6. /\ th' \in [Threads -> Shape] /\ (\A u \in Threads : Task(th'[u])) /\ ListInv'
      /\ \A u \in Threads : \A n : Deleting(u, n) => Deleting(u, n)'
  BY <1>1, <1>2, <1>5, GoesOn
<1>7. SkillsTyped'
  BY <1>1, <1>4, <1>6 DEF SkillsInv, SkillsTyped, lists
<1>8. ASSUME NEW n \in kv
      PROVE  dir'[n] # NoDir \/ n \in late \/ \E u \in Threads : Deleting(u, n)'
  BY <1>4, <1>6 DEF SkillsInv, SkillsTyped, RowsOwned
<1>9. RowsOwned'
  BY <1>1, <1>8 DEF RowsOwned
<1>. QED  BY <1>6, <1>7, <1>9 DEF SkillsInv

\* A tool call or a sync has changed the registry and is about to rebuild.
LEMMA RegistersKeepSkills ==
    ASSUME SkillsInv, NEW t \in Threads,
           CreateRegisters(t) \/ DeleteUnregisters(t) \/ SyncApplies(t)
    PROVE  SkillsInv'
<1>1. UNCHANGED <<files, lists, kv, crossed, late>>
  BY DEF CreateRegisters, DeleteUnregisters, SyncApplies
<1>2. th[t].at \notin Rebuilds /\ th[t] \in Shape /\ Task(th[t]) /\ th[t].then = "idle"
  BY DEF CreateRegisters, DeleteUnregisters, SyncApplies, Doing, Rebuilds, SkillsInv,
         SkillsTyped, Task, Shape
<1>3. reg' \in [Names -> [src : Nat, live : BOOLEAN]]
  <2>1. CASE CreateRegisters(t)
    <3>1. PICK n, src : src = th[t].seen[n] /\ n = th[t].name
                        /\ reg' = [reg EXCEPT ![n] = Closure(src, FALSE)]
      BY <2>1 DEF CreateRegisters
    <3>2. n \in Names => Closure(src, FALSE) \in [src : Nat, live : BOOLEAN]
      BY <1>2, <3>1 DEF Closure, Shape
    <3>3. reg \in [Names -> [src : Nat, live : BOOLEAN]]
      BY DEF SkillsInv, SkillsTyped
    <3>. QED  BY <3>1, <3>2, <3>3
  <2>2. CASE DeleteUnregisters(t)
    BY <2>2 DEF DeleteUnregisters, NoTool, SkillsInv, SkillsTyped
  <2>3. CASE SyncApplies(t)
    <3>1. \A n \in Names : th[t].seen[n] \in Nat
      BY <1>2 DEF Shape
    <3>2. \A n \in Names : Closure(th[t].seen[n], TRUE) \in [src : Nat, live : BOOLEAN]
      BY <3>1 DEF Closure
    <3>3. NoTool \in [src : Nat, live : BOOLEAN]
      BY DEF NoTool
    <3>. QED  BY <2>3, <3>2, <3>3 DEF SyncApplies, SkillsInv, SkillsTyped
  <2>. QED  BY <2>1, <2>2, <2>3
<1>4. CASE CreateRegisters(t)
  <2>. DEFINE r == [th[t] EXCEPT !.at = "rebuild"]
  <2>1. th' = [th EXCEPT ![t] = r]
    BY <1>4 DEF CreateRegisters, Goto
  <2>2. Task(r) /\ r.at = "rebuild" /\ r.name = th[t].name
    BY <1>2 DEF Task, Shape, Stations, Rebuilds
  <2>. HIDE DEF r
  <2>3. \A u \in Threads : \A n : Deleting(u, n) => Deleting(u, n)'
    <3>1. \A u \in Threads : u # t => th'[u] = th[u]
      BY <2>1, <2>2, Moves DEF SkillsInv
    <3>2. \A u \in Threads : u # t => \A n : Deleting(u, n) => Deleting(u, n)'
      BY <3>1 DEF Deleting, Doing
    <3>3. \A n : ~Deleting(t, n)
      BY <1>2, <1>4 DEF Deleting, Doing, CreateRegisters
    <3>. QED  BY <3>2, <3>3
  <2>. QED  BY <1>1, <1>3, <2>1, <2>2, <2>3, Moves, RebuildBegins, RowsStay
            DEF SkillsInv, SkillsTyped, files, lists
<1>5. CASE DeleteUnregisters(t)
  <2>. DEFINE r == [th[t] EXCEPT !.at = "rebuild", !.then = "clean"]
  <2>1. th' = [th EXCEPT ![t] = r]
    BY <1>5 DEF DeleteUnregisters
  <2>2. Task(r) /\ r.at = "rebuild" /\ r.then = "clean" /\ r.name = th[t].name
    BY <1>2 DEF Task, Shape, Stations, Rebuilds
  <2>. HIDE DEF r
  <2>3. th'[t] = r /\ \A u \in Threads : u # t => th'[u] = th[u]
    BY <2>1, <2>2, Moves DEF SkillsInv
  <2>4. \A n : Deleting(t, n) => Deleting(t, n)'
    BY <2>2, <2>3 DEF Deleting
  <2>5. \A u \in Threads : \A n : Deleting(u, n) => Deleting(u, n)'
    <3>1. \A u \in Threads : u # t => \A n : Deleting(u, n) => Deleting(u, n)'
      BY <2>3 DEF Deleting, Doing
    <3>. QED  BY <2>4, <3>1
  <2>. QED  BY <1>1, <1>3, <2>1, <2>2, <2>5, Moves, RebuildBegins, RowsStay
            DEF SkillsInv, SkillsTyped, files, lists
<1>6. CASE SyncApplies(t)
  <2>1. \A n : ~Deleting(t, n)
    BY <1>2, <1>6 DEF SyncApplies, Deleting, Doing
  <2>2. CASE Added(t) \cup Updated(t) \cup Removed(t) = {}
    <3>1. th' = [th EXCEPT ![t] = Idle]
      BY <1>6, <2>2 DEF SyncApplies
    <3>2. reg' = reg
      BY <1>6, <2>2 DEF SyncApplies, SkillsInv, SkillsTyped
    <3>3. th[t].at \notin Rebuilds \cup {"unregister", "clean"}
      BY <1>6 DEF SyncApplies, Doing, Rebuilds
    <3>. QED  BY <1>1, <3>1, <3>2, <3>3, GoesOn, RowsStay, IdleTask
              DEF SkillsInv, SkillsTyped, Rebuilds, files, lists
  <2>3. CASE Added(t) \cup Updated(t) \cup Removed(t) # {}
    <3>. DEFINE r == [Idle EXCEPT !.at = "rebuild"]
    <3>1. th' = [th EXCEPT ![t] = r]
      BY <1>6, <2>3 DEF SyncApplies
    <3>2. Task(r) /\ r.at = "rebuild"
      BY IdleTask DEF Task, Shape, Stations, Rebuilds
    <3>. HIDE DEF r
    <3>3. \A u \in Threads : \A n : Deleting(u, n) => Deleting(u, n)'
      BY <2>1, <3>1, <3>2, Moves DEF Deleting, Doing, SkillsInv
    <3>. QED  BY <1>1, <1>3, <3>1, <3>2, <3>3, Moves, RebuildBegins, RowsStay
              DEF SkillsInv, SkillsTyped, files, lists
  <2>. QED  BY <2>2, <2>3
<1>. QED  BY <1>4, <1>5, <1>6

\* A deletion removes the directory, and its rows last.
LEMMA DeletionsKeepSkills ==
    ASSUME SkillsInv, NEW t \in Threads,
           DeleteRows(t) \/ \E n \in Names : DeleteDir(t, n)
    PROVE  SkillsInv'
<1>1. UNCHANGED <<writes, reg, lists, crossed>> /\ th[t].at \notin Rebuilds
  BY DEF DeleteRows, DeleteDir, files, Doing, Rebuilds
<1>2. CASE DeleteRows(t)
  <2>1. th' = [th EXCEPT ![t] = Idle] /\ dir' = dir /\ kv' \subseteq kv
    BY <1>2 DEF DeleteRows, files
  <2>2. /\ th' \in [Threads -> Shape] /\ th'[t] = Idle
        /\ \A u \in Threads : u # t => th'[u] = th[u]
    BY <2>1, IdleTask, Moves DEF SkillsInv
  <2>3. ListInv'
    BY <1>1, <2>2, IdleTask, ListsStay DEF SkillsInv, Rebuilds
  <2>4. SkillsTyped'
    BY <1>1, <2>1, <2>2, IdleTask DEF SkillsInv, SkillsTyped, lists
  <2>5. RowsOwned'
    <3>1. ASSUME NEW n \in kv'
          PROVE  dir[n] # NoDir \/ n \in late' \/ \E u \in Threads : Deleting(u, n)'
      <4>1. CASE n = th[t].name
        BY <1>2, <3>1, <4>1 DEF DeleteRows
      <4>2. CASE n # th[t].name
        <5>1. n \in late => n \in late'
          BY <1>2, <4>2 DEF DeleteRows
        <5>2. \A u \in Threads : Deleting(u, n) => Deleting(u, n)'
          BY <2>2, <4>2 DEF Deleting, Doing
        <5>. QED  BY <2>1, <3>1, <5>1, <5>2 DEF SkillsInv, RowsOwned
      <4>. QED  BY <4>1, <4>2
    <3>. QED  BY <2>1, <3>1 DEF RowsOwned
  <2>. QED  BY <2>3, <2>4, <2>5 DEF SkillsInv
<1>3. ASSUME NEW n \in Names, DeleteDir(t, n) PROVE SkillsInv'
  <2>. DEFINE r == [Idle EXCEPT !.at = "unregister", !.name = n]
  <2>1. th' = [th EXCEPT ![t] = r] /\ dir' = [dir EXCEPT ![n] = NoDir]
        /\ UNCHANGED <<kv, late>> /\ th[t].at = "idle"
    BY <1>3 DEF DeleteDir, Start, Doing
  <2>2. Task(r) /\ r.at = "unregister" /\ r.name = n
    BY IdleTask DEF Task, Shape, Stations, Rebuilds
  <2>. HIDE DEF r
  <2>3. /\ th' \in [Threads -> Shape] /\ (\A u \in Threads : Task(th'[u])) /\ ListInv'
        /\ \A u \in Threads : \A m : Deleting(u, m) => Deleting(u, m)'
    BY <1>1, <2>1, <2>2, GoesOn DEF Rebuilds
  <2>4. dir' \in [Names -> Dirs]
    BY <2>1 DEF SkillsInv, SkillsTyped, NoDir, Dirs, Langs
  <2>5. SkillsTyped'
    BY <1>1, <2>1, <2>3, <2>4 DEF SkillsInv, SkillsTyped, lists
  <2>6. Deleting(t, n)'
    BY <2>1, <2>2, Moves DEF Deleting, Doing, SkillsInv
  <2>7. ASSUME NEW m \in kv
        PROVE  dir'[m] # NoDir \/ m \in late \/ \E u \in Threads : Deleting(u, m)'
    BY <2>1, <2>3, <2>6 DEF SkillsInv, SkillsTyped, RowsOwned
  <2>. QED  BY <2>1, <2>3, <2>5, <2>7 DEF SkillsInv, RowsOwned
<1>. QED  BY <1>2, <1>3

\* The lists are made from what the registry held.
LEMMA RebuildsKeepSkills ==
    ASSUME SkillsInv, NEW t \in Threads, ReadRegistry(t) \/ UpdateLists(t)
    PROVE  SkillsInv'
<1>1. UNCHANGED <<files, reg, kv, late>> /\ th[t].at \in Rebuilds
  BY DEF ReadRegistry, UpdateLists, Doing, Rebuilds
<1>2. Task(th[t]) /\ th[t] \in Shape
  BY DEF SkillsInv, SkillsTyped
<1>3. Skilled' = Skilled /\ (crossed' <=> crossed \/ Rebuilding # {t})
  BY <1>1 DEF ReadRegistry, UpdateLists, Skilled, Registered, SkillsInv
<1>4. CASE ReadRegistry(t)
  <2>. DEFINE seen == [n \in Names |-> IF Registered(n) THEN 1 ELSE 0]
              r == [th[t] EXCEPT !.at = "update lists", !.seen = seen]
  <2>1. th' = [th EXCEPT ![t] = r] /\ UNCHANGED lists
    BY <1>4 DEF ReadRegistry
  <2>2. seen \in [Names -> Nat] /\ \A n \in Names : seen[n] = 1 <=> Registered(n)
    OBVIOUS
  <2>. HIDE DEF seen
  <2>3. /\ Task(r) /\ r.at = "update lists" /\ r.seen = seen
        /\ r.name = th[t].name /\ r.then = th[t].then
    BY <1>2, <2>2 DEF Task, Shape, Stations, Rebuilds
  <2>. HIDE DEF r
  <2>4. /\ th' \in [Threads -> Shape] /\ th'[t] = r
        /\ \A u \in Threads : u # t => th'[u] = th[u]
    BY <2>1, <2>3, Moves DEF SkillsInv
  <2>5. SkillsTyped'
    BY <1>1, <2>1, <2>3, <2>4 DEF SkillsInv, SkillsTyped, files, lists
  <2>6. ListInv'
    <3>1. t \in Rebuilding'
      BY <2>3, <2>4 DEF Rebuilding
    <3>2. Fresh(t)'
      BY <1>1, <2>2, <2>3, <2>4 DEF Fresh, Registered
    <3>3. \A u \in Threads : Rebuilding' = {u} => u = t
      BY <3>1
    <3>. QED  BY <3>1, <3>2, <3>3 DEF ListInv
  <2>7. \A n : Deleting(t, n) => Deleting(t, n)'
    BY <1>4, <2>3, <2>4 DEF Deleting, ReadRegistry, Doing
  <2>8. \A u \in Threads : u # t => \A n : Deleting(u, n) => Deleting(u, n)'
    BY <2>4 DEF Deleting, Doing
  <2>. QED  BY <1>1, <2>5, <2>6, <2>7, <2>8, RowsStay DEF SkillsInv, files
<1>5. CASE UpdateLists(t)
  <2>1. PICK r : /\ Task(r) /\ r.at \notin Rebuilds /\ th' = [th EXCEPT ![t] = r]
                 /\ th[t].then = "clean" => r.at = "clean" /\ r.name = th[t].name
    <3>1. CASE th[t].then = "idle"
      <4>1. th' = [th EXCEPT ![t] = Idle]
        BY <1>5, <3>1 DEF UpdateLists
      <4>. QED  BY <3>1, <4>1, IdleTask DEF Rebuilds
    <3>2. CASE th[t].then = "clean"
      <4>. DEFINE r == [Idle EXCEPT !.at = "clean", !.name = th[t].name]
      <4>1. th' = [th EXCEPT ![t] = r]
        BY <1>5, <3>2 DEF UpdateLists, Start
      <4>2. Task(r) /\ r.at = "clean" /\ r.name = th[t].name
        BY <1>2, IdleTask DEF Task, Shape, Stations, Rebuilds
      <4>. HIDE DEF r
      <4>. QED  BY <4>1, <4>2 DEF Rebuilds
    <3>. QED  BY <1>2, <3>1, <3>2 DEF Shape
  <2>2. /\ th' \in [Threads -> Shape] /\ th'[t] = r
        /\ \A u \in Threads : u # t => th'[u] = th[u]
    BY <2>1, Moves DEF SkillsInv
  <2>3. unembedded' = unembedded + 1 /\ embedding' = embedding
    BY <1>5 DEF UpdateLists
  <2>4. SkillsTyped'
    BY <1>1, <2>1, <2>2, <2>3 DEF SkillsInv, SkillsTyped, files
  <2>5. ASSUME ~crossed' PROVE /\ Rebuilding' = {} /\ allowed' = Skilled'
                               /\ unembedded' # 0
    <3>1. ~crossed /\ Rebuilding = {t}
      BY <1>3, <2>5
    <3>2. Rebuilding' = {}
      BY <2>1, <2>2, <3>1 DEF Rebuilding, Rebuilds
    <3>3. Fresh(t)
      BY <1>5, <3>1 DEF SkillsInv, ListInv, UpdateLists
    <3>4. allowed' = Skilled
      BY <1>5, <3>3 DEF UpdateLists, Fresh, Skilled
    <3>. QED  BY <1>3, <2>3, <3>2, <3>4 DEF SkillsInv, SkillsTyped
  <2>6. ListInv'
    BY <2>5 DEF ListInv
  <2>7. \A n : Deleting(t, n) => Deleting(t, n)'
    <3>1. th[t].at \notin {"clean", "unregister"}
      BY <1>5 DEF UpdateLists, Doing
    <3>. QED  BY <2>1, <2>2, <3>1 DEF Deleting, Doing
  <2>8. \A u \in Threads : u # t => \A n : Deleting(u, n) => Deleting(u, n)'
    BY <2>2 DEF Deleting, Doing
  <2>. QED  BY <1>1, <2>4, <2>6, <2>7, <2>8, RowsStay DEF SkillsInv, files
<1>. QED  BY <1>4, <1>5

\* The descriptions are embedded again.
LEMMA EmbedsKeepSkills ==
    ASSUME SkillsInv, EmbedReads \/ \E s \in SUBSET Names : EmbedEnds(s)
    PROVE  SkillsInv'
<1>1. UNCHANGED <<files, reg, th, allowed, kv, late>>
  BY DEF EmbedReads, EmbedEnds
<1>2. RowsOwned'
  BY <1>1 DEF SkillsInv, RowsOwned, Deleting, Doing, files
<1>3. Rebuilding' = Rebuilding /\ Skilled' = Skilled /\ (crossed => crossed')
      /\ \A t \in Threads : (Doing(t, "update lists") <=> Doing(t, "update lists")')
                            /\ (Fresh(t) <=> Fresh(t)')
  <2>1. Rebuilding' = Rebuilding /\ Skilled' = Skilled
    BY <1>1 DEF Rebuilding, Skilled, Registered
  <2>2. crossed => crossed'
    BY DEF EmbedReads, EmbedEnds
  <2>3. \A t \in Threads : (Doing(t, "update lists") <=> Doing(t, "update lists")')
    BY <1>1 DEF Doing
  <2>4. \A t \in Threads : (Fresh(t) <=> Fresh(t)')
    BY <1>1 DEF Fresh, Registered
  <2>. QED  BY <2>1, <2>2, <2>3, <2>4
<1>4. Skilled \in SUBSET Names
  BY DEF Skilled
<1>5. CASE EmbedReads
  <2>1. SkillsTyped'
    BY <1>1, <1>4, <1>5 DEF EmbedReads, SkillsInv, SkillsTyped, files
  <2>2. ASSUME ~crossed' PROVE EmbedsCurrent'
    <3>1. ASSUME NEW s \in SUBSET Names PROVE embedding[s] = 0
      <4>1. embedding[s] \in Nat
        BY DEF SkillsInv, SkillsTyped
      <4>2. ~(embedding[s] > 0)
        BY <1>5, <2>2 DEF EmbedReads
      <4>. QED  BY <4>1, <4>2
    <3>2. embedding' = [embedding EXCEPT ![Skilled] = @ + 1]
      BY <1>5 DEF EmbedReads
    <3>3. embedding'[Skilled] = 1 /\ \A s \in SUBSET Names : s # Skilled => embedding'[s] = 0
      BY <1>4, <3>1, <3>2 DEF SkillsInv, SkillsTyped
    <3>4. Skilled' = Skilled
      BY <1>3
    <3>. QED  BY <1>4, <3>3, <3>4 DEF EmbedsCurrent
  <2>3. ListInv'
    BY <1>1, <1>3, <2>2 DEF SkillsInv, ListInv
  <2>. QED  BY <1>2, <2>1, <2>3 DEF SkillsInv
<1>6. ASSUME NEW s \in SUBSET Names, EmbedEnds(s) PROVE SkillsInv'
  <2>1. /\ embedding[s] > 0 /\ embedding' = [embedding EXCEPT ![s] = @ - 1]
        /\ unembedded' = unembedded
    BY <1>6 DEF EmbedEnds
  <2>2. SkillsTyped'
    BY <1>1, <2>1 DEF SkillsInv, SkillsTyped, files
  <2>3. ASSUME ~crossed', EmbedsCurrent PROVE EmbedsCurrent'
    <3>1. offered' = s
      BY <1>6, <2>3 DEF EmbedEnds
    <3>2. s = Skilled /\ embedding[s] = 1
      BY <2>1, <2>3 DEF EmbedsCurrent, SkillsInv, SkillsTyped
    <3>3. embedding'[s] = 0 /\ \A q \in SUBSET Names : q # s => embedding'[q] = embedding[q]
      BY <2>1, <3>2 DEF SkillsInv, SkillsTyped
    <3>. QED  BY <1>3, <2>3, <3>1, <3>2, <3>3 DEF EmbedsCurrent
  <2>4. ListInv'
    BY <1>1, <1>3, <2>1, <2>3 DEF SkillsInv, ListInv
  <2>. QED  BY <1>2, <2>2, <2>4 DEF SkillsInv
<1>. QED  BY <1>5, <1>6

\* A program written into a skill's record leaves a skill's record.
LEMMA WriteProgram ==
    ASSUME NEW d \in Dirs, d.md # 0, NEW lang \in Langs, NEW w \in Nat
    PROVE  [d EXCEPT ![lang] = w] \in Dirs /\ [d EXCEPT ![lang] = w] # NoDir
<1>1. CASE lang = "js"
  BY <1>1 DEF Dirs, NoDir
<1>2. CASE lang = "ts"
  BY <1>2 DEF Dirs, NoDir
<1>. QED  BY <1>1, <1>2 DEF Langs

\* The owner edits the directories.
LEMMA EditsKeepSkills ==
    ASSUME SkillsInv, NEW n \in Names, UserInstalls(n) \/ UserTouches(n) \/ UserRemoves(n)
    PROVE  SkillsInv'
<1>1. UNCHANGED <<reg, th, lists, kv, crossed>>
  BY DEF UserInstalls, UserTouches, UserRemoves
<1>2. ListInv'
  BY <1>1, ListsStay DEF SkillsInv
<1>3. /\ writes' \in Nat /\ dir' \in [Names -> Dirs]
      /\ \A m \in Names : m # n => dir'[m] = dir[m]
      /\ UserRemoves(n) \/ dir'[n] # NoDir
  <2>1. CASE UserTouches(n)
    BY <2>1 DEF UserTouches, SkillsInv, SkillsTyped, Dirs, NoDir
  <2>2. CASE UserRemoves(n)
    BY <2>2 DEF UserRemoves, SkillsInv, SkillsTyped, Dirs, NoDir, Langs
  <2>3. CASE UserInstalls(n)
    <3>1. PICK lang \in Langs, kept \in Langs :
            dir' = [dir EXCEPT ![n] = [NoDir EXCEPT !.md = writes + 1, !.lang = lang,
                                                    ![kept] = writes + 2]]
      BY <2>3 DEF UserInstalls
    <3>. DEFINE e == [NoDir EXCEPT !.md = writes + 1, !.lang = lang]
                d == [e EXCEPT ![kept] = writes + 2]
    <3>2. writes + 1 \in Nat /\ writes + 2 \in Nat /\ writes + 1 # 0
      BY DEF SkillsInv, SkillsTyped
    <3>3. e \in Dirs /\ e.md # 0
      BY <3>2 DEF Dirs, NoDir
    <3>4. dir' = [dir EXCEPT ![n] = d]
      BY <3>1
    <3>. HIDE DEF e
    <3>5. d \in Dirs /\ d # NoDir
      BY <3>2, <3>3, WriteProgram
    <3>. HIDE DEF d
    <3>. QED  BY <2>3, <3>2, <3>4, <3>5 DEF UserInstalls, SkillsInv, SkillsTyped
  <2>. QED  BY <2>1, <2>2, <2>3
<1>4. SkillsTyped'
  BY <1>1, <1>3 DEF SkillsInv, SkillsTyped, lists
<1>5. late \subseteq late' /\ (UserRemoves(n) => kv \cap {n} \subseteq late')
  BY DEF UserInstalls, UserTouches, UserRemoves
<1>6. \A t \in Threads : \A m : Deleting(t, m) <=> Deleting(t, m)'
  BY <1>1 DEF Deleting, Doing
<1>7. RowsOwned'
  BY <1>1, <1>3, <1>5, <1>6 DEF SkillsInv, SkillsTyped, RowsOwned
<1>. QED  BY <1>2, <1>4, <1>7 DEF SkillsInv

\* A start registers what is on disk; its deletions are over.
LEMMA RestartKeepsSkills ==
    ASSUME SkillsInv, Restart
    PROVE  SkillsInv'
<1>1. /\ \A t \in Threads : th'[t] = Idle
      /\ th' = [t \in Threads |-> Idle] /\ UNCHANGED <<files, kv>>
  BY DEF Restart
<1>2. th' \in [Threads -> Shape] /\ \A t \in Threads : Task(th'[t])
  BY <1>1, IdleTask
<1>3. /\ reg' \in [Names -> [src : Nat, live : BOOLEAN]]
      /\ \A n \in Names : Registered(n)' <=> Loads(dir[n])
  BY DEF Restart, Registered, Closure, NoTool, Loads, SourceOf, SkillsInv, SkillsTyped, Dirs
<1>4. SkillsTyped'
  BY <1>1, <1>2, <1>3 DEF Restart, SkillsInv, SkillsTyped, files
<1>5. Rebuilding' = {}
  BY <1>1, IdleTask DEF Rebuilding
<1>6. Skilled' = allowed' /\ offered' = allowed'
  BY <1>3 DEF Skilled, Restart
<1>7. \A s \in SUBSET Names : embedding'[s] = 0
  BY DEF Restart
<1>8. ListInv'
  BY <1>5, <1>6, <1>7 DEF ListInv, EmbedsCurrent
<1>9. RowsOwned'
  BY <1>1 DEF RowsOwned, Restart, files
<1>. QED  BY <1>4, <1>8, <1>9 DEF SkillsInv

\* At the start the lists are those of the skills loaded from disk.
LEMMA InitSkills == SkillsInit => SkillsInv
<1>. SUFFICES ASSUME SkillsInit PROVE SkillsInv
  OBVIOUS
<1>1. SkillsTyped
  BY IdleTask DEF SkillsInit, SkillsTyped, NoDir, NoTool, Dirs, Langs
<1>2. Skilled = {} /\ Rebuilding = {}
  BY IdleTask DEF SkillsInit, Skilled, Registered, NoTool, Rebuilding
<1>3. ListInv
  BY <1>2 DEF SkillsInit, ListInv, EmbedsCurrent
<1>. QED  BY <1>1, <1>3 DEF SkillsInit, SkillsInv, RowsOwned

\* Every step keeps the lists current and the rows owned.
LEMMA NextSkills == SkillsInv /\ [SkillsNext]_skillsVars => SkillsInv'
<1>. SUFFICES ASSUME SkillsInv, [SkillsNext]_skillsVars PROVE SkillsInv'
  OBVIOUS
<1>1. CASE UNCHANGED skillsVars
  <2>1. UNCHANGED <<dir, writes, reg, mtimes, th, allowed, offered, unembedded, embedding,
                    kv, crossed, late>>
    BY <1>1 DEF skillsVars, files, lists
  <2>2. Skilled' = Skilled /\ Rebuilding' = Rebuilding
    BY <2>1 DEF Skilled, Registered, Rebuilding
  <2>3. SkillsTyped'
    BY <2>1 DEF SkillsInv, SkillsTyped
  <2>4. ListInv'
    BY <2>1, ListsStay DEF SkillsInv, lists
  <2>5. RowsOwned'
    BY <2>1, RowsStay DEF SkillsInv, Deleting, Doing
  <2>. QED  BY <2>3, <2>4, <2>5 DEF SkillsInv
<1>2. ASSUME NEW t \in Threads, SkillStep(t) PROVE SkillsInv'
  <2>1. \/ (\E n \in Names : StartRun(t, n) \/ CreateStarts(t, n) \/ UpdateStarts(t, n))
           \/ EndRun(t) \/ TestFails(t) \/ SyncLoads(t)
        \/ KvSet(t) \/ KvDelete(t)
        \/ CreateManifest(t) \/ CreateHandler(t) \/ UpdateWrites(t)
        \/ CreateRegisters(t) \/ DeleteUnregisters(t) \/ SyncApplies(t)
        \/ DeleteRows(t) \/ (\E n \in Names : DeleteDir(t, n))
        \/ ReadRegistry(t) \/ UpdateLists(t)
    BY <1>2 DEF SkillStep
  <2>. QED  BY <2>1, RunsKeepSkills, KvKeepsSkills, WritesKeepSkills, RegistersKeepSkills,
               DeletionsKeepSkills, RebuildsKeepSkills
<1>3. CASE EmbedReads \/ \E s \in SUBSET Names : EmbedEnds(s)
  BY <1>3, EmbedsKeepSkills
<1>4. CASE \E n \in Names : UserInstalls(n) \/ UserTouches(n) \/ UserRemoves(n)
  BY <1>4, EditsKeepSkills
<1>5. CASE Restart
  BY <1>5, RestartKeepsSkills
<1>. QED  BY <1>1, <1>2, <1>3, <1>4, <1>5 DEF SkillsNext

\* So both hold in every reachable state.
LEMMA SkillsInvariant == SkillsSpec => []SkillsInv
BY InitSkills, NextSkills, PTL DEF SkillsSpec

\* Whatever the order in which creations, deletions, syncs and re-embeddings took
\* their steps, the delegate's list and the embedded list hold the registered
\* skills when no change is half made, unless two rebuilds or two re-embeddings
\* were under way at once or a re-embedding failed.
THEOREM ListsFollowRegistry == SkillsSpec => []ListsCurrent
<1>1. SkillsInv => ListsCurrent
  <2>1. Quiet => Rebuilding = {}
    BY DEF Quiet, Rebuilding
  <2>. QED  BY <2>1 DEF SkillsInv, ListInv, EmbedsCurrent, ListsCurrent
<1>. QED  BY <1>1, SkillsInvariant, PTL

\* Rows of a skill without a directory are still to be deleted, or were written
\* when no deletion was to come, or their deletion failed.
THEOREM RowsHaveOwners == SkillsSpec => []RowsOwned
<1>1. SkillsInv => RowsOwned
  BY DEF SkillsInv
<1>. QED  BY <1>1, SkillsInvariant, PTL
-----------------------------------------------------------------------------
(***************************************************************************)
(* The profile.                                                            *)
(***************************************************************************)
\* Each of the two goroutines has its own record, of the fields of Resting.
Fields == {"at", "kind", "left", "base", "new", "got", "excused"}
RunShape ==
    /\ DOMAIN run = Runs
    /\ \A c \in Runs : DOMAIN run[c] = Fields

NInv == RunShape /\ NudgeKept

\* The heartbeat takes the nudge and is about to read; the other goroutine is
\* not touched.
LEMMA CognitiveNInv == ASSUME NInv, Cognitive PROVE NInv'
BY DEF Cognitive, NInv, RunShape, NudgeKept, Runs, Fields

\* The other goroutine leaves its rest for any place.
LEMMA BeginNInv ==
    ASSUME NInv, NEW kind, NEW at, run["other"].at = "rest", Begin(kind, at),
           unread' = unread, nudging' = nudging, nudge' = nudge
    PROVE  NInv'
BY DEF Begin, NInv, RunShape, NudgeKept, Runs, Fields, Resting

\* A goroutine that is not about to read goes on, and reads nothing.
LEMMA GoesOnNInv ==
    ASSUME NInv, NEW c \in Runs, run[c].at # "query", UNCHANGED memories,
           RunShape', \A d \in Runs : d # c => run'[d].at = run[d].at
    PROVE  NInv'
BY DEF NInv, NudgeKept, memories, Runs

\* The reading of the memories: everything unread has now been read.
LEMMA QueryNInv == ASSUME NInv, NEW c \in Runs, Query(c) PROVE NInv'
BY DEF Query, NInv, RunShape, NudgeKept, Runs, Fields

\* A step of a consolidation, or its failure, leaves its nudge where it is.
LEMMA StepNInv ==
    ASSUME NInv, NEW c \in Runs, Step(c) \/ Fail(c) \/ Rollback(c)
    PROVE  NInv'
<1>1. CASE c = "other" /\ Transition
  <2>1. RunShape' /\ \A d \in Runs : d # c => run'[d].at = run[d].at
    BY <1>1 DEF Transition, NInv, RunShape, Runs, Fields, Resting
  <2>. QED  BY <1>1, <2>1, GoesOnNInv DEF Transition
<1>2. CASE c = "other" /\ BootstrapAttempt
  <2>1. RunShape' /\ \A d \in Runs : d # c => run'[d].at = run[d].at
    BY <1>2 DEF BootstrapAttempt, NInv, RunShape, Runs, Fields
  <2>. QED  BY <1>2, <2>1, GoesOnNInv DEF BootstrapAttempt
<1>3. CASE Query(c)
  BY <1>3, QueryNInv
<1>4. CASE Batch(c)
  <2>1. RunShape' /\ \A d \in Runs : d # c => run'[d].at = run[d].at
    BY <1>4 DEF Batch, NInv, RunShape, Runs, Fields
  <2>. QED  BY <1>4, <2>1, GoesOnNInv DEF Batch
<1>5. CASE Carry(c)
  <2>1. RunShape' /\ \A d \in Runs : d # c => run'[d].at = run[d].at
    BY <1>5 DEF Carry, NInv, RunShape, Runs, Fields
  <2>. QED  BY <1>5, <2>1, GoesOnNInv DEF Carry
<1>6. CASE WriteBegins(c)
  <2>1. RunShape' /\ \A d \in Runs : d # c => run'[d].at = run[d].at
    BY <1>6 DEF WriteBegins, NInv, RunShape, Runs, Fields
  <2>. QED  BY <1>6, <2>1, GoesOnNInv DEF WriteBegins
<1>7. CASE Commit(c)
  <2>1. RunShape' /\ \A d \in Runs : d # c => run'[d].at = run[d].at
    BY <1>7 DEF Commit, NInv, RunShape, Runs, Fields
  <2>. QED  BY <1>7, <2>1, GoesOnNInv DEF Commit
<1>8. CASE Ends(c)
  <2>1. RunShape' /\ \A d \in Runs : d # c => run'[d].at = run[d].at
    BY <1>8 DEF Ends, NInv, RunShape, Runs, Fields, Resting
  <2>. QED  BY <1>8, <2>1, GoesOnNInv DEF Ends
<1>9. CASE Refresh(c)
  <2>1. RunShape' /\ \A d \in Runs : d # c => run'[d].at = run[d].at
    BY <1>9 DEF Refresh, NInv, RunShape, Runs, Fields, Resting
  <2>. QED  BY <1>9, <2>1, GoesOnNInv DEF Refresh
<1>10. CASE Fail(c)
  <2>1. RunShape' /\ \A d \in Runs : d # c => run'[d].at = run[d].at
    BY <1>10 DEF Fail, NInv, RunShape, Runs, Fields, Resting
  <2>. QED  BY <1>10, <2>1, GoesOnNInv DEF Fail
<1>11. CASE Rollback(c)
  <2>1. RunShape' /\ \A d \in Runs : d # c => run'[d].at = run[d].at
    BY <1>11 DEF Rollback, NInv, RunShape, Runs, Fields
  <2>. QED  BY <1>11, <2>1, GoesOnNInv DEF Rollback
<1>. QED
  BY <1>1, <1>2, <1>3, <1>4, <1>5, <1>6, <1>7, <1>8, <1>9, <1>10, <1>11 DEF Step

\* Preferences, and the steps of triage.
LEMMA QuietNInv ==
    ASSUME NInv, run' = run,
           \/ UNCHANGED memories
           \/ \E p \in People : Save(p) \/ Nudge(p)
    PROVE  NInv'
BY DEF NInv, RunShape, NudgeKept, memories, Save, Nudge

\* Every step keeps the nudges.
LEMMA NextNInv == NInv /\ [Next]_vars => NInv'
<1>. SUFFICES ASSUME NInv, [Next]_vars PROVE NInv'
  OBVIOUS
<1>1. ASSUME NEW p \in People, Save(p) \/ Nudge(p) PROVE NInv'
  BY <1>1, QuietNInv DEF Save, Nudge
<1>2. ASSUME NEW p \in People, Shift(p) PROVE NInv'
  BY <1>2, BeginNInv DEF Shift
<1>3. CASE Cognitive
  BY <1>3, CognitiveNInv
<1>4. CASE ConsolidateMemory \/ InitialConsolidation \/ Bootstrap
  BY <1>4, BeginNInv
     DEF ConsolidateMemory, InitialConsolidation, Bootstrap, memories
<1>5. CASE ManagePersonality \/ PreferenceFastPath
  <2>1. PICK v \in Values \cup {"none"}, kind \in {"tool trait", "fast path"} :
          SetTrait(v, kind)
    BY <1>5 DEF ManagePersonality, PreferenceFastPath
  <2>. QED  BY <2>1, BeginNInv DEF SetTrait, memories
<1>6. CASE SetPreference \/ RefreshPrefs
  BY <1>6, QuietNInv DEF SetPreference, SetPref, RefreshPrefs
<1>7. ASSUME NEW c \in Runs, Step(c) \/ Fail(c) \/ Rollback(c) PROVE NInv'
  BY <1>7, StepNInv
<1>8. CASE UNCHANGED vars
  BY <1>8, QuietNInv DEF vars
<1>. QED
  BY <1>1, <1>2, <1>3, <1>4, <1>5, <1>6, <1>7, <1>8 DEF Next

\* A memory that no consolidation has read is never forgotten: its nudge is to
\* come, is there, or was taken by a run that has yet to read, whatever fails
\* and however triage, the heartbeat and the tools interleave.
THEOREM NudgesKept == Spec => []NudgeKept
<1>1. Init => NInv
  BY DEF Init, NInv, RunShape, NudgeKept, Runs, Fields, Resting
<1>2. NInv => NudgeKept
  BY DEF NInv
<1>. QED  BY <1>1, <1>2, NextNInv, PTL DEF Spec
-----------------------------------------------------------------------------
(***************************************************************************)
(* The people of the profile.  A consolidation keeps the profile it started *)
(* from as base, and its transaction writes a row that is committed later, *)
(* when it supersedes the rows it saw.  Drop renumbers the rows that are left, *)
(* so the order and the number of the rows are argued about first.         *)
(***************************************************************************)
\* Members of a finite set of integers have different places, counted from 1,
\* and every place has its member.
LEMMA PlaceOf ==
    ASSUME NEW S, IsFiniteSet(S), S \subseteq Int, NEW i \in S
    PROVE  /\ Place(S, i) \in 1..Cardinality(S)
           /\ \A j \in S : Place(S, i) = Place(S, j) => i = j
<1>. DEFINE Upto(j) == {x \in S : x <= j}
<1>1. ASSUME NEW j \in S
      PROVE  /\ IsFiniteSet(Upto(j)) /\ Place(S, j) = Cardinality(Upto(j))
             /\ Cardinality(Upto(j)) \in Nat /\ Cardinality(Upto(j)) <= Cardinality(S)
  <2>1. IsFiniteSet(Upto(j)) /\ Cardinality(Upto(j)) <= Cardinality(S)
    <3>1. Upto(j) \in SUBSET S
      OBVIOUS
    <3>. HIDE DEF Upto
    <3>. QED  BY <3>1, FS_Subset
  <2>. QED  BY <2>1, FS_CardinalityType DEF Place
<1>2. Cardinality(S) \in Nat
  BY FS_CardinalityType
<1>3. i \in Upto(i)
  OBVIOUS
<1>4. Cardinality(Upto(i)) # 0
  <2>. HIDE DEF Upto
  <2>. QED  BY <1>1, <1>3, FS_EmptySet
<1>5. ASSUME NEW j \in S, NEW l \in S, j < l PROVE Place(S, j) # Place(S, l)
  <2>1. Upto(j) \in SUBSET Upto(l) /\ l \in Upto(l) /\ l \notin Upto(j)
    <3>1. j \in Int /\ l \in Int
      OBVIOUS
    <3>2. \A x \in S : x <= j => x <= l
      BY <1>5, <3>1
    <3>3. Upto(j) \in SUBSET Upto(l)
      BY <3>2
    <3>4. l <= l /\ ~(l <= j)
      BY <1>5, <3>1
    <3>. QED  BY <3>3, <3>4
  <2>. HIDE DEF Upto
  <2>2. IsFiniteSet(Upto(l))
    BY <1>1
  <2>3. Cardinality(Upto(l)) # Cardinality(Upto(j))
    BY ONLY <2>1, <2>2, FS_Subset
  <2>. QED  BY <1>1, <2>3
<1>6. \A j \in S : i # j => i < j \/ j < i
  OBVIOUS
<1>7. \A j \in S : Place(S, i) = Place(S, j) => i = j
  BY <1>5, <1>6
<1>. QED  BY <1>1, <1>2, <1>4, <1>7

\* Every place up to the number of the rows has its row: the smallest set with a gap
\* would have one without its greatest member as well.
LEMMA NthOf ==
    ASSUME NEW S, IsFiniteSet(S), S \subseteq Int, NEW k \in 1..Cardinality(S)
    PROVE  Nth(S, k) \in S /\ Place(S, Nth(S, k)) = k
<1>. DEFINE Gap(T, n) == n \in 1..Cardinality(T) /\ \A i \in T : Place(T, i) # n
            Bad == {T \in SUBSET S : \E n \in Int : Gap(T, n)}
<1>1. ASSUME Bad # {} PROVE FALSE
  <2>1. PICK T \in Bad : \A U \in Bad : U \subseteq T => U = T
    <3>1. Bad \in SUBSET (SUBSET S)
      OBVIOUS
    <3>. HIDE DEF Bad
    <3>. QED  BY ONLY IsFiniteSet(S), <1>1, <3>1, SmallestOf
  <2>2. T \in SUBSET S /\ IsFiniteSet(T) /\ T \subseteq Int
    <3>1. T \in SUBSET S
      OBVIOUS
    <3>. QED  BY <3>1, FS_Subset
  <2>3. PICK n \in Int : Gap(T, n)
    OBVIOUS
  <2>4. Cardinality(T) \in Nat /\ T # {}
    BY <2>2, <2>3, FS_CardinalityType, FS_EmptySet
  <2>5. PICK m \in T : \A x \in T : m >= x
    BY <2>2, <2>4, GreatestOf
  <2>. DEFINE U == T \ {m}
  <2>6. IsFiniteSet(U) /\ Cardinality(U) = Cardinality(T) - 1
    BY <2>2, <2>5, FS_RemoveElement
  <2>7. U \in SUBSET S /\ U \subseteq T /\ U # T
    BY <2>2
  <2>8. ~Gap(U, n)
    BY <2>1, <2>7
  <2>9. Place(T, m) = Cardinality(T)
    <3>1. {x \in T : x <= m} = T
      BY <2>2, <2>5
    <3>. QED  BY <3>1 DEF Place
  <2>10. n \in 1..Cardinality(U)
    BY <2>3, <2>4, <2>5, <2>6, <2>9
  <2>11. PICK i \in U : Place(U, i) = n
    BY <2>8, <2>10
  <2>12. {x \in T : x <= i} = {x \in U : x <= i}
    <3>1. ~(m <= i)
      <4>1. m \in Int /\ i \in Int /\ m # i /\ m >= i
        BY <2>2, <2>5
      <4>. QED  BY <4>1
    <3>. QED  BY <3>1
  <2>. QED  BY <2>3, <2>11, <2>12 DEF Place
<1>2. \E i \in S : Place(S, i) = k
  <2>1. S \in SUBSET S /\ k \in Int
    BY FS_CardinalityType
  <2>2. ~Gap(S, k)
    BY <1>1, <2>1
  <2>. QED  BY <2>2
<1>. QED  BY <1>2 DEF Nth

Persons == People \cup {Old}
Row == [by : Runs, who : Seq(Persons), sees : SUBSET Nat, open : BOOLEAN]
Closed(rows) == {i \in DOMAIN rows : ~rows[i].open}

\* What Drop leaves: the rows not dropped, in their order, each once; a
\* transaction under way still sees committed rows only.
Left(rows, gone) == DOMAIN rows \ gone
Leaves(rows, left, new) ==
    /\ new \in Seq(Row)
    /\ \A k \in DOMAIN new :
         /\ Nth(left, k) \in left
         /\ new[k].by = rows[Nth(left, k)].by /\ new[k].who = rows[Nth(left, k)].who
         /\ new[k].open = rows[Nth(left, k)].open
    /\ \A k, l \in DOMAIN new : Nth(left, k) = Nth(left, l) => k = l
    /\ \A k \in DOMAIN new :
         rows[Nth(left, k)].sees \subseteq Closed(rows) => new[k].sees \subseteq Closed(new)
    /\ \A i \in left : Place(left, i) \in DOMAIN new /\ Nth(left, Place(left, i)) = i
\* Drop leaves the rows that are not gone, in their order, each once.
LEMMA DropLeaves ==
    ASSUME NEW rows \in Seq(Row), NEW gone
    PROVE  Leaves(rows, Left(rows, gone), Drop(rows, gone))
<1>0. PICK left, new : left = Left(rows, gone) /\ left = DOMAIN rows \ gone
                       /\ new = Drop(rows, gone)
  BY DEF Left
<1>1. DOMAIN rows = 1..Len(rows) /\ Len(rows) \in Nat
  OBVIOUS
<1>2. IsFiniteSet(left) /\ left \subseteq Int
  <2>1. IsFiniteSet(DOMAIN rows)
    BY <1>1, FS_Interval
  <2>2. left \in SUBSET (DOMAIN rows)
    BY <1>0
  <2>. QED  BY <1>1, <2>1, <2>2, FS_Subset
<1>3. Cardinality(left) \in Nat
  BY <1>2, FS_CardinalityType
<1>4. \A k \in 1..Cardinality(left) : Nth(left, k) \in left /\ Place(left, Nth(left, k)) = k
  BY <1>2, NthOf
<1>5. ASSUME NEW i \in left PROVE Place(left, i) \in 1..Cardinality(left)
  BY <1>2, PlaceOf
<1>5a. ASSUME NEW i \in left, NEW j \in left, Place(left, i) = Place(left, j) PROVE i = j
  BY ONLY <1>2, <1>5a, PlaceOf
<1>. DEFINE kept(k) == [rows[Nth(left, k)] EXCEPT
                          !.sees = {Place(left, i) : i \in @ \ gone}]
<1>6. new = [k \in 1..Cardinality(left) |-> kept(k)]
  BY <1>0 DEF Drop
<1>7. ASSUME NEW r \in Row, NEW X \in SUBSET Nat
      PROVE  /\ [r EXCEPT !.sees = X] \in Row /\ [r EXCEPT !.sees = X].sees = X
             /\ [r EXCEPT !.sees = X].by = r.by /\ [r EXCEPT !.sees = X].who = r.who
             /\ [r EXCEPT !.sees = X].open = r.open
  BY DEF Row
<1>8. ASSUME NEW k \in 1..Cardinality(left)
      PROVE  /\ kept(k) \in Row /\ kept(k).by = rows[Nth(left, k)].by
             /\ kept(k).who = rows[Nth(left, k)].who
             /\ kept(k).open = rows[Nth(left, k)].open
             /\ kept(k).sees = {Place(left, i) : i \in rows[Nth(left, k)].sees \ gone}
  <2>0. PICK n : n = Nth(left, k) /\ n \in DOMAIN rows
    BY <1>0, <1>4
  <2>1. rows[n] \in Row
    BY <1>1, <2>0
  <2>. DEFINE X == {Place(left, i) : i \in rows[n].sees \ gone}
  <2>2. \A i : Place(left, i) \in Nat
    <3>1. ASSUME NEW i PROVE Place(left, i) \in Nat
      <4>. DEFINE P == {j \in left : j <= i}
      <4>1. P \in SUBSET left
        OBVIOUS
      <4>. HIDE DEF P
      <4>2. Cardinality(P) \in Nat
        BY <1>2, <4>1, FS_Subset, FS_CardinalityType
      <4>. QED  BY <4>2 DEF P, Place
    <3>. QED  BY <3>1
  <2>3. X \in SUBSET Nat
    BY <2>2
  <2>4. kept(k) = [rows[n] EXCEPT !.sees = X]
    BY <2>0
  <2>. HIDE DEF X, kept
  <2>6. PICK r \in Row : r = rows[n] /\ kept(k) = [r EXCEPT !.sees = X]
    BY <2>1, <2>4
  <2>5. kept(k) \in Row /\ kept(k).sees = X
        /\ kept(k).by = r.by /\ kept(k).who = r.who /\ kept(k).open = r.open
    <3>1. PICK q : q = [r EXCEPT !.sees = X]
      OBVIOUS
    <3>2. /\ q \in Row /\ q.sees = X /\ q.by = r.by /\ q.who = r.who
          /\ q.open = r.open
      BY <1>7, <2>3, <3>1
    <3>. QED  BY <2>6, <3>1, <3>2
  <2>. QED  BY <2>0, <2>5, <2>6 DEF X
<1>. HIDE DEF kept
<1>9. new \in Seq(Row) /\ DOMAIN new = 1..Cardinality(left)
  <2>1. PICK c : c = Cardinality(left)
    OBVIOUS
  <2>2. c \in Nat /\ new = [k \in 1..c |-> kept(k)] /\ \A k \in 1..c : kept(k) \in Row
    BY <1>3, <1>6, <1>8, <2>1
  <2>3. new \in Seq(Row) /\ DOMAIN new = 1..c
    BY ONLY <2>2
  <2>. QED  BY <2>1, <2>3
<1>10. \A k \in DOMAIN new : new[k] = kept(k)
  BY <1>6, <1>9
<1>11. \A k \in DOMAIN new : \A l \in DOMAIN new : Nth(left, k) = Nth(left, l) => k = l
  BY <1>4, <1>9
<1>12. \A i \in left : Place(left, i) \in DOMAIN new /\ Nth(left, Place(left, i)) = i
  <2>1. ASSUME NEW i \in left PROVE Nth(left, Place(left, i)) = i
    <3>1. PICK k : k = Place(left, i) /\ k \in 1..Cardinality(left)
      BY <1>5
    <3>2. Nth(left, k) \in left /\ Place(left, Nth(left, k)) = Place(left, i)
      BY <1>4, <3>1
    <3>. QED  BY <1>5a, <3>1, <3>2
  <2>. QED  BY <1>5, <1>9, <2>1
<1>13. ASSUME NEW k \in DOMAIN new, rows[Nth(left, k)].sees \subseteq Closed(rows)
       PROVE  new[k].sees \subseteq Closed(new)
  <2>1. PICK i : i = Nth(left, k)
    OBVIOUS
  <2>2. new[k].sees = {Place(left, j) : j \in rows[i].sees \ gone}
    BY <1>8, <1>9, <1>10, <2>1
  <2>3. ASSUME NEW j \in rows[i].sees \ gone
        PROVE  Place(left, j) \in Closed(new)
    <3>1. j \in left /\ ~rows[j].open
      BY <1>0, <1>13, <2>1 DEF Closed
    <3>2. PICK l : l = Place(left, j) /\ l \in DOMAIN new /\ Nth(left, l) = j
      BY <1>12, <3>1
    <3>3. new[l].open = rows[j].open
      BY <1>8, <1>9, <1>10, <3>2
    <3>. QED  BY <3>1, <3>2, <3>3 DEF Closed
  <2>. QED  BY <2>2, <2>3
<1>14. ASSUME NEW k \in DOMAIN new
       PROVE  /\ Nth(left, k) \in left /\ new[k].by = rows[Nth(left, k)].by
              /\ new[k].who = rows[Nth(left, k)].who
              /\ new[k].open = rows[Nth(left, k)].open
  BY <1>4, <1>8, <1>9, <1>10
<1>15. Leaves(rows, left, new)
  BY <1>9, <1>11, <1>12, <1>13, <1>14 DEF Leaves
<1>. QED  BY <1>0, <1>15

\* Merging a person keeps those who are there, unless the profile is full.
Keeps(who, base) == Len(who) = Cap \/ \A p \in DOMAIN base : Contains(who, base[p])
\* mergeProfileJSON keeps the people who are there, unless the profile is full.
LEMMA MergeKeeps ==
    ASSUME NEW who \in Seq(Persons), NEW p \in Persons
    PROVE  Merged(who, p) \in Seq(Persons) /\ Keeps(Merged(who, p), who)
<1>. DEFINE all == IF Contains(who, p) THEN who ELSE Append(who, p)
<1>1. all \in Seq(Persons) /\ \A i \in DOMAIN who : i \in 1..Len(all) /\ all[i] = who[i]
  OBVIOUS
<1>2. Cap \in Nat /\ Cap > 0 /\ Len(all) \in Nat
  BY <1>1, ProfileAssumption
<1>. HIDE DEF all
<1>3. CASE Len(all) > Cap
  <2>1. Merged(who, p) = SubSeq(all, Len(all) - Cap + 1, Len(all))
    BY <1>3 DEF Merged, all
  <2>2. Merged(who, p) \in Seq(Persons) /\ Len(Merged(who, p)) = Cap
    BY <1>1, <1>2, <1>3, <2>1
  <2>. QED  BY <2>2 DEF Keeps
<1>4. CASE ~(Len(all) > Cap)
  <2>1. Merged(who, p) = SubSeq(all, Len(all) - Len(all) + 1, Len(all))
    BY <1>4 DEF Merged, all
  <2>2. Merged(who, p) = all
    BY <1>1, <1>2, <2>1
  <2>. QED  BY <1>1, <2>2 DEF Keeps, Contains
<1>. QED  BY <1>3, <1>4

RunOK(r) ==
    /\ DOMAIN r = Fields /\ r.left \subseteq People
    /\ r.base \in Seq(Persons) /\ r.new \in Seq(Persons) /\ (r.at = "boot" => r.kind = "boot")
ProfileTyped ==
    /\ mem \subseteq People /\ active \in Seq(Row)
    /\ DOMAIN run = Runs /\ \A c \in Runs : RunOK(run[c])

\* A transaction under way is its goroutine's, and the only one of it.
RowsOK ==
    \A i \in DOMAIN active : active[i].open =>
        /\ run[active[i].by].at = "commit" /\ active[i].who = run[active[i].by].new
        /\ active[i].sees \subseteq Known
OwnRow(c, i) == i \in DOMAIN active /\ active[i].open /\ active[i].by = c
OneRow ==
    \A c \in Runs :
        /\ run[c].at = "commit" => \E i \in DOMAIN active : OwnRow(c, i)
        /\ \A i, j \in DOMAIN active : OwnRow(c, i) /\ OwnRow(c, j) => i = j

\* Of an unexcused run the profile it started from is still the current one, and
\* nobody else is about to write.
Based(r, c) ==
    r.kind # "boot" =>
        /\ r.at \in {"batch", "write", "commit"} /\ ~r.excused => r.base = Current /\ ~Open(c)
        /\ r.at \in {"write", "commit"} => Keeps(r.new, r.base)
BaseOK == \A c \in Runs : Based(run[c], c)
KeptInv == ProfileTyped /\ RowsOK /\ OneRow /\ BaseOK

\* Committed rows are rows, and if there are any one is the last.
LEMMA KnownInside ==
    ASSUME active \in Seq(Row)
    PROVE  /\ IsFiniteSet(Known) /\ Known \subseteq Int /\ Known \subseteq DOMAIN active
           /\ Known # {} => Max(Known) \in Known
<1>1. Known \in SUBSET (1..Len(active)) /\ DOMAIN active = 1..Len(active) /\ Len(active) \in Nat
  BY DEF Known
<1>2. IsFiniteSet(Known) /\ Known \subseteq Int
  <2>1. IsFiniteSet(1..Len(active))
    BY <1>1, FS_Interval
  <2>2. IsFiniteSet(Known)
    BY ONLY <1>1, <2>1, FS_Subset
  <2>3. Known \subseteq Int
    BY <1>1
  <2>. QED  BY <2>2, <2>3
<1>. QED  BY <1>1, <1>2, GreatestOf

\* The current profile is a list of people.
LEMMA CurrentTyped == ASSUME active \in Seq(Row) PROVE Current \in Seq(Persons)
<1>1. CASE Known = {}
  BY <1>1 DEF Current
<1>2. CASE Known # {}
  <2>1. PICK i : i = Max(Known) /\ i \in DOMAIN active
    BY <1>2, KnownInside
  <2>2. active[i] \in Row
    BY <2>1
  <2>. QED  BY <1>2, <2>1, <2>2 DEF Current, Row
<1>. QED  BY <1>1, <1>2

\* A goroutine goes on, and has no transaction before or after.
LEMMA RunMoves ==
    ASSUME KeptInv, NEW c \in Runs, NEW r, run' = [run EXCEPT ![c] = r], RunOK(r),
           run[c].at # "commit", r.at # "commit", Based(r, c),
           active' = active, mem' \subseteq People
    PROVE  KeptInv'
<1>1. /\ DOMAIN run' = Runs /\ run'[c] = r
      /\ \A d \in Runs : d # c => run'[d] = run[d]
  BY DEF KeptInv, ProfileTyped
<1>2. ProfileTyped'
  BY <1>1 DEF KeptInv, ProfileTyped, RunOK
<1>3. Known' = Known /\ Current' = Current /\ \A d \in Runs : Open(d)' <=> Open(d)
  BY DEF Known, Current, Open
<1>4. ASSUME NEW i \in DOMAIN active, active[i].open
      PROVE  active[i].by \in Runs /\ active[i].by # c
  <2>1. active[i] \in Row
    BY DEF KeptInv, ProfileTyped
  <2>2. run[active[i].by].at = "commit"
    BY <1>4 DEF KeptInv, RowsOK
  <2>. QED  BY <2>1, <2>2 DEF Row
<1>5. RowsOK'
  BY <1>1, <1>3, <1>4 DEF KeptInv, RowsOK
<1>6. OneRow'
  BY <1>1 DEF KeptInv, OneRow, OwnRow
<1>7. BaseOK'
  BY <1>1, <1>3 DEF KeptInv, BaseOK, Based
<1>. QED  BY <1>2, <1>5, <1>6, <1>7 DEF KeptInv

\* The record of a run that does nothing.
LEMMA RestingOK == RunOK(Resting) /\ Resting.at = "rest"
BY DEF RunOK, Resting, Fields

\* A run that begins has neither a profile nor a transaction.
LEMMA BeginKeeps ==
    ASSUME KeptInv, NEW kind, NEW at \in {"transition", "query", "done", "boot"},
           run["other"].at = "rest", Begin(kind, at), at = "boot" => kind = "boot",
           active' = active, mem' \subseteq People
    PROVE  KeptInv'
<1>. DEFINE r == [Resting EXCEPT !.at = at, !.kind = kind]
<1>1. run' = [run EXCEPT !["other"] = r]
  BY DEF Begin
<1>2. RunOK(r) /\ r.at = at
  BY RestingOK DEF RunOK, Fields
<1>. HIDE DEF r
<1>3. Based(r, "other") /\ "other" \in Runs
  BY <1>2 DEF Based, Runs
<1>. QED  BY <1>1, <1>2, <1>3, RunMoves

\* The steps of a run but for those of its transaction.
LEMMA QueryKeeps == ASSUME KeptInv, NEW c \in Runs, Query(c) PROVE KeptInv'
<1>0. RunOK(run[c]) /\ run[c].at = "query" /\ active' = active /\ mem' \subseteq People
  BY DEF Query, KeptInv, ProfileTyped
<1>1. CASE mem = {}
  <2>1. PICK at \in {"stopped", "done"} : run' = [run EXCEPT ![c].at = at]
    BY <1>1 DEF Query
  <2>. DEFINE r == [run[c] EXCEPT !.at = at]
  <2>2. RunOK(r) /\ Based(r, c) /\ r.at # "commit"
    BY <1>0 DEF RunOK, Based, Fields
  <2>3. run' = [run EXCEPT ![c] = r]
    BY <2>1
  <2>. HIDE DEF r
  <2>. QED  BY <1>0, <2>2, <2>3, RunMoves
<1>2. CASE mem # {}
  <2>1. PICK read \in BOOLEAN :
          run' = [run EXCEPT ![c].at = "batch", ![c].left = mem,
                     ![c].base = IF read THEN Current ELSE <<>>,
                     ![c].excused = ~read \/ Open(c)]
    BY <1>2 DEF Query
  <2>2. PICK base \in Seq(Persons) : base = IF read THEN Current ELSE <<>>
    <3>1. Current \in Seq(Persons)
      BY CurrentTyped DEF KeptInv, ProfileTyped
    <3>2. <<>> \in Seq(Persons)
      OBVIOUS
    <3>. QED  BY <3>1, <3>2
  <2>3. PICK excused : excused = (~read \/ Open(c))
    OBVIOUS
  <2>. DEFINE r == [run[c] EXCEPT !.at = "batch", !.left = mem, !.base = base,
                                  !.excused = excused]
  <2>4. run' = [run EXCEPT ![c] = r]
    BY <2>1, <2>2, <2>3 DEF KeptInv, ProfileTyped
  <2>5. RunOK(r) /\ r.at = "batch" /\ r.base = base /\ r.excused = excused
    BY <1>0 DEF RunOK, Fields, KeptInv, ProfileTyped
  <2>. HIDE DEF r
  <2>6. Based(r, c)
    BY <2>2, <2>3, <2>5 DEF Based
  <2>. QED  BY <1>0, <2>4, <2>5, <2>6, RunMoves
<1>. QED  BY <1>1, <1>2

\* A batch merges a person into the profile it started from, or none.
LEMMA BatchKeeps == ASSUME KeptInv, NEW c \in Runs, Batch(c) PROVE KeptInv'
<1>0. /\ RunOK(run[c]) /\ run[c].at = "batch" /\ active' = active /\ mem' \subseteq People
      /\ Based(run[c], c)
  BY DEF Batch, KeptInv, ProfileTyped, BaseOK, memories
<1>1. PICK p \in run[c].left, learn \in BOOLEAN :
        LET new == IF learn THEN Merged(run[c].base, p) ELSE run[c].base IN
        run' = [run EXCEPT ![c].left = @ \ {p}, ![c].new = new,
                  ![c].at = IF new = run[c].base THEN "carry" ELSE "write"]
  BY DEF Batch
<1>6. PICK new : new = IF learn THEN Merged(run[c].base, p) ELSE run[c].base
  OBVIOUS
<1>7. PICK at : at = IF new = run[c].base THEN "carry" ELSE "write"
  OBVIOUS
<1>8. run' = [run EXCEPT ![c].left = @ \ {p}, ![c].new = new, ![c].at = at]
  BY <1>1, <1>6, <1>7
<1>2. new \in Seq(Persons) /\ (at = "write" => Keeps(new, run[c].base))
  <2>1. p \in Persons /\ run[c].base \in Seq(Persons)
    BY <1>0 DEF RunOK, Persons
  <2>. QED  BY <1>6, <1>7, <2>1, MergeKeeps
<1>. DEFINE r == [run[c] EXCEPT !.left = @ \ {p}, !.new = new, !.at = at]
<1>3. run' = [run EXCEPT ![c] = r]
  BY <1>8 DEF KeptInv, ProfileTyped
<1>4. /\ RunOK(r) /\ r.at = at /\ r.new = new /\ r.base = run[c].base
      /\ r.excused = run[c].excused /\ r.kind = run[c].kind
  BY <1>0, <1>2, <1>7 DEF RunOK, Fields
<1>. HIDE DEF r
<1>5. Based(r, c) /\ r.at # "commit"
  BY <1>0, <1>7, <1>2, <1>4 DEF Based
<1>. QED  BY <1>0, <1>3, <1>4, <1>5, RunMoves

\* The next batch starts from the profile as it now is, if it can be read.
LEMMA CarryKeeps == ASSUME KeptInv, NEW c \in Runs, Carry(c) PROVE KeptInv'
<1>0. RunOK(run[c]) /\ run[c].at = "carry" /\ active' = active /\ mem' \subseteq People
  BY DEF Carry, KeptInv, ProfileTyped, memories
<1>1. PICK read \in BOOLEAN :
        run' = [run EXCEPT ![c].at = After(c), ![c].base = IF read THEN Current ELSE @,
                   ![c].excused = ~read \/ Open(c)]
  BY DEF Carry
<1>2. PICK base \in Seq(Persons) : base = IF read THEN Current ELSE run[c].base
  <2>1. Current \in Seq(Persons)
    BY CurrentTyped DEF KeptInv, ProfileTyped
  <2>. QED  BY <1>0, <2>1 DEF RunOK
<1>3. PICK at \in {"done", "batch"} : at = After(c)
  BY DEF After
<1>7. PICK excused : excused = (~read \/ Open(c))
  OBVIOUS
<1>. DEFINE r == [run[c] EXCEPT !.at = at, !.base = base, !.excused = excused]
<1>4. run' = [run EXCEPT ![c] = r]
  BY <1>1, <1>2, <1>3, <1>7 DEF KeptInv, ProfileTyped
<1>5. RunOK(r) /\ r.at = at /\ r.base = base /\ r.excused = excused
  BY <1>0 DEF RunOK, Fields
<1>. HIDE DEF r
<1>6. Based(r, c)
  BY <1>2, <1>5, <1>7 DEF Based
<1>. QED  BY <1>0, <1>4, <1>5, <1>6, RunMoves

\* Whatever else a goroutine does leads to a place where it has read nothing yet
\* or is done with what it read, or a bootstrap to its write.
LEMMA OthersKeep ==
    ASSUME KeptInv, NEW c \in Runs,
           \/ c = "other" /\ (Transition \/ BootstrapAttempt)
           \/ Fail(c) \/ Ends(c) \/ Refresh(c)
    PROVE  KeptInv'
<1>0. RunOK(run[c]) /\ active' = active /\ mem' \subseteq People /\ run[c].at # "commit"
  BY DEF Transition, BootstrapAttempt, Fail, Ends, Refresh, KeptInv, ProfileTyped, memories
<1>1. CASE run' = [run EXCEPT ![c] = Resting]
  <2>1. Based(Resting, c)
    BY RestingOK DEF Based
  <2>. QED  BY <1>0, <1>1, <2>1, RestingOK, RunMoves
<1>2. ASSUME NEW at \in {"query", "stopped"}, run' = [run EXCEPT ![c].at = at] PROVE KeptInv'
  <2>. DEFINE r == [run[c] EXCEPT !.at = at]
  <2>1. run' = [run EXCEPT ![c] = r]
    BY <1>2
  <2>2. RunOK(r) /\ r.at = at
    BY <1>0 DEF RunOK, Fields
  <2>. HIDE DEF r
  <2>. QED  BY <1>0, <2>1, <2>2, RunMoves DEF Based
<1>3. CASE c = "other" /\ BootstrapAttempt
  <2>1. PICK who \in {<<>>} \cup {<<p>> : p \in People} :
          run' = [run EXCEPT ![c].at = "write", ![c].new = who]
    BY <1>3 DEF BootstrapAttempt
  <2>2. who \in Seq(Persons)
    <3>1. <<>> \in Seq(Persons)
      OBVIOUS
    <3>2. ASSUME NEW p \in People PROVE <<p>> \in Seq(Persons)
      BY DEF Persons
    <3>. QED  BY <3>1, <3>2
  <2>. DEFINE r == [run[c] EXCEPT !.at = "write", !.new = who]
  <2>3. run' = [run EXCEPT ![c] = r]
    BY <2>1 DEF KeptInv, ProfileTyped
  <2>4. RunOK(r) /\ r.at = "write" /\ r.kind = "boot"
    BY <1>0, <1>3, <2>2 DEF RunOK, Fields, BootstrapAttempt
  <2>. HIDE DEF r
  <2>. QED  BY <1>0, <2>3, <2>4, RunMoves DEF Based
<1>4. CASE Ends(c)
  <2>1. CASE run' = [run EXCEPT ![c] = Resting]
    BY <1>1, <2>1
  <2>2. CASE run' = [run EXCEPT ![c] = [@ EXCEPT !.at = "refresh", !.got = Prompt]]
    <3>. DEFINE r == [run[c] EXCEPT !.at = "refresh", !.got = Prompt]
    <3>1. run' = [run EXCEPT ![c] = r]
      BY <2>2
    <3>2. RunOK(r) /\ r.at = "refresh"
      BY <1>0 DEF RunOK, Fields
    <3>. HIDE DEF r
    <3>. QED  BY <1>0, <3>1, <3>2, RunMoves DEF Based
  <2>. QED  BY <1>4, <2>1, <2>2 DEF Ends
<1>. QED  BY <1>1, <1>2, <1>3, <1>4 DEF Transition, Fail, Refresh

\* A transaction begins: its row is not known yet, and the other goroutine is
\* excused from now on.
LEMMA WriteKeeps == ASSUME KeptInv, NEW c \in Runs, WriteBegins(c) PROVE KeptInv'
<1>0. /\ \A d \in Runs : RunOK(run[d])
      /\ active \in Seq(Row) /\ DOMAIN run = Runs /\ mem' \subseteq People
  BY DEF WriteBegins, KeptInv, ProfileTyped, memories
<1>1. PICK row : /\ row = [by |-> c, who |-> run[c].new, open |-> TRUE, sees |-> Known]
                 /\ active' = Append(active, row)
  BY DEF WriteBegins
<1>2. Known \subseteq Nat /\ Known \subseteq DOMAIN active
  BY <1>0 DEF Known
<1>3. row \in Row /\ row.by = c /\ row.who = run[c].new /\ row.open /\ row.sees = Known
  BY <1>0, <1>1, <1>2 DEF Row, RunOK
<1>4. PICK n \in Nat : n = Len(active) /\ DOMAIN active = 1..n
  BY <1>0
<1>5. /\ active' \in Seq(Row) /\ DOMAIN active' = 1..(n + 1) /\ active'[n + 1] = row
      /\ \A i \in 1..n : active'[i] = active[i]
  BY <1>0, <1>1, <1>3, <1>4
<1>6. Known' = Known
  BY <1>3, <1>4, <1>5 DEF Known
<1>7. Current' = Current
  <2>1. CASE Known = {}
    BY <1>6, <2>1 DEF Current
  <2>2. CASE Known # {}
    <3>1. PICK i : i = Max(Known) /\ i \in DOMAIN active
      BY <1>0, <2>2, KnownInside
    <3>2. active'[i] = active[i]
      BY <1>4, <1>5, <3>1
    <3>. QED  BY <1>6, <2>2, <3>1, <3>2 DEF Current
  <2>. QED  BY <2>1, <2>2
<1>8. /\ DOMAIN run' = Runs /\ run'[c] = [run[c] EXCEPT !.at = "commit"]
      /\ \A d \in Runs : d # c => run'[d] = [run[d] EXCEPT !.excused = TRUE]
  BY DEF WriteBegins
<1>9. /\ RunOK(run'[c]) /\ run'[c].at = "commit" /\ run'[c].new = run[c].new
      /\ run'[c].base = run[c].base /\ run'[c].kind = run[c].kind
      /\ run'[c].excused = run[c].excused /\ run[c].at = "write"
  BY <1>0, <1>8 DEF RunOK, Fields, WriteBegins
<1>10. ASSUME NEW d \in Runs, d # c
       PROVE  /\ RunOK(run'[d]) /\ run'[d].at = run[d].at /\ run'[d].new = run[d].new
              /\ run'[d].base = run[d].base /\ run'[d].kind = run[d].kind /\ run'[d].excused
  <2>1. run'[d] = [run[d] EXCEPT !.excused = TRUE] /\ RunOK(run[d])
    BY <1>0, <1>8, <1>10
  <2>. QED  BY <2>1 DEF RunOK, Fields
<1>11. ProfileTyped'
  BY <1>0, <1>5, <1>8, <1>9, <1>10 DEF ProfileTyped
<1>12. ASSUME NEW i \in 1..n, active[i].open
       PROVE  /\ active[i].by \in Runs /\ active[i].by # c
              /\ run[active[i].by].at = "commit" /\ active[i].who = run[active[i].by].new
              /\ active[i].sees \subseteq Known
  <2>1. active[i] \in Row
    BY <1>0, <1>4
  <2>2. run[active[i].by].at = "commit" /\ active[i].who = run[active[i].by].new
        /\ active[i].sees \subseteq Known
    BY <1>4, <1>12 DEF KeptInv, RowsOK
  <2>. QED  BY <1>9, <2>1, <2>2 DEF Row
<1>13. RowsOK'
  <2>1. ASSUME NEW i \in 1..n, active'[i].open
        PROVE  /\ run'[active'[i].by].at = "commit"
               /\ active'[i].who = run'[active'[i].by].new /\ active'[i].sees \subseteq Known'
    BY <1>5, <1>6, <1>10, <1>12, <2>1
  <2>2. /\ run'[row.by].at = "commit" /\ row.who = run'[row.by].new /\ row.sees \subseteq Known'
    BY <1>3, <1>6, <1>9
  <2>3. \A i \in DOMAIN active' : i \in 1..n \/ i = n + 1
    BY <1>5
  <2>. QED  BY <1>5, <2>1, <2>2, <2>3 DEF RowsOK
<1>14. OneRow'
  <2>1. ASSUME NEW d \in Runs, NEW i \in DOMAIN active'
        PROVE  OwnRow(d, i)' <=> IF i = n + 1 THEN d = c ELSE OwnRow(d, i)
    <3>1. CASE i = n + 1
      BY <1>3, <1>5, <3>1 DEF OwnRow
    <3>2. CASE i \in 1..n
      BY <1>4, <1>5, <3>2 DEF OwnRow
    <3>. QED  BY <1>5, <3>1, <3>2
  <2>2. \A i \in 1..n : ~OwnRow(c, i)
    BY <1>12 DEF OwnRow
  <2>3. ASSUME NEW i \in DOMAIN active', NEW j \in DOMAIN active', NEW d \in Runs,
               OwnRow(d, i)', OwnRow(d, j)'
        PROVE  i = j
    <3>1. \A k \in DOMAIN active' : k \in 1..n \/ k = n + 1
      BY <1>5
    <3>2. ~(n + 1 \in 1..n)
      OBVIOUS
    <3>3. \A k \in DOMAIN active' : OwnRow(d, k)' => IF d = c THEN k = n + 1
                                                   ELSE k \in 1..n /\ OwnRow(d, k)
      BY <2>1, <2>2, <3>1, <3>2
    <3>4. CASE d = c
      BY <2>3, <3>3, <3>4
    <3>5. CASE d # c
      BY <1>4, <2>3, <3>3, <3>5 DEF KeptInv, OneRow
    <3>. QED  BY <3>4, <3>5
  <2>4. ASSUME NEW d \in Runs, run'[d].at = "commit"
        PROVE  \E i \in DOMAIN active' : OwnRow(d, i)'
    <3>1. CASE d = c
      <4>1. n + 1 \in DOMAIN active'
        BY <1>5
      <4>. QED  BY <2>1, <3>1, <4>1
    <3>2. CASE d # c
      <4>1. PICK i \in DOMAIN active : OwnRow(d, i)
        BY <1>10, <2>4, <3>2 DEF KeptInv, OneRow
      <4>2. i \in DOMAIN active' /\ i # n + 1
        BY <1>4, <1>5
      <4>. QED  BY <2>1, <4>1, <4>2
    <3>. QED  BY <3>1, <3>2
  <2>. QED  BY <2>3, <2>4 DEF OneRow
<1>15. BaseOK'
  <2>1. Open(c)' => Open(c)
    <3>1. ASSUME NEW i \in DOMAIN active', active'[i].open, active'[i].by # c
          PROVE  i \in DOMAIN active /\ active[i].open /\ active[i].by # c
      BY <1>3, <1>4, <1>5, <3>1
    <3>. QED  BY <3>1 DEF Open
  <2>2. Based(run[c], c)'
    BY <1>7, <1>9, <2>1 DEF KeptInv, BaseOK, Based
  <2>3. ASSUME NEW d \in Runs, d # c PROVE Based(run[d], d)'
    BY <1>10, <2>3 DEF KeptInv, BaseOK, Based
  <2>. QED  BY <2>2, <2>3 DEF BaseOK
<1>. QED  BY <1>11, <1>13, <1>14, <1>15 DEF KeptInv

\* A transaction ends: its own row, now closed or gone, and those it superseded
\* leave, and the other goroutine keeps its transaction if it has one.
LEMMA EndKeeps ==
    ASSUME KeptInv, NEW c \in Runs, NEW mine \in DOMAIN active, OwnRow(c, mine),
           NEW rows \in Seq(Row), DOMAIN rows = DOMAIN active,
           \A i \in DOMAIN active : i # mine => rows[i] = active[i],
           NEW gone, mine \in gone \/ ~rows[mine].open,
           \A i \in DOMAIN active : i \in gone => i = mine \/ i \in Known,
           active' = Drop(rows, gone), mem' \subseteq People,
           DOMAIN run' = Runs, RunOK(run'[c]), run'[c].at \in {"done", "carry", "stopped"},
           \A d \in Runs : d # c => /\ RunOK(run'[d]) /\ run'[d].at = run[d].at
                                    /\ run'[d].new = run[d].new /\ run'[d].base = run[d].base
                                    /\ run'[d].kind = run[d].kind
                                    /\ ~run'[d].excused =>
                                         run[d].kind = "boot" \/
                                         run[d].at \notin {"batch", "write", "commit"}
    PROVE  KeptInv'
<1>1. PICK left, new : left = Left(rows, gone) /\ new = Drop(rows, gone) /\ active' = new
                       /\ left = DOMAIN active \ gone
  BY DEF Left
<1>2. Leaves(rows, left, new)
  BY <1>1, DropLeaves
<1>3. /\ \A i \in DOMAIN active : active[i] \in Row
      /\ active[mine].open /\ active[mine].by = c
  BY DEF KeptInv, ProfileTyped, OwnRow
<1>4. ASSUME NEW k \in DOMAIN new, new[k].open
      PROVE  /\ Nth(left, k) \in DOMAIN active /\ Nth(left, k) # mine
             /\ active[Nth(left, k)].open /\ active[Nth(left, k)].by \in Runs
             /\ active[Nth(left, k)].by # c
             /\ new[k].by = active[Nth(left, k)].by /\ new[k].who = active[Nth(left, k)].who
             /\ new[k].sees \subseteq Closed(new)
  <2>1. PICK i : i = Nth(left, k) /\ i \in left /\ new[k].by = rows[i].by
                 /\ new[k].who = rows[i].who /\ rows[i].open
    BY <1>2, <1>4 DEF Leaves
  <2>2. i \in DOMAIN active /\ i # mine /\ rows[i] = active[i]
    BY <1>1, <2>1
  <2>3. active[i].open /\ active[i].by \in Runs
    BY <1>3, <2>1, <2>2 DEF Row
  <2>4. active[i].by # c
    BY <2>2, <2>3 DEF KeptInv, OneRow, OwnRow
  <2>5. active[i].sees \subseteq Closed(rows)
    <3>1. active[i].sees \subseteq Known
      BY <2>2, <2>3 DEF KeptInv, RowsOK
    <3>2. Known \subseteq Closed(rows)
      BY <1>3 DEF Known, Closed
    <3>. QED  BY <3>1, <3>2
  <2>6. new[k].sees \subseteq Closed(new)
    BY <1>2, <2>1, <2>2, <2>5 DEF Leaves
  <2>. QED  BY <2>1, <2>2, <2>3, <2>4, <2>6
<1>5. Known' = Closed(new)
  BY <1>1 DEF Known, Closed
<1>6. ProfileTyped'
  BY <1>1, <1>2 DEF ProfileTyped, Leaves
<1>7. RowsOK'
  <2>1. ASSUME NEW k \in DOMAIN new, new[k].open
        PROVE  /\ run'[new[k].by].at = "commit" /\ new[k].who = run'[new[k].by].new
               /\ new[k].sees \subseteq Known'
    <3>1. PICK i \in DOMAIN active :
            /\ active[i].open /\ active[i].by \in Runs /\ active[i].by # c
            /\ new[k].by = active[i].by /\ new[k].who = active[i].who
      BY <1>4, <2>1
    <3>2. run[active[i].by].at = "commit" /\ active[i].who = run[active[i].by].new
      BY <3>1 DEF KeptInv, RowsOK
    <3>. QED  BY <1>4, <1>5, <2>1, <3>1, <3>2
  <2>. QED  BY <1>1, <2>1 DEF RowsOK
<1>8. OneRow'
  <2>1. ASSUME NEW d \in Runs, NEW k \in DOMAIN new, NEW l \in DOMAIN new,
               OwnRow(d, k)', OwnRow(d, l)'
        PROVE  k = l
    <3>1. new[k].open /\ new[k].by = d /\ new[l].open /\ new[l].by = d
      BY <1>1, <2>1 DEF OwnRow
    <3>2. OwnRow(d, Nth(left, k)) /\ OwnRow(d, Nth(left, l))
      BY <1>4, <3>1 DEF OwnRow
    <3>3. Nth(left, k) = Nth(left, l)
      BY <3>2 DEF KeptInv, OneRow, OwnRow
    <3>. QED  BY <1>2, <3>3 DEF Leaves
  <2>2. ASSUME NEW d \in Runs, run'[d].at = "commit"
        PROVE  \E k \in DOMAIN new : OwnRow(d, k)'
    <3>1. d # c /\ run[d].at = "commit"
      BY <2>2
    <3>2. PICK i \in DOMAIN active : OwnRow(d, i)
      BY <3>1 DEF KeptInv, OneRow
    <3>3. i # mine /\ i \notin Known /\ active[i].open /\ active[i].by = d
      BY <1>3, <3>1, <3>2 DEF OwnRow, Known
    <3>4. i \in left /\ rows[i] = active[i]
      BY <1>1, <3>3
    <3>5. PICK k \in DOMAIN new : Nth(left, k) = i
      BY <1>2, <3>4 DEF Leaves
    <3>6. new[k].open /\ new[k].by = d
      BY <1>2, <3>3, <3>4, <3>5 DEF Leaves
    <3>. QED  BY <1>1, <3>6 DEF OwnRow
  <2>. QED  BY <1>1, <2>1, <2>2 DEF OneRow
<1>9. BaseOK'
  <2>1. Based(run[c], c)'
    BY DEF Based
  <2>2. ASSUME NEW d \in Runs, d # c PROVE Based(run[d], d)'
    BY <2>2 DEF KeptInv, BaseOK, Based
  <2>. QED  BY <2>1, <2>2 DEF BaseOK
<1>. QED  BY <1>6, <1>7, <1>8, <1>9 DEF KeptInv

\* The run that commits has a row of its own in the table.
LEMMA MineOwn ==
    ASSUME KeptInv, NEW c \in Runs, run[c].at = "commit"
    PROVE  Mine(c) \in DOMAIN active /\ OwnRow(c, Mine(c))
BY DEF KeptInv, OneRow, OwnRow, Mine

\* A commit closes its row, drops those it saw and excuses the other run.
LEMMA CommitKeeps == ASSUME KeptInv, NEW c \in Runs, Commit(c) PROVE KeptInv'
<1>0. /\ \A d \in Runs : RunOK(run[d])
      /\ active \in Seq(Row) /\ run[c].at = "commit" /\ mem' \subseteq People
  BY DEF Commit, KeptInv, ProfileTyped, memories
<1>1. PICK mine \in DOMAIN active : mine = Mine(c) /\ OwnRow(c, mine)
  BY <1>0, MineOwn
<1>. DEFINE rows == [active EXCEPT ![mine].open = FALSE, ![mine].sees = {}]
<1>2. /\ rows \in Seq(Row) /\ DOMAIN rows = DOMAIN active /\ ~rows[mine].open
      /\ \A i \in DOMAIN active : i # mine => rows[i] = active[i]
  <2>1. PICK r \in Row : r = active[mine]
    BY <1>0
  <2>2. PICK q : q = [r EXCEPT !.open = FALSE, !.sees = {}]
    OBVIOUS
  <2>3. q \in Row /\ ~q.open
    BY <2>1, <2>2 DEF Row
  <2>4. rows = [active EXCEPT ![mine] = q]
    BY <2>1, <2>2, <1>0
  <2>. HIDE DEF rows
  <2>. QED  BY <1>0, <2>3, <2>4
<1>3. active[mine].sees \subseteq Known
  BY <1>1 DEF KeptInv, RowsOK, OwnRow
<1>4. active' = Drop(rows, active[mine].sees)
  BY <1>1 DEF Commit
<1>5. PICK at \in {"done", "carry"} : run'[c] = [run[c] EXCEPT !.at = at]
  BY DEF Commit
<1>6. RunOK(run'[c]) /\ run'[c].at = at
  BY <1>0, <1>5 DEF RunOK, Fields
<1>7. ASSUME NEW d \in Runs, d # c
      PROVE  /\ RunOK(run'[d]) /\ run'[d].at = run[d].at /\ run'[d].new = run[d].new
             /\ run'[d].base = run[d].base /\ run'[d].kind = run[d].kind /\ run'[d].excused
  <2>1. run'[d] = [run[d] EXCEPT !.excused = TRUE] /\ RunOK(run[d])
    BY <1>0, <1>7 DEF Commit
  <2>. QED  BY <2>1 DEF RunOK, Fields
<1>8. DOMAIN run' = Runs
  BY DEF Commit
<1>. HIDE DEF rows
<1>. QED  BY <1>0, <1>1, <1>2, <1>3, <1>4, <1>6, <1>7, <1>8, EndKeeps

\* A transaction that fails takes its row with it.
LEMMA RollbackKeeps == ASSUME KeptInv, NEW c \in Runs, Rollback(c) PROVE KeptInv'
<1>0. /\ \A d \in Runs : RunOK(run[d])
      /\ active \in Seq(Row) /\ run[c].at = "commit" /\ mem' \subseteq People
  BY DEF Rollback, KeptInv, ProfileTyped, memories
<1>1. PICK mine \in DOMAIN active : mine = Mine(c) /\ OwnRow(c, mine)
  BY <1>0, MineOwn
<1>2. PICK gone : gone = {mine} /\ active' = Drop(active, gone)
  BY <1>1 DEF Rollback
<1>3. /\ run'[c] = [run[c] EXCEPT !.at = "stopped"] /\ DOMAIN run' = Runs
      /\ \A d \in Runs : d # c => run'[d] = run[d]
  BY DEF Rollback, KeptInv, ProfileTyped
<1>4. RunOK(run'[c]) /\ run'[c].at = "stopped"
  BY <1>0, <1>3 DEF RunOK, Fields
<1>5. ASSUME NEW d \in Runs, d # c
      PROVE  ~run[d].excused => run[d].kind = "boot"
                                \/ run[d].at \notin {"batch", "write", "commit"}
  <2>1. Open(d)
    BY <1>1, <1>5 DEF Open, OwnRow
  <2>. QED  BY <2>1 DEF KeptInv, BaseOK, Based
<1>6. mine \in gone /\ \A i \in DOMAIN active : i \in gone => i = mine \/ i \in Known
  BY <1>2
<1>7. ASSUME NEW d \in Runs, d # c
      PROVE  /\ RunOK(run'[d]) /\ run'[d].at = run[d].at /\ run'[d].new = run[d].new
             /\ run'[d].base = run[d].base /\ run'[d].kind = run[d].kind
             /\ run'[d].excused = run[d].excused
  BY <1>0, <1>3, <1>7
<1>8. \A d \in Runs : d # c => /\ RunOK(run'[d]) /\ run'[d].at = run[d].at
                               /\ run'[d].new = run[d].new /\ run'[d].base = run[d].base
                               /\ run'[d].kind = run[d].kind
                               /\ ~run'[d].excused =>
                                    run[d].kind = "boot" \/
                                    run[d].at \notin {"batch", "write", "commit"}
  BY <1>5, <1>7
<1>. QED
  BY ONLY KeptInv, c \in Runs, <1>0, <1>1, <1>2, <1>3, <1>4, <1>6, <1>8, EndKeeps

\* At the start no transaction is under way.
LEMMA InitKept == Init => KeptInv
<1>. SUFFICES ASSUME Init PROVE KeptInv
  OBVIOUS
<1>1. \A c \in Runs : run[c] = Resting
  BY DEF Init
<1>2. active \in Seq(Row) /\ \A i \in DOMAIN active : ~active[i].open
  <2>1. CASE active = <<>>
    BY <2>1
  <2>2. CASE active # <<>>
    <3>1. PICK row : /\ row = [by |-> "cog", who |-> <<Old>>, sees |-> {}, open |-> FALSE]
                     /\ active = <<row>>
      BY <2>2 DEF Init
    <3>2. row \in Row /\ ~row.open
      BY <3>1 DEF Row, Runs, Persons
    <3>. QED  BY <3>1, <3>2
  <2>. QED  BY <2>1, <2>2
<1>3. ProfileTyped
  BY <1>2, RestingOK DEF Init, ProfileTyped
<1>4. RowsOK /\ OneRow
  BY <1>1, <1>2, RestingOK DEF RowsOK, OneRow, OwnRow
<1>5. BaseOK
  BY <1>1, RestingOK DEF BaseOK, Based
<1>. QED  BY <1>3, <1>4, <1>5 DEF KeptInv

\* Every step keeps the invariant of the profile.
LEMMA NextKept == KeptInv /\ [Next]_vars => KeptInv'
<1>. SUFFICES ASSUME KeptInv, [Next]_vars PROVE KeptInv'
  OBVIOUS
<1>0. ASSUME run' = run, active' = active, mem' \subseteq People PROVE KeptInv'
  <2>1. Known' = Known /\ Current' = Current /\ \A c \in Runs : Open(c)' <=> Open(c)
    BY <1>0 DEF Known, Current, Open
  <2>2. ProfileTyped' /\ RowsOK' /\ OneRow'
    BY <1>0, <2>1 DEF KeptInv, ProfileTyped, RowsOK, OneRow, OwnRow
  <2>3. BaseOK'
    BY <1>0, <2>1 DEF KeptInv, BaseOK, Based
  <2>. QED  BY <2>2, <2>3 DEF KeptInv
<1>1. ASSUME NEW p \in People, Save(p) \/ Nudge(p) PROVE KeptInv'
  BY <1>0, <1>1 DEF Save, Nudge, KeptInv, ProfileTyped
<1>2. ASSUME NEW p \in People, Shift(p) PROVE KeptInv'
  BY <1>2, BeginKeeps DEF Shift, KeptInv, ProfileTyped
<1>3. CASE Cognitive
  <2>. DEFINE r == [run["cog"] EXCEPT !.at = "query"]
  <2>1. "cog" \in Runs /\ RunOK(run["cog"]) /\ run["cog"].at = "rest"
    BY <1>3 DEF Cognitive, Runs, KeptInv, ProfileTyped
  <2>2. RunOK(r) /\ r.at = "query"
    BY <2>1 DEF RunOK, Fields
  <2>3. run' = [run EXCEPT !["cog"] = r] /\ active' = active /\ mem' \subseteq People
    BY <1>3 DEF Cognitive, KeptInv, ProfileTyped
  <2>. HIDE DEF r
  <2>. QED  BY <2>1, <2>2, <2>3, RunMoves DEF Based
<1>4. CASE ConsolidateMemory \/ Bootstrap
  BY <1>4, BeginKeeps
     DEF ConsolidateMemory, Bootstrap, memories, KeptInv, ProfileTyped
<1>5. CASE InitialConsolidation
  <2>1. PICK at \in {"query", "done"} : Begin("start", at)
    BY <1>5 DEF InitialConsolidation
  <2>. QED  BY <1>5, <2>1, BeginKeeps DEF InitialConsolidation, memories, KeptInv, ProfileTyped
<1>6. CASE ManagePersonality \/ PreferenceFastPath
  <2>1. PICK v \in Values \cup {"none"}, kind \in {"tool trait", "fast path"} :
          SetTrait(v, kind)
    BY <1>6 DEF ManagePersonality, PreferenceFastPath
  <2>. QED  BY <2>1, BeginKeeps DEF SetTrait, memories, KeptInv, ProfileTyped
<1>7. CASE SetPreference \/ RefreshPrefs
  BY <1>0, <1>7 DEF SetPreference, SetPref, RefreshPrefs, memories, KeptInv, ProfileTyped
<1>8. ASSUME NEW c \in Runs, Step(c) \/ Fail(c) \/ Rollback(c) PROVE KeptInv'
  BY <1>8, QueryKeeps, BatchKeeps, CarryKeeps, WriteKeeps, CommitKeeps, OthersKeep,
     RollbackKeeps DEF Step
<1>9. CASE UNCHANGED vars
  BY <1>0, <1>9 DEF vars, memories, KeptInv, ProfileTyped
<1>. QED  BY <1>1, <1>2, <1>3, <1>4, <1>5, <1>6, <1>7, <1>8, <1>9 DEF Next

\* A consolidation's profile has everyone the current one has, up to the cap,
\* until its transaction ends, unless somebody else wrote meanwhile or the table
\* could not be read: for any number of people, batches and faults.
THEOREM PeopleKept == Spec => []ProfileKept
<1>1. KeptInv => ProfileKept
  <2>. SUFFICES ASSUME KeptInv, NEW i \in DOMAIN active, active[i].open,
                       run[active[i].by].kind # "boot", ~run[active[i].by].excused
                PROVE  \/ Len(active[i].who) = Cap
                       \/ \A p \in DOMAIN Current : Contains(active[i].who, Current[p])
    BY DEF ProfileKept
  <2>1. PICK c \in Runs : c = active[i].by
    <3>1. active[i] \in Row
      BY DEF KeptInv, ProfileTyped
    <3>. QED  BY <3>1 DEF Row
  <2>2. run[c].at = "commit" /\ active[i].who = run[c].new
    BY <2>1 DEF KeptInv, RowsOK
  <2>3. run[c].base = Current /\ Keeps(run[c].new, run[c].base)
    BY <2>1, <2>2 DEF KeptInv, BaseOK, Based
  <2>. QED  BY <2>2, <2>3 DEF Keeps
<1>. QED  BY <1>1, InitKept, NextKept, PTL DEF Spec
=============================================================================
