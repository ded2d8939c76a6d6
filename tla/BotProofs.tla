------------------------------- MODULE BotProofs -------------------------------
(***************************************************************************)
(* Theorems about Bot, for any number of jobs, keys, messages, presses and *)
(* keyboards and any capacity of the channels, and about Inbox, for any number *)
(* of e-mails, checkers, retries and faults.                               *)
(***************************************************************************)
EXTENDS Bot, Inbox, FiniteSetTheorems, TLAPS

Presses == [t : {"press"}, n : Nat, yes : BOOLEAN, ok : BOOLEAN]
Texts == [t : {"msg"}, n : Nat]

\* An allowed user has pressed the approving button of keyboard b, which asked
\* about key.
Approves(b, key) == b \in DOMAIN boards /\ boards[b] = key /\ TRUE \in said[b]

\* An approving press under way was made by an allowed user on its keyboard.
Honest(p) == p \in Presses /\ p.ok = TRUE /\ p.yes = TRUE =>
                p.n \in DOMAIN boards /\ TRUE \in said[p.n]

BoardsOK ==
    /\ boards \in Seq(Keys \cup {Menu}) /\ said \in Seq(SUBSET BOOLEAN)
    /\ Len(said) = Len(boards)
ChannelsOK ==
    /\ kind \in Seq(Kinds)
    /\ updates \in Seq(Presses \cup Texts) /\ cbCh \in Seq(Presses)
    /\ \A i \in DOMAIN updates : Honest(updates[i])
    /\ \A i \in DOMAIN cbCh : Honest(cbCh[i])
CacheOK ==
    /\ cache \in [Keys -> Nat]
    /\ \A k \in Keys : cache[k] # 0 => Approves(cache[k], k)
RanOK == \A r \in ran : Approves(r[2], r[1])

BInv == BoardsOK /\ ChannelsOK /\ CacheOK /\ RanOK

\* A channel gains what is sent and loses what is received.
LEMMA Sent ==
    ASSUME NEW S, NEW s \in Seq(S), NEW e \in S
    PROVE  /\ Append(s, e) \in Seq(S)
           /\ \A i \in DOMAIN Append(s, e) :
                 Append(s, e)[i] = e \/ \E j \in DOMAIN s : Append(s, e)[i] = s[j]
OBVIOUS

\* What is received was in the channel, and so was what remains.
LEMMA Received ==
    ASSUME NEW S, NEW s \in Seq(S), s # <<>>
    PROVE  /\ Tail(s) \in Seq(S) /\ Head(s) \in S
           /\ \E j \in DOMAIN s : Head(s) = s[j]
           /\ \A i \in DOMAIN Tail(s) : \E j \in DOMAIN s : Tail(s)[i] = s[j]
<1>1. Head(s) = s[1] /\ 1 \in DOMAIN s
  OBVIOUS
<1>2. \A i \in DOMAIN Tail(s) : i + 1 \in DOMAIN s /\ Tail(s)[i] = s[i + 1]
  OBVIOUS
<1>. QED  BY <1>1, <1>2

\* A step that only adds keyboards and presses takes no approval back.
LEMMA ApprovalsStay ==
    ASSUME BInv, DOMAIN boards \subseteq DOMAIN boards',
           \A b \in DOMAIN boards : boards'[b] = boards[b] /\ said[b] \subseteq said'[b],
           UNCHANGED <<cache, ran>>
    PROVE  /\ CacheOK' /\ RanOK'
           /\ \A p : Honest(p) => Honest(p)'
<1>1. ASSUME NEW b, NEW k, Approves(b, k) PROVE Approves(b, k)'
  BY <1>1 DEF Approves
<1>2. ASSUME NEW p, Honest(p) PROVE Honest(p)'
  BY <1>2 DEF Honest
<1>3. CacheOK'
  BY <1>1 DEF BInv, CacheOK
<1>4. RanOK'
  BY <1>1 DEF BInv, RanOK
<1>. QED  BY <1>2, <1>3, <1>4

\* A message in the update stream is no press.
LEMMA UserSendsBInv == ASSUME BInv, NEW k \in Kinds, UserSends(k) PROVE BInv'
<1>1. boards' = boards /\ said' = said /\ cbCh' = cbCh /\ cache' = cache /\ ran' = ran
  BY DEF UserSends, ask
<1>2. [t |-> "msg", n |-> Len(kind) + 1] \in Texts
  BY DEF BInv, ChannelsOK, Texts
<1>3. Honest([t |-> "msg", n |-> Len(kind) + 1])
  BY DEF Honest, Presses
<1>4. kind' = Append(kind, k)
      /\ updates' = Append(updates, [t |-> "msg", n |-> Len(kind) + 1])
  BY DEF UserSends
<1>5. \A q : Honest(q)' <=> Honest(q)
  BY <1>1 DEF Honest
<1>6. ChannelsOK'
  BY <1>1, <1>2, <1>3, <1>4, <1>5, Sent DEF BInv, ChannelsOK
<1>. QED  BY <1>1, <1>6 DEF BInv, BoardsOK, CacheOK, RanOK, Approves

\* An approving press of an allowed user is noted where it is made.
LEMMA UserPressesBInv ==
    ASSUME BInv, NEW b \in DOMAIN boards, NEW yes \in BOOLEAN, NEW ok \in BOOLEAN,
           UserPresses(b, yes, ok)
    PROVE  BInv'
<1>. DEFINE p == [t |-> "press", n |-> b, yes |-> yes, ok |-> ok]
<1>1. boards' = boards /\ cbCh' = cbCh /\ cache' = cache /\ ran' = ran /\ kind' = kind
  BY DEF UserPresses
<1>2. /\ BoardsOK' /\ DOMAIN boards \subseteq DOMAIN boards'
      /\ \A c \in DOMAIN boards : said[c] \subseteq said'[c]
      /\ ok = TRUE => yes \in said'[b]
  BY <1>1 DEF UserPresses, BInv, BoardsOK
<1>3. CacheOK' /\ RanOK' /\ \A q : Honest(q) => Honest(q)'
  BY <1>1, <1>2, ApprovalsStay DEF BInv, BoardsOK
<1>4. p \in Presses
  BY DEF Presses, BInv, BoardsOK
<1>5. Honest(p)'
  BY <1>1, <1>2 DEF Honest
<1>6. updates' = Append(updates, p)
  BY DEF UserPresses
<1>. HIDE DEF p
<1>7. ChannelsOK'
  BY <1>1, <1>3, <1>4, <1>5, <1>6, Sent DEF BInv, ChannelsOK
<1>. QED  BY <1>2, <1>3, <1>7 DEF BInv

\* The splitter hands a press on as it is.
LEMMA SplitBInv == ASSUME BInv, Split PROVE BInv'
<1>1. /\ boards' = boards /\ said' = said /\ cache' = cache /\ ran' = ran /\ kind' = kind
      /\ updates # <<>> /\ updates' = Tail(updates)
  BY DEF Split
<1>2. updates \in Seq(Presses \cup Texts) /\ \A i \in DOMAIN updates : Honest(updates[i])
  BY DEF BInv, ChannelsOK
<1>. DEFINE h == Head(updates)
            U == Presses \cup Texts
<1>. HIDE DEF U
<1>0. updates \in Seq(U)
  BY <1>2 DEF U
<1>3. /\ updates' \in Seq(U)
      /\ \A i \in DOMAIN updates' : \E j \in DOMAIN updates : updates'[i] = updates[j]
      /\ h \in U /\ \E j \in DOMAIN updates : h = updates[j]
  <2>1. /\ Tail(updates) \in Seq(U) /\ Head(updates) \in U
        /\ \E j \in DOMAIN updates : Head(updates) = updates[j]
        /\ \A i \in DOMAIN Tail(updates) :
              \E j \in DOMAIN updates : Tail(updates)[i] = updates[j]
    BY <1>0, <1>1, Received
  <2>. QED  BY <1>1, <2>1
<1>4. (\A i \in DOMAIN updates' : Honest(updates'[i])) /\ Honest(h)
  BY <1>2, <1>3
<1>5. cbCh' = cbCh \/ (h.t = "press" /\ cbCh' = Append(cbCh, h))
  BY DEF Split
<1>6. h.t = "press" => h \in Presses
  BY <1>3 DEF U, Texts
<1>7. \A q : Honest(q)' <=> Honest(q)
  BY <1>1 DEF Honest
<1>. HIDE DEF h
<1>8. cbCh' \in Seq(Presses) /\ \A i \in DOMAIN cbCh' : Honest(cbCh'[i])
  <2>1. cbCh \in Seq(Presses) /\ \A i \in DOMAIN cbCh : Honest(cbCh[i])
    BY DEF BInv, ChannelsOK
  <2>2. CASE cbCh' = cbCh
    BY <2>1, <2>2
  <2>3. CASE h \in Presses /\ cbCh' = Append(cbCh, h)
    BY <1>4, <2>1, <2>3, Sent
  <2>. QED  BY <1>5, <1>6, <2>2, <2>3
<1>9. ChannelsOK'
  BY <1>1, <1>3, <1>4, <1>7, <1>8 DEF U, BInv, ChannelsOK
<1>. QED  BY <1>1, <1>9 DEF BInv, BoardsOK, CacheOK, RanOK, Approves
-----------------------------------------------------------------------------
\* A new keyboard.
LEMMA AskBInv ==
    ASSUME BInv, NEW o, NEW what \in Keys \cup {Menu}, Ask(o, what),
           updates' = updates, kind' = kind
    PROVE  BInv'
<1>1. boards' = Append(boards, what) /\ said' = Append(said, {})
      /\ cbCh' = cbCh /\ UNCHANGED <<cache, ran>>
  BY DEF Ask
<1>2. /\ BoardsOK' /\ DOMAIN boards \subseteq DOMAIN boards'
      /\ \A b \in DOMAIN boards : boards'[b] = boards[b] /\ said[b] \subseteq said'[b]
  BY <1>1 DEF BInv, BoardsOK
<1>3. CacheOK' /\ RanOK' /\ \A q : Honest(q) => Honest(q)'
  BY <1>1, <1>2, ApprovalsStay
<1>4. ChannelsOK'
  BY <1>1, <1>3 DEF BInv, ChannelsOK
<1>. QED  BY <1>2, <1>3, <1>4 DEF BInv

\* A gated call goes through on a cached approval, or asks.
LEMMA GatedCallBInv ==
    ASSUME BInv, NEW o, NEW key \in Keys, GatedCall(o, key),
           updates' = updates, kind' = kind
    PROVE  BInv'
<1>1. CASE cache[key] # 0
  <2>1. boards' = boards /\ said' = said /\ cbCh' = cbCh /\ cache' = cache
        /\ ran' = ran \cup {<<key, cache[key]>>}
    BY <1>1 DEF GatedCall, Execute
  <2>2. Approves(cache[key], key)
    BY <1>1 DEF BInv, CacheOK
  <2>3. \A r \in ran' : Approves(r[2], r[1])
    BY <2>1, <2>2 DEF BInv, RanOK
  <2>4. RanOK'
    BY <2>1, <2>3 DEF RanOK, Approves
  <2>. QED
    BY <2>1, <2>4 DEF BInv, BoardsOK, ChannelsOK, CacheOK, Approves, Honest
<1>2. CASE cache[key] = 0
  BY <1>2, AskBInv DEF GatedCall
<1>. QED  BY <1>1, <1>2

\* What a wait takes for an approval is a press of an allowed user on its own
\* keyboard.
LEMMA ReceiveBInv == ASSUME BInv, NEW o \in Owners, Receive(o) PROVE BInv'
<1>. DEFINE p == Head(cbCh)
            b == asking[o]
<1>1. /\ boards' = boards /\ said' = said /\ updates' = updates /\ kind' = kind
      /\ cbCh # <<>> /\ cbCh' = Tail(cbCh)
  BY DEF Receive, chat
<1>2. p \in Presses /\ Honest(p)
  BY <1>1, Received DEF BInv, ChannelsOK
<1>3. \A q : Honest(q)' <=> Honest(q)
  BY <1>1 DEF Honest
<1>6. BoardsOK' /\ ChannelsOK'
  BY <1>1, <1>3, Received DEF BInv, BoardsOK, ChannelsOK
<1>4. CASE Answers(o, p) /\ p.yes /\ boards[b] \in Keys
  <2>1. /\ cache' = [cache EXCEPT ![boards[b]] = b]
        /\ ran' = ran \cup {<<boards[b], b>>}
    BY <1>4 DEF Receive, Execute
  <2>2. p.ok = TRUE /\ p.yes = TRUE /\ p.n = b
    BY <1>2, <1>4 DEF Answers, Presses
  <2>3. Approves(b, boards[b]) /\ b \in Nat
    BY <1>2, <2>2 DEF Honest, Approves, Presses
  <2>. HIDE DEF b, p
  <2>4. CacheOK'
    BY <1>1, <1>4, <2>1, <2>3 DEF BInv, CacheOK, Approves
  <2>5. \A r \in ran' : Approves(r[2], r[1])
    BY <2>1, <2>3 DEF BInv, RanOK
  <2>6. RanOK'
    BY <1>1, <2>5 DEF RanOK, Approves
  <2>. QED  BY <1>6, <2>4, <2>6 DEF BInv
<1>5. CASE ~(Answers(o, p) /\ p.yes /\ boards[b] \in Keys)
  <2>1. UNCHANGED <<cache, ran>>
    BY <1>5 DEF Receive
  <2>. QED  BY <1>1, <1>6, <2>1 DEF BInv, CacheOK, RanOK, Approves
<1>. QED  BY <1>4, <1>5

\* Everything else only takes approvals away.
LEMMA OtherBInv ==
    ASSUME BInv, UNCHANGED <<boards, said, ran, updates, kind>>,
           cbCh' \in {cbCh, <<>>}, cache' \in [Keys -> Nat],
           \A k \in Keys : cache'[k] \in {0, cache[k]}
    PROVE  BInv'
<1>1. BoardsOK' /\ \A q : Honest(q)' <=> Honest(q)
  BY DEF BInv, BoardsOK, Honest
<1>4. cbCh' \in Seq(Presses) /\ \A i \in DOMAIN cbCh' : Honest(cbCh'[i])
  <2>1. CASE cbCh' = cbCh
    BY <2>1 DEF BInv, ChannelsOK
  <2>2. CASE cbCh' = <<>>
    BY <2>2
  <2>. QED  BY <2>1, <2>2
<1>5. ChannelsOK'
  BY <1>1, <1>4 DEF BInv, ChannelsOK
<1>2. CacheOK'
  BY DEF BInv, CacheOK, Approves
<1>3. RanOK'
  BY DEF BInv, RanOK, Approves
<1>. QED  BY <1>1, <1>2, <1>3, <1>5 DEF BInv

\* What touches neither keyboards, channels, cache nor calls disturbs nothing.
LEMMA QuietBInv ==
    ASSUME BInv, UNCHANGED <<boards, said, ran, updates, kind, cbCh, cache>>
    PROVE  BInv'
BY DEF BInv, BoardsOK, ChannelsOK, CacheOK, RanOK, Approves, Honest

\* Every step of the chat keeps the way of an approval.
LEMMA NextBInv == BInv /\ [Next]_vars => BInv'
<1>. SUFFICES ASSUME BInv, [Next]_vars PROVE BInv'
  OBVIOUS
<1>1. ASSUME NEW k \in Kinds, UserSends(k) PROVE BInv'
  BY <1>1, UserSendsBInv
<1>2. ASSUME NEW b \in DOMAIN boards, NEW yes \in BOOLEAN, NEW ok \in BOOLEAN,
             UserPresses(b, yes, ok)
      PROVE  BInv'
  BY <1>2, UserPressesBInv
<1>3. CASE Split
  BY <1>3, SplitBInv
<1>4. CASE Take \/ Respond \/ AuthReads \/ AuthTimesOut \/ LeftoverReads
  BY <1>4, QuietBInv DEF Take, Respond, AuthReads, AuthTimesOut, LeftoverReads, ask
<1>5. CASE PromptUser
  BY <1>5, AskBInv DEF PromptUser, AskMenu
<1>6. ASSUME NEW o \in Owners, Receive(o) PROVE BInv'
  BY <1>6, ReceiveBInv
<1>7. ASSUME NEW o \in Owners, GiveUp(o) PROVE BInv'
  BY <1>7, QuietBInv DEF GiveUp, chat
<1>8. ASSUME NEW k \in Keys, Expire(k) PROVE BInv'
  BY <1>8, OtherBInv DEF Expire, chat, BInv, CacheOK
<1>9. ASSUME NEW k \in Keys, MainCalls(k) PROVE BInv'
  BY <1>9, GatedCallBInv DEF MainCalls
<1>10. ASSUME NEW j \in Jobs, ReplyToJob(j) \/ CancelJob(j) \/ SpawnJob(j) PROVE BInv'
  BY <1>10, QuietBInv DEF ReplyToJob, CancelJob, SpawnJob, ask
<1>11. ASSUME NEW j \in Jobs, NEW k \in Keys, JobCalls(j, k) PROVE BInv'
  BY <1>11, GatedCallBInv DEF JobCalls, chat
<1>12. ASSUME NEW j \in Jobs, JobStep(j) PROVE BInv'
  BY <1>12, QuietBInv DEF JobStep, Round, Answered, Failed, Wake, Removed, ask, chat
<1>13. CASE Restart
  BY <1>13, OtherBInv DEF Restart
<1>14. CASE UNCHANGED vars
  BY <1>14, QuietBInv DEF vars, ask, chat
<1>. QED
  BY <1>1, <1>2, <1>3, <1>4, <1>5, <1>6, <1>7, <1>8, <1>9, <1>10, <1>11, <1>12,
     <1>13, <1>14 DEF Next

\* At the start nothing was asked, pressed or approved.
LEMMA InitBInv == Init => BInv
BY DEF Init, BInv, BoardsOK, ChannelsOK, CacheOK, RanOK

\* However presses, expiries, time-outs, waits of several goroutines and
\* restarts interleave, no gated call runs without the approval of an allowed
\* user under a keyboard that asked about that very call.
THEOREM GatedCallsApproved == Spec => []ApprovedBeforeRun
<1>1. BInv => ApprovedBeforeRun
  BY DEF BInv, RanOK, Approves, ApprovedBeforeRun
<1>. QED  BY <1>1, InitBInv, NextBInv, PTL DEF Spec
-----------------------------------------------------------------------------
\* Without an overlap one keyboard at most is waited on, and no press in time
\* has been dropped.
Heard ==
    /\ asking \in [Owners -> Nat]
    /\ overlap \in BOOLEAN
    /\ overlap \/ (stolen = {} /\ \A o, w \in Waiting : o = w)

\* A new wait overlaps with one that is there.
LEMMA AskHeard == ASSUME BInv, Heard, NEW o \in Owners, NEW what, Ask(o, what) PROVE Heard'
<1>1. Len(boards) + 1 \in Nat
  BY DEF BInv, BoardsOK
<1>2. asking' = [asking EXCEPT ![o] = Len(boards) + 1] /\ stolen' = stolen
      /\ overlap' = (overlap \/ Waiting # {})
  BY DEF Ask
<1>3. asking' \in [Owners -> Nat] /\ overlap' \in BOOLEAN
  BY <1>1, <1>2 DEF Heard
<1>4. CASE overlap \/ Waiting # {}
  BY <1>2, <1>3, <1>4 DEF Heard
<1>5. CASE ~overlap /\ Waiting = {}
  <2>1. Waiting' \subseteq {o}
    BY <1>2, <1>5 DEF Waiting, Heard
  <2>2. stolen' = {}
    BY <1>2, <1>5 DEF Heard
  <2>. QED  BY <1>3, <2>1, <2>2 DEF Heard
<1>. QED  BY <1>4, <1>5

\* A wait that is over leaves the others as they were.
LEMMA OverHeard ==
    ASSUME Heard, UNCHANGED <<overlap, stolen>>, asking' \in [Owners -> Nat],
           \A o \in Owners : asking'[o] \in {0, asking[o]}
    PROVE  Heard'
<1>1. Waiting' \subseteq Waiting
  BY DEF Waiting
<1>. QED  BY <1>1 DEF Heard

\* The only keyboard that is waited on is the receiver's own.
LEMMA ReceiveHeard == ASSUME Heard, NEW o \in Owners, Receive(o) PROVE Heard'
<1>. DEFINE p == Head(cbCh)
<1>1. /\ asking[o] # 0 /\ overlap' = overlap
      /\ asking' = IF Answers(o, p) THEN [asking EXCEPT ![o] = 0] ELSE asking
      /\ stolen' = IF ~Answers(o, p) /\ p.ok /\ \E w \in Waiting : asking[w] = p.n
                   THEN stolen \cup {p.n} ELSE stolen
  BY DEF Receive
<1>. HIDE DEF p
<1>2. Waiting' \subseteq Waiting /\ asking' \in [Owners -> Nat]
  BY <1>1 DEF Waiting, Heard
<1>3. CASE overlap
  BY <1>1, <1>2, <1>3 DEF Heard
<1>4. CASE ~overlap
  <2>1. \A w \in Waiting : w = o
    BY <1>1, <1>4 DEF Heard, Waiting
  <2>2. stolen' = {}
    BY <1>1, <1>4, <2>1 DEF Answers, Heard
  <2>. QED  BY <1>1, <1>2, <2>2, <2>1 DEF Heard
<1>. QED  BY <1>3, <1>4

\* Whoever has an answer from the cache does not wait.
LEMMA GatedCallHeard ==
    ASSUME BInv, Heard, NEW o \in Owners, NEW key, GatedCall(o, key)
    PROVE  Heard'
<1>1. CASE cache[key] # 0
  BY <1>1 DEF GatedCall, Heard, Waiting
<1>2. CASE cache[key] = 0
  BY <1>2, AskHeard DEF GatedCall
<1>. QED  BY <1>1, <1>2

\* Who waits, and whether waits overlapped, decides Heard.
LEMMA SameHeard == ASSUME Heard, UNCHANGED <<asking, overlap, stolen>> PROVE Heard'
BY DEF Heard, Waiting

\* A press is received by the wait it is for while no two waits overlap.
LEMMA NextHeard == BInv /\ Heard /\ [Next]_vars => Heard'
<1>. SUFFICES ASSUME BInv, Heard, [Next]_vars PROVE Heard'
  OBVIOUS
<1>1. ASSUME NEW k \in Kinds, UserSends(k) PROVE Heard'
  BY <1>1, SameHeard DEF UserSends, ask
<1>2. ASSUME NEW b \in DOMAIN boards, NEW yes \in BOOLEAN, NEW ok \in BOOLEAN,
             UserPresses(b, yes, ok)
      PROVE  Heard'
  BY <1>2, SameHeard DEF UserPresses
<1>3. CASE Split \/ Take \/ Respond \/ AuthReads \/ AuthTimesOut \/ LeftoverReads
  BY <1>3, SameHeard DEF Split, Take, Respond, AuthReads, AuthTimesOut, LeftoverReads, ask
<1>4. CASE PromptUser
  BY <1>4, AskHeard DEF PromptUser, AskMenu, Owners
<1>5. ASSUME NEW o \in Owners, Receive(o) PROVE Heard'
  BY <1>5, ReceiveHeard
<1>6. ASSUME NEW o \in Owners, GiveUp(o) PROVE Heard'
  BY <1>6, OverHeard DEF GiveUp, Heard
<1>7. ASSUME NEW k \in Keys, Expire(k) PROVE Heard'
  BY <1>7, SameHeard DEF Expire
<1>8. ASSUME NEW k \in Keys, MainCalls(k) PROVE Heard'
  BY <1>8, GatedCallHeard DEF MainCalls, Owners
<1>9. ASSUME NEW j \in Jobs, ReplyToJob(j) \/ CancelJob(j) \/ SpawnJob(j) PROVE Heard'
  BY <1>9, SameHeard DEF ReplyToJob, CancelJob, SpawnJob, ask
<1>10. ASSUME NEW j \in Jobs, NEW k \in Keys, JobCalls(j, k) PROVE Heard'
  BY <1>10, GatedCallHeard DEF JobCalls, Owners
<1>11. ASSUME NEW j \in Jobs, JobStep(j) PROVE Heard'
  BY <1>11, SameHeard DEF JobStep, Round, Answered, Failed, Wake, Removed, ask
<1>12. CASE Restart
  BY <1>12, OverHeard DEF Restart
<1>13. CASE UNCHANGED vars
  BY <1>13, SameHeard DEF vars, ask
<1>. QED
  BY <1>1, <1>2, <1>3, <1>4, <1>5, <1>6, <1>7, <1>8, <1>9, <1>10, <1>11, <1>12,
     <1>13 DEF Next

\* With one wait at a time, however many goroutines and keyboards there are and
\* whenever they time out, no press on the keyboard that is waited on is
\* dropped (telegram.go:215-217).
THEOREM PressesHeard == Spec => []PressHeard
<1>1. ASSUME Init PROVE Heard
  <2>1. asking \in [Owners -> Nat] /\ overlap = FALSE /\ stolen = {}
    BY <1>1 DEF Init
  <2>2. Waiting = {}
    BY <1>1 DEF Init, Waiting
  <2>. QED  BY <2>1, <2>2 DEF Heard
<1>2. BInv /\ Heard => PressHeard
  BY DEF Heard, PressHeard
<1>. QED  BY <1>1, <1>2, InitBInv, NextBInv, NextHeard, PTL DEF Spec
-----------------------------------------------------------------------------
\* The messages on their way, oldest first: those in msgChan, those the splitter
\* has yet to deliver.
Fates == {"waiting", "handled", "skipped", "read", "lost"}
Rising(s) == \A i, k \in DOMAIN s : i < k => s[i] < s[k]
Texting(u) == {i \in DOMAIN u : u[i].t = "msg"}
Numbers(u) == {u[i].n : i \in Texting(u)}
RisingTexts(u) == \A i, k \in Texting(u) : i < k => u[i].n < u[k].n
Listed == {msgCh[i] : i \in DOMAIN msgCh}
OnTheWay == Listed \cup Numbers(updates)

\* Nothing has become of a message on its way; the one that is being handled
\* came before them.
InTurn ==
    /\ msgCh \in Seq(Nat) /\ fate \in Seq(Fates)
    /\ Len(fate) = Len(kind) /\ readers \in Nat
    /\ Rising(msgCh) /\ RisingTexts(updates)
    /\ \A n \in Listed, m \in Numbers(updates) : n < m
    /\ \A n \in OnTheWay : n \in DOMAIN kind /\ fate[n] = "waiting"
    /\ main.st # "idle" => /\ main.msg \in DOMAIN kind
                           /\ \A n \in OnTheWay : main.msg < n
    /\ main.st = "auth" => kind[main.msg] = "google" /\ fate[main.msg] = "waiting"

\* Every reader that is left over, and every message read as a code, is paid for
\* by a /google that is dealt with.
ReadOnes == {n \in DOMAIN fate : fate[n] = "read"}
Spent == {n \in DOMAIN kind : kind[n] = "google" /\ fate[n] # "waiting"}
ReadsPaid == readers + Cardinality(ReadOnes) <= Cardinality(Spent)

\* A finite set that gains at most one element, or at least one.
LEMMA CountMore ==
    ASSUME NEW S, NEW T, NEW e, IsFiniteSet(S), T \subseteq S \cup {e}
    PROVE  /\ Cardinality(S) \in Nat /\ Cardinality(T) \in Nat
           /\ Cardinality(T) <= Cardinality(S) + 1
           /\ e \in S => Cardinality(T) <= Cardinality(S)
<1>1. IsFiniteSet(S \cup {e}) /\ Cardinality(S) \in Nat
      /\ Cardinality(S \cup {e}) = IF e \in S THEN Cardinality(S) ELSE Cardinality(S) + 1
  BY FS_AddElement, FS_CardinalityType
<1>2. Cardinality(T) <= Cardinality(S \cup {e}) /\ IsFiniteSet(T)
  BY <1>1, FS_Subset
<1>3. Cardinality(T) \in Nat
  BY <1>2, FS_CardinalityType
<1>. QED  BY <1>1, <1>2, <1>3

\* A larger finite set has no fewer members, and one more for a member added.
LEMMA CountGrows ==
    ASSUME NEW S, NEW T, IsFiniteSet(T), S \subseteq T
    PROVE  /\ Cardinality(S) \in Nat /\ Cardinality(T) \in Nat
           /\ Cardinality(S) <= Cardinality(T)
           /\ \A e \in T \ S : Cardinality(S) + 1 <= Cardinality(T)
<1>1. IsFiniteSet(S) /\ Cardinality(S) <= Cardinality(T)
  BY FS_Subset
<1>2. Cardinality(S) \in Nat /\ Cardinality(T) \in Nat
  BY <1>1, FS_CardinalityType
<1>3. ASSUME NEW e \in T \ S PROVE Cardinality(S) + 1 <= Cardinality(T)
  <2>1. Cardinality(S \cup {e}) = Cardinality(S) + 1
    BY <1>1, <1>3, FS_AddElement
  <2>2. Cardinality(S \cup {e}) <= Cardinality(T)
    BY <1>3, FS_Subset
  <2>. QED  BY <2>1, <2>2
<1>. QED  BY <1>1, <1>2, <1>3

\* The channels are finite.
LEMMA FinitelyMany == InTurn /\ BInv => IsFiniteSet(ReadOnes) /\ IsFiniteSet(Spent)
<1>. SUFFICES ASSUME InTurn, BInv PROVE IsFiniteSet(ReadOnes) /\ IsFiniteSet(Spent)
  OBVIOUS
<1>1. DOMAIN kind = 1 .. Len(kind) /\ DOMAIN fate = 1 .. Len(kind) /\ Len(kind) \in Nat
  BY DEF InTurn, BInv, ChannelsOK
<1>2. IsFiniteSet(1 .. Len(kind))
  BY <1>1, FS_Interval
<1>. QED  BY <1>1, <1>2, FS_Subset DEF ReadOnes, Spent

\* What a receive and a send do to a channel of rising numbers.
LEMMA NextInLine ==
    ASSUME NEW s \in Seq(Nat), s # <<>>, Rising(s)
    PROVE  /\ Tail(s) \in Seq(Nat) /\ Rising(Tail(s)) /\ Head(s) \in {s[i] : i \in DOMAIN s}
           /\ \A i \in DOMAIN Tail(s) :
                 Head(s) < Tail(s)[i] /\ Tail(s)[i] \in {s[k] : k \in DOMAIN s}
<1>1. Head(s) = s[1] /\ 1 \in DOMAIN s /\ Tail(s) \in Seq(Nat)
  OBVIOUS
<1>2. \A i \in DOMAIN Tail(s) : i \in Nat /\ i + 1 \in DOMAIN s /\ Tail(s)[i] = s[i + 1] /\ 1 < i + 1
  OBVIOUS
<1>3. Rising(Tail(s))
  BY <1>2 DEF Rising
<1>. QED  BY <1>1, <1>2, <1>3 DEF Rising

\* The newest number goes to the end of a rising line of messages.
LEMMA LastInLine ==
    ASSUME NEW s \in Seq(Nat), Rising(s), NEW n \in Nat, \A i \in DOMAIN s : s[i] < n
    PROVE  /\ Append(s, n) \in Seq(Nat) /\ Rising(Append(s, n))
           /\ \A i \in DOMAIN Append(s, n) :
                 Append(s, n)[i] \in {s[k] : k \in DOMAIN s} \cup {n}
<1>1. /\ Append(s, n) \in Seq(Nat)
      /\ \A i \in DOMAIN Append(s, n) :
            \/ i \in DOMAIN s /\ Append(s, n)[i] = s[i]
            \/ i = Len(s) + 1 /\ Append(s, n)[i] = n
  OBVIOUS
<1>2. \A i \in DOMAIN s : i \in Nat /\ i < Len(s) + 1
  OBVIOUS
<1>3. Rising(Append(s, n))
  BY <1>1, <1>2 DEF Rising
<1>. QED  BY <1>1, <1>3

\* The same of the updates, of which only the messages count.
LEMMA NextText ==
    ASSUME NEW u \in Seq(Presses \cup Texts), u # <<>>, RisingTexts(u)
    PROVE  /\ RisingTexts(Tail(u)) /\ Numbers(Tail(u)) \subseteq Numbers(u)
           /\ Head(u).t = "msg" => /\ Head(u).n \in Numbers(u)
                                   /\ \A m \in Numbers(Tail(u)) : Head(u).n < m
<1>1. Head(u) = u[1] /\ 1 \in DOMAIN u
  OBVIOUS
<1>2. \A i \in DOMAIN Tail(u) : i \in Nat /\ i + 1 \in DOMAIN u /\ Tail(u)[i] = u[i + 1] /\ 1 < i + 1
  OBVIOUS
<1>3. \A i \in Texting(Tail(u)) : i \in Nat /\ i + 1 \in Texting(u) /\ Tail(u)[i] = u[i + 1] /\ 1 < i + 1
  BY <1>2 DEF Texting
<1>4. RisingTexts(Tail(u))
  <2>1. SUFFICES ASSUME NEW i \in Texting(Tail(u)), NEW k \in Texting(Tail(u)), i < k
                 PROVE  Tail(u)[i].n < Tail(u)[k].n
    BY DEF RisingTexts
  <2>2. i + 1 \in Texting(u) /\ k + 1 \in Texting(u) /\ i + 1 < k + 1
    BY <1>3, <2>1
  <2>3. u[i + 1].n < u[k + 1].n
    BY <2>2 DEF RisingTexts
  <2>. QED  BY <1>3, <2>3
<1>5. Numbers(Tail(u)) \subseteq Numbers(u)
  BY <1>3 DEF Numbers
<1>6. ASSUME Head(u).t = "msg"
      PROVE  Head(u).n \in Numbers(u) /\ \A m \in Numbers(Tail(u)) : Head(u).n < m
  <2>1. 1 \in Texting(u) /\ Head(u).n = u[1].n
    BY <1>1, <1>6 DEF Texting
  <2>. QED  BY <1>3, <2>1 DEF Numbers, RisingTexts
<1>. QED  BY <1>4, <1>5, <1>6

\* An update that is no message, or the newest, keeps the texts in their order.
LEMMA LastText ==
    ASSUME NEW u \in Seq(Presses \cup Texts), RisingTexts(u), NEW e,
           e.t = "msg" => \A m \in Numbers(u) : m < e.n
    PROVE  /\ RisingTexts(Append(u, e))
           /\ Numbers(Append(u, e)) \subseteq Numbers(u) \cup (IF e.t = "msg" THEN {e.n} ELSE {})
<1>1. \A i \in DOMAIN Append(u, e) :
            \/ i \in DOMAIN u /\ Append(u, e)[i] = u[i]
            \/ i = Len(u) + 1 /\ Append(u, e)[i] = e
  OBVIOUS
<1>2. \A i \in DOMAIN u : i \in Nat /\ i < Len(u) + 1
  OBVIOUS
<1>3. \A i \in Texting(Append(u, e)) :
            \/ i \in Texting(u) /\ Append(u, e)[i] = u[i]
            \/ i = Len(u) + 1 /\ Append(u, e)[i] = e /\ e.t = "msg"
  BY <1>1 DEF Texting
<1>4. RisingTexts(Append(u, e))
  <2>1. \A i \in Texting(u) : i \in DOMAIN u /\ u[i].n \in Numbers(u)
    BY DEF Numbers, Texting
  <2>2. SUFFICES ASSUME NEW i \in Texting(Append(u, e)), NEW k \in Texting(Append(u, e)), i < k
                 PROVE  Append(u, e)[i].n < Append(u, e)[k].n
    BY DEF RisingTexts
  <2>3. i \in Texting(u) /\ Append(u, e)[i] = u[i]
    BY <1>2, <1>3, <2>1, <2>2
  <2>4. CASE k \in Texting(u) /\ Append(u, e)[k] = u[k]
    BY <2>2, <2>3, <2>4 DEF RisingTexts
  <2>5. CASE Append(u, e)[k] = e /\ e.t = "msg"
    BY <2>1, <2>3, <2>5
  <2>. QED  BY <1>3, <2>4, <2>5
<1>5. Numbers(Append(u, e)) \subseteq Numbers(u) \cup (IF e.t = "msg" THEN {e.n} ELSE {})
  BY <1>3 DEF Numbers
<1>. QED  BY <1>4, <1>5

\* A step after which no more messages are on their way than before.
LEMMA FewerInTurn ==
    ASSUME InTurn, kind' = kind, updates' = updates,
           msgCh' \in Seq(Nat), Rising(msgCh'), Listed' \subseteq Listed,
           fate' \in Seq(Fates), Len(fate') = Len(fate), readers' \in Nat,
           \A n \in OnTheWay' : fate'[n] = fate[n],
           main'.st # "idle" => /\ main'.msg \in DOMAIN kind
                                /\ \A n \in OnTheWay' : main'.msg < n,
           main'.st = "auth" => kind[main'.msg] = "google" /\ fate'[main'.msg] = "waiting"
    PROVE  InTurn'
<1>1. OnTheWay' \subseteq OnTheWay
  BY DEF OnTheWay
<1>2. \A n \in Listed', m \in Numbers(updates') : n < m
  BY DEF InTurn
<1>3. \A n \in OnTheWay' : n \in DOMAIN kind' /\ fate'[n] = "waiting"
  BY <1>1 DEF InTurn
<1>4. Len(fate') = Len(kind') /\ RisingTexts(updates')
  BY DEF InTurn
<1>. QED  BY <1>2, <1>3, <1>4 DEF InTurn

\* A step that is no business of the messages.
LEMMA QuietInTurn ==
    ASSUME InTurn, UNCHANGED <<kind, fate, updates, msgCh, readers>>,
           main'.st = main.st, main'.msg = main.msg
    PROVE  InTurn'
<1>1. Listed' = Listed /\ OnTheWay' = OnTheWay
  BY DEF Listed, OnTheWay
<1>. QED  BY <1>1, FewerInTurn DEF InTurn

\* The message that is being handled is dealt with.
LEMMA SettledInTurn ==
    ASSUME InTurn, main.st # "idle", UNCHANGED <<kind, updates, msgCh>>,
           Settle(main.msg, "handled"), main' = Idle, readers' \in Nat
    PROVE  InTurn'
<1>1. Listed' = Listed /\ OnTheWay' = OnTheWay
  BY DEF Listed, OnTheWay
<1>2. fate' \in Seq(Fates) /\ Len(fate') = Len(fate)
  BY DEF Settle, InTurn, Fates
<1>3. \A n \in OnTheWay : n \in Nat /\ main.msg \in Nat /\ main.msg < n
  BY DEF InTurn
<1>4. \A n \in OnTheWay' : fate'[n] = fate[n]
  BY <1>1, <1>3 DEF Settle, InTurn
<1>. QED  BY <1>1, <1>2, <1>4, FewerInTurn DEF InTurn, Idle

\* The next message is received, by whomever.
LEMMA ReceivedInTurn ==
    ASSUME InTurn, msgCh # <<>>, msgCh' = Tail(msgCh), UNCHANGED <<kind, updates>>,
           fate' \in Seq(Fates), Len(fate') = Len(fate), readers' \in Nat,
           \A n \in DOMAIN fate : fate'[n] = fate[n] \/ n = Head(msgCh)
                                  \/ (n = main.msg /\ main.st # "idle"),
           main'.st # "idle" => \/ main'.msg = main.msg /\ main.st # "idle"
                                \/ main'.msg = Head(msgCh),
           main'.st = "auth" => kind[main'.msg] = "google" /\ fate'[main'.msg] = "waiting"
    PROVE  InTurn'
<1>1. /\ Tail(msgCh) \in Seq(Nat) /\ Rising(Tail(msgCh)) /\ Head(msgCh) \in Listed
      /\ \A i \in DOMAIN Tail(msgCh) :
            Head(msgCh) < Tail(msgCh)[i] /\ Tail(msgCh)[i] \in Listed
  BY NextInLine DEF InTurn, Listed
<1>2. Listed' \subseteq Listed /\ \A n \in Listed' : Head(msgCh) < n
  BY <1>1 DEF Listed
<1>3. \A n \in Numbers(updates) : Head(msgCh) < n
  BY <1>1 DEF InTurn
<1>4. OnTheWay' \subseteq OnTheWay /\ \A n \in OnTheWay' : Head(msgCh) < n
  BY <1>2, <1>3 DEF OnTheWay
<1>5. \A n \in OnTheWay : n \in DOMAIN fate /\ n \in Nat
  BY DEF InTurn
<1>6. Head(msgCh) \in DOMAIN kind /\ Head(msgCh) \in Nat
  BY <1>1, <1>5 DEF OnTheWay, InTurn
<1>7. \A n \in OnTheWay' : fate'[n] = fate[n]
  BY <1>4, <1>5, <1>6 DEF InTurn
<1>8. main'.st # "idle" => /\ main'.msg \in DOMAIN kind
                           /\ \A n \in OnTheWay' : main'.msg < n
  BY <1>4, <1>6 DEF InTurn
<1>. QED  BY <1>1, <1>2, <1>7, <1>8, FewerInTurn

\* A message is sent: the last in line.
LEMMA UserSendsInTurn ==
    ASSUME BInv, InTurn, NEW k \in Kinds, UserSends(k)
    PROVE  InTurn' /\ ReadOnes' \subseteq ReadOnes /\ Spent \subseteq Spent'
<1>. DEFINE n == Len(kind) + 1
            e == [t |-> "msg", n |-> n]
<1>1. /\ kind' = Append(kind, k) /\ fate' = Append(fate, "waiting")
      /\ updates' = Append(updates, e) /\ UNCHANGED <<msgCh, main, readers>>
  BY DEF UserSends
<1>2. /\ DOMAIN kind = 1 .. Len(kind) /\ DOMAIN fate = DOMAIN kind /\ Len(kind) \in Nat
      /\ kind \in Seq(Kinds) /\ fate \in Seq(Fates) /\ updates \in Seq(Presses \cup Texts)
  BY DEF BInv, ChannelsOK, InTurn
<1>3. \A m \in OnTheWay : m < n
  BY <1>2 DEF InTurn
<1>4. e.t = "msg" /\ e.n = n
  OBVIOUS
<1>. HIDE DEF e
<1>5. RisingTexts(Append(updates, e)) /\ Numbers(Append(updates, e)) \subseteq Numbers(updates) \cup {n}
  <2>1. \A m \in Numbers(updates) : m < e.n
    BY <1>3, <1>4 DEF OnTheWay
  <2>. QED  BY <1>2, <1>4, <2>1, LastText DEF InTurn
<1>6. /\ DOMAIN kind' = 1 .. n /\ DOMAIN fate' = 1 .. n /\ n \in Nat
      /\ Len(kind') = n /\ Len(fate') = n
      /\ \A i \in 1 .. Len(kind) : kind'[i] = kind[i] /\ fate'[i] = fate[i]
      /\ fate'[n] = "waiting" /\ fate' \in Seq(Fates)
  BY <1>1, <1>2 DEF Fates
<1>. HIDE DEF n
<1>7. Listed' = Listed /\ OnTheWay' \subseteq OnTheWay \cup {n}
  BY <1>1, <1>5 DEF Listed, OnTheWay
<1>8. \A i \in OnTheWay' : i \in DOMAIN kind' /\ fate'[i] = "waiting"
  BY <1>2, <1>6, <1>7 DEF InTurn, n
<1>9. \A i \in Listed', m \in Numbers(updates') : i < m
  BY <1>1, <1>3, <1>5, <1>7 DEF InTurn, OnTheWay
<1>10. main'.st # "idle" => main'.msg \in DOMAIN kind' /\ \A i \in OnTheWay' : main'.msg < i
  BY <1>1, <1>2, <1>6, <1>7 DEF InTurn, n
<1>11. main'.st = "auth" => kind'[main'.msg] = "google" /\ fate'[main'.msg] = "waiting"
  BY <1>1, <1>2, <1>6 DEF InTurn
<1>12. InTurn'
  BY <1>1, <1>5, <1>6, <1>8, <1>9, <1>10, <1>11 DEF InTurn
<1>13. ReadOnes' \subseteq ReadOnes
  BY <1>2, <1>6 DEF ReadOnes, n
<1>14. Spent \subseteq Spent'
  BY <1>2, <1>6 DEF Spent, n
<1>. QED  BY <1>12, <1>13, <1>14

\* A press is no message.
LEMMA UserPressesInTurn ==
    ASSUME BInv, InTurn, NEW b, NEW yes, NEW ok, UserPresses(b, yes, ok)
    PROVE  InTurn' /\ ReadOnes' = ReadOnes /\ Spent' = Spent
<1>. DEFINE e == [t |-> "press", n |-> b, yes |-> yes, ok |-> ok]
<1>1. updates' = Append(updates, e) /\ UNCHANGED <<kind, fate, msgCh, main, readers>>
  BY DEF UserPresses
<1>2. e.t # "msg" /\ updates \in Seq(Presses \cup Texts)
  BY DEF BInv, ChannelsOK
<1>. HIDE DEF e
<1>3. RisingTexts(updates') /\ Numbers(updates') \subseteq Numbers(updates)
  BY <1>1, <1>2, LastText DEF InTurn
<1>4. Listed' = Listed /\ OnTheWay' \subseteq OnTheWay
  BY <1>1, <1>3 DEF Listed, OnTheWay
<1>. QED  BY <1>1, <1>3, <1>4 DEF InTurn, ReadOnes, Spent

\* The splitter keeps the order.
LEMMA SplitInTurn ==
    ASSUME BInv, InTurn, Split
    PROVE  InTurn' /\ ReadOnes' = ReadOnes /\ Spent' = Spent
<1>. DEFINE u == Head(updates)
<1>1. /\ updates # <<>> /\ updates' = Tail(updates) /\ UNCHANGED <<kind, fate, main, readers>>
      /\ msgCh' = msgCh \/ (u.t = "msg" /\ msgCh' = Append(msgCh, u.n))
  BY DEF Split
<1>2. /\ RisingTexts(updates') /\ Numbers(updates') \subseteq Numbers(updates)
      /\ u.t = "msg" => u.n \in Numbers(updates) /\ \A m \in Numbers(updates') : u.n < m
  BY <1>1, NextText DEF BInv, ChannelsOK, InTurn
<1>. HIDE DEF u
<1>3. CASE msgCh' = msgCh
  <2>1. Listed' = Listed /\ OnTheWay' \subseteq OnTheWay
    BY <1>2, <1>3 DEF Listed, OnTheWay
  <2>. QED  BY <1>1, <1>2, <1>3, <2>1 DEF InTurn, ReadOnes, Spent
<1>4. CASE u.t = "msg" /\ msgCh' = Append(msgCh, u.n)
  <2>1. u.n \in DOMAIN kind /\ u.n \in Nat /\ \A i \in DOMAIN msgCh : msgCh[i] < u.n
    BY <1>2, <1>4 DEF InTurn, OnTheWay, Listed
  <2>2. /\ msgCh' \in Seq(Nat) /\ Rising(msgCh')
        /\ \A i \in DOMAIN msgCh' : msgCh'[i] \in Listed \cup {u.n}
    BY <1>4, <2>1, LastInLine DEF InTurn, Listed
  <2>3. Listed' \subseteq Listed \cup {u.n}
    BY <2>2 DEF Listed
  <2>4. OnTheWay' \subseteq OnTheWay
    BY <1>2, <1>4, <2>3 DEF OnTheWay
  <2>5. \A n \in Listed', m \in Numbers(updates') : n < m
    BY <1>2, <1>4, <2>3 DEF InTurn
  <2>. QED  BY <1>1, <1>2, <2>2, <2>4, <2>5 DEF InTurn, ReadOnes, Spent
<1>. QED  BY <1>1, <1>3, <1>4

\* The sums of ReadsPaid, for a step that moves one reader or one message.
LEMMA Balance ==
    ASSUME NEW a \in Nat, NEW b \in Nat, NEW r \in Nat, NEW r1 \in Nat,
           NEW p \in Nat, NEW p1 \in Nat, a + r <= p, p <= p1,
           \/ r1 <= r /\ b <= a
           \/ r1 <= r + 1 /\ b + 1 = a
           \/ r1 <= r /\ b = a + 1 /\ p + 1 <= p1
           \/ r1 <= r + 1 /\ b = a /\ p + 1 <= p1
    PROVE  b + r1 <= p1
OBVIOUS

\* What the counts of readers, read messages and spent commands may do.
LEMMA PaidMore ==
    ASSUME BInv, InTurn, ReadsPaid, kind' \in Seq(Kinds), readers' \in Nat,
           Spent \subseteq Spent', NEW e, ReadOnes' \subseteq ReadOnes \cup {e},
           \/ ReadOnes' \subseteq ReadOnes /\ readers' <= readers
           \/ readers' + 1 = readers
           \/ ReadOnes' \subseteq ReadOnes /\ readers' = readers + 1 /\ Spent' # Spent
           \/ readers' = readers /\ Spent' # Spent
    PROVE  ReadsPaid'
<1>1. IsFiniteSet(ReadOnes) /\ IsFiniteSet(Spent')
  <2>1. DOMAIN kind' = 1 .. Len(kind') /\ Len(kind') \in Nat
    OBVIOUS
  <2>2. IsFiniteSet(1 .. Len(kind')) /\ Spent' \subseteq 1 .. Len(kind')
    BY <2>1, FS_Interval DEF Spent
  <2>. QED  BY <2>2, FS_Subset, FinitelyMany
<1>2. PICK r, r1, p, p1 : /\ r = Cardinality(ReadOnes) /\ r1 = Cardinality(ReadOnes')
                          /\ p = Cardinality(Spent) /\ p1 = Cardinality(Spent')
  OBVIOUS
<1>3. r \in Nat /\ r1 \in Nat /\ r1 <= r + 1 /\ (ReadOnes' \subseteq ReadOnes => r1 <= r)
  BY <1>1, <1>2, CountMore, FS_Subset
<1>4. p \in Nat /\ p1 \in Nat /\ p <= p1
  BY <1>1, <1>2, CountGrows
<1>5. Spent' # Spent => p + 1 <= p1
  BY <1>1, <1>2, CountGrows
<1>6. readers \in Nat /\ readers + r <= p
  BY <1>2 DEF InTurn, ReadsPaid
<1>7. \/ r1 <= r /\ readers' <= readers
      \/ r1 <= r + 1 /\ readers' + 1 = readers
      \/ r1 <= r /\ readers' = readers + 1 /\ p + 1 <= p1
      \/ r1 <= r + 1 /\ readers' = readers /\ p + 1 <= p1
  BY <1>3, <1>5
<1>8. r \in Nat /\ r1 \in Nat /\ readers' \in Nat
  BY <1>3
<1>9. readers' + r1 <= p1
  BY <1>4, <1>6, <1>7, <1>8, Balance
<1>. QED  BY <1>2, <1>9 DEF ReadsPaid

\* Nothing becomes of a message twice, and none becomes "waiting" again.
LEMMA SameReads ==
    ASSUME BInv, InTurn, ReadsPaid, UNCHANGED <<kind, readers>>,
           DOMAIN fate' = DOMAIN fate,
           \A n \in DOMAIN fate : fate'[n] = fate[n] \/ fate'[n] \in Fates \ {"waiting", "read"}
    PROVE  ReadsPaid'
<1>1. ReadOnes' \subseteq ReadOnes
  BY DEF ReadOnes
<1>2. DOMAIN kind = DOMAIN fate /\ kind \in Seq(Kinds) /\ readers \in Nat
  BY DEF InTurn, BInv, ChannelsOK
<1>3. Spent \subseteq Spent'
  BY <1>2 DEF Spent
<1>. QED  BY <1>1, <1>2, <1>3, PaidMore

\* The end of a message, with its reply, its job or its time-out.
LEMMA SettledReads ==
    ASSUME BInv, InTurn, ReadsPaid, UNCHANGED <<kind, updates, msgCh>>,
           main.st # "idle", Settle(main.msg, "handled"), main' = Idle,
           readers' = readers \/ (main.st = "auth" /\ readers' = readers + 1)
    PROVE  InTurn' /\ ReadsPaid'
<1>1. InTurn'
  BY SettledInTurn DEF InTurn
<1>2. /\ fate' = [fate EXCEPT ![main.msg] = "handled"] /\ main.msg \in DOMAIN fate
      /\ DOMAIN kind = DOMAIN fate /\ kind \in Seq(Kinds) /\ readers \in Nat
  BY DEF Settle, InTurn, BInv, ChannelsOK
<1>3. CASE readers' = readers
  BY <1>1, <1>2, <1>3, SameReads DEF Fates
<1>4. CASE main.st = "auth" /\ readers' = readers + 1
  <2>1. ReadOnes' \subseteq ReadOnes
    BY <1>2 DEF ReadOnes
  <2>2. Spent \subseteq Spent' /\ main.msg \in Spent' \ Spent
    BY <1>2, <1>4 DEF Spent, InTurn
  <2>. QED  BY <1>1, <1>2, <1>4, <2>1, <2>2, PaidMore
<1>. QED  BY <1>3, <1>4

\* The loop takes the next message: its own, or one a /google waits for.
LEMMA TakeReads == ASSUME BInv, InTurn, ReadsPaid, Take PROVE InTurn' /\ ReadsPaid'
<1>. DEFINE n == Head(msgCh)
<1>1. /\ msgCh # <<>> /\ msgCh' = Tail(msgCh) /\ UNCHANGED <<kind, updates, readers>>
      /\ fate' = fate \/ fate' = [fate EXCEPT ![n] = "skipped"]
      /\ kind[n] = "google" => fate' = fate
  BY DEF Take, Settle
<1>2. \/ main' = [st |-> "orch", msg |-> n, calls |-> 0]
      \/ main' = [st |-> "auth", msg |-> n, calls |-> 0] /\ kind[n] = "google"
      \/ main' = Idle
  BY DEF Take
<1>3. n \in OnTheWay
  BY <1>1, NextInLine DEF InTurn, OnTheWay, Listed
<1>4. n \in DOMAIN fate /\ fate[n] = "waiting" /\ DOMAIN fate = DOMAIN kind
  BY <1>3 DEF InTurn, BInv, ChannelsOK
<1>5. fate' \in Seq(Fates) /\ Len(fate') = Len(fate) /\ DOMAIN fate' = DOMAIN fate
  <2>1. fate \in Seq(Fates)
    BY DEF InTurn
  <2>2. CASE fate' = fate
    BY <2>1, <2>2
  <2>3. CASE fate' = [fate EXCEPT ![n] = "skipped"]
    <3>. HIDE DEF n
    <3>. QED  BY <1>4, <2>1, <2>3 DEF Fates
  <2>. QED  BY <1>1, <2>2, <2>3
<1>6. /\ \A i \in DOMAIN fate : fate'[i] = fate[i] \/ i = n
      /\ \A i \in DOMAIN fate : fate'[i] = fate[i] \/ fate'[i] = "skipped"
  BY <1>1, <1>4
<1>7. /\ main'.st # "idle" => main'.msg = n
      /\ main'.st = "auth" => kind[main'.msg] = "google" /\ fate'[main'.msg] = "waiting"
  BY <1>1, <1>2, <1>4 DEF Idle
<1>8. InTurn'
  <2>. HIDE DEF n
  <2>1. readers' \in Nat /\ UNCHANGED <<kind, updates>>
    BY <1>1 DEF InTurn
  <2>2. main'.st # "idle" => main'.msg = Head(msgCh)
    BY <1>7 DEF n
  <2>3. \A i \in DOMAIN fate : fate'[i] = fate[i] \/ i = Head(msgCh)
    BY <1>6 DEF n
  <2>. QED  BY <1>1, <1>5, <1>7, <2>1, <2>2, <2>3, ReceivedInTurn
<1>9. ReadsPaid'
  BY <1>1, <1>5, <1>6, SameReads DEF Fates
<1>. QED  BY <1>8, <1>9

\* A text is read as a code: the /google that reads it, or one that is over,
\* has paid for it.
LEMMA AuthReadsReads ==
    ASSUME BInv, InTurn, ReadsPaid, AuthReads \/ LeftoverReads
    PROVE  InTurn' /\ ReadsPaid'
<1>. DEFINE n == Head(msgCh)
<1>1. /\ msgCh # <<>> /\ msgCh' = Tail(msgCh) /\ UNCHANGED <<kind, updates>>
  BY DEF AuthReads, LeftoverReads
<1>2. n \in OnTheWay
  BY <1>1, NextInLine DEF InTurn, OnTheWay, Listed
<1>3. /\ n \in DOMAIN fate /\ fate[n] = "waiting" /\ DOMAIN fate = DOMAIN kind
      /\ kind \in Seq(Kinds) /\ fate \in Seq(Fates) /\ readers \in Nat
  BY <1>2 DEF InTurn, BInv, ChannelsOK
<1>4. CASE ~GotReply
  <2>1. /\ fate' = [fate EXCEPT ![n] = "skipped"] /\ UNCHANGED <<main, readers>>
    BY <1>4 DEF AuthReads, LeftoverReads, Read
  <2>2. /\ fate' \in Seq(Fates) /\ Len(fate') = Len(fate) /\ DOMAIN fate' = DOMAIN fate
        /\ \A i \in DOMAIN fate : fate'[i] = fate[i] \/ (i = n /\ fate'[i] = "skipped")
    BY <1>3, <2>1 DEF Fates
  <2>3. main.st = "auth" => main.msg # n /\ main.msg \in DOMAIN fate
    BY <1>2, <1>3 DEF InTurn
  <2>4. InTurn'
    BY <1>1, <1>3, <2>1, <2>2, <2>3, ReceivedInTurn DEF InTurn
  <2>. QED  BY <1>1, <2>1, <2>2, <2>4, SameReads DEF Fates
<1>5. CASE GotReply /\ AuthReads
  <2>1. /\ fate' = [[fate EXCEPT ![n] = "read"] EXCEPT ![main.msg] = "handled"]
        /\ main' = Idle /\ main.st = "auth" /\ readers' = readers
    BY <1>5 DEF AuthReads, Read
  <2>2. main.msg # n /\ main.msg \in DOMAIN fate
    BY <1>2, <1>3, <2>1 DEF InTurn
  <2>3. /\ fate' \in Seq(Fates) /\ Len(fate') = Len(fate) /\ DOMAIN fate' = DOMAIN fate
        /\ \A i \in DOMAIN fate : fate'[i] = fate[i] \/ i = n \/ i = main.msg
        /\ fate'[main.msg] = "handled" /\ fate'[n] = "read"
    BY <1>3, <2>1, <2>2 DEF Fates
  <2>4. InTurn'
    BY <1>1, <1>3, <2>1, <2>3, ReceivedInTurn DEF Idle
  <2>5. ReadOnes' \subseteq ReadOnes \cup {n}
    BY <2>3 DEF ReadOnes
  <2>6. Spent \subseteq Spent' /\ main.msg \in Spent' \ Spent
    BY <1>1, <1>3, <2>1, <2>2, <2>3 DEF Spent, InTurn
  <2>7. Spent' # Spent /\ kind' \in Seq(Kinds) /\ readers' = readers /\ readers' \in Nat
    BY <1>1, <1>3, <2>1, <2>6
  <2>. QED  BY <2>4, <2>5, <2>6, <2>7, PaidMore
<1>6. CASE GotReply /\ LeftoverReads
  <2>1. /\ fate' = [fate EXCEPT ![n] = "read"]
        /\ readers' = readers - 1 /\ readers > 0 /\ main' = main
    BY <1>6 DEF LeftoverReads, Read
  <2>2. /\ fate' \in Seq(Fates) /\ Len(fate') = Len(fate) /\ DOMAIN fate' = DOMAIN fate
        /\ \A i \in DOMAIN fate : fate'[i] = fate[i] \/ i = n
        /\ fate'[n] = "read"
    BY <1>3, <2>1 DEF Fates
  <2>3. main.st = "auth" => main.msg # n /\ main.msg \in DOMAIN fate
    BY <1>2, <1>3 DEF InTurn
  <2>4. readers' \in Nat /\ readers' + 1 = readers
    BY <1>3, <2>1
  <2>5. InTurn'
    BY <1>1, <1>3, <2>1, <2>2, <2>3, <2>4, ReceivedInTurn DEF InTurn
  <2>6. ReadOnes' \subseteq ReadOnes \cup {n} /\ Spent \subseteq Spent'
    BY <1>1, <1>3, <2>2 DEF ReadOnes, Spent
  <2>7. kind' \in Seq(Kinds)
    BY <1>1, <1>3
  <2>. QED  BY <2>4, <2>5, <2>6, <2>7, PaidMore
<1>. QED  BY <1>4, <1>5, <1>6

\* The channel and the readers are gone with the process.
LEMMA RestartReads == ASSUME BInv, InTurn, ReadsPaid, Restart PROVE InTurn' /\ ReadsPaid'
<1>1. /\ msgCh' = <<>> /\ main' = Idle /\ readers' = 0 /\ UNCHANGED <<kind, updates>>
      /\ fate' = [n \in DOMAIN fate |->
                    IF \E i \in DOMAIN msgCh : msgCh[i] = n THEN "lost"
                    ELSE IF main.st # "idle" /\ main.msg = n THEN "lost" ELSE fate[n]]
  BY DEF Restart
<1>2. /\ fate \in Seq(Fates) /\ DOMAIN fate = DOMAIN kind /\ kind \in Seq(Kinds)
      /\ readers \in Nat /\ DOMAIN fate = 1 .. Len(fate) /\ Len(fate) \in Nat
      /\ \A n \in DOMAIN fate : fate[n] \in Fates /\ n \in Nat
  BY DEF InTurn, BInv, ChannelsOK
<1>3. fate' \in Seq(Fates) /\ Len(fate') = Len(fate) /\ DOMAIN fate' = DOMAIN fate
  BY <1>1, <1>2 DEF Fates
<1>4. /\ Listed' = {} /\ OnTheWay' = Numbers(updates) /\ Rising(<<>>)
  BY <1>1 DEF Listed, OnTheWay, Rising
<1>5. \A n \in Numbers(updates) : n \in DOMAIN fate /\ fate'[n] = fate[n]
  <2>1. ASSUME NEW n \in Numbers(updates) PROVE n \in DOMAIN fate /\ fate'[n] = fate[n]
    <3>1. n \in OnTheWay /\ n \in DOMAIN fate
      BY <1>2 DEF OnTheWay, InTurn
    <3>2. \A i \in DOMAIN msgCh : msgCh[i] # n
      <4>1. \A m \in Listed : m < n /\ m \in Nat /\ n \in Nat
        BY <1>2, <3>1 DEF InTurn, OnTheWay
      <4>. QED  BY <4>1 DEF Listed
    <3>3. ~(main.st # "idle" /\ main.msg = n)
      BY <1>2, <3>1 DEF InTurn
    <3>. QED  BY <1>1, <3>1, <3>2, <3>3
  <2>. QED  BY <2>1
<1>6. InTurn'
  BY <1>1, <1>3, <1>4, <1>5, FewerInTurn DEF Idle
<1>7. ReadOnes' \subseteq ReadOnes /\ Spent \subseteq Spent'
  BY <1>1, <1>2, <1>3 DEF ReadOnes, Spent
<1>8. readers' <= readers /\ readers' \in Nat /\ kind' \in Seq(Kinds)
  BY <1>1, <1>2
<1>. QED  BY <1>6, <1>7, <1>8, PaidMore

\* Nothing that has to do with messages.
LEMMA QuietReads ==
    ASSUME InTurn, ReadsPaid, UNCHANGED <<kind, fate, updates, msgCh, readers>>,
           main'.st = main.st, main'.msg = main.msg
    PROVE  InTurn' /\ ReadsPaid'
BY QuietInTurn DEF ReadsPaid, ReadOnes, Spent

\* What the main goroutine does is always a record of these fields.
MainOK == DOMAIN main = {"st", "msg", "calls"}

\* The record of the message loop keeps its fields.
LEMMA NextMain == MainOK /\ [Next]_vars => MainOK'
<1>. SUFFICES ASSUME MainOK, [Next]_vars PROVE MainOK'
  OBVIOUS
<1>1. \/ main' = main \/ Called \/ main' = Idle
      \/ \E s, n : main' = [st |-> s, msg |-> n, calls |-> 0]
  <2>1. CASE Take
    BY <2>1 DEF Take
  <2>2. CASE AuthReads
    BY <2>2 DEF AuthReads
  <2>3. CASE Respond \/ AuthTimesOut \/ \E j \in Jobs : SpawnJob(j)
    BY <2>3 DEF Respond, AuthTimesOut, SpawnJob
  <2>4. CASE PromptUser \/ \E k \in Keys : MainCalls(k)
    BY <2>4 DEF PromptUser, MainCalls
  <2>5. CASE \E j \in Jobs : ReplyToJob(j) \/ CancelJob(j)
    BY <2>5 DEF ReplyToJob, CancelJob
  <2>6. CASE Split \/ LeftoverReads \/ Restart \/ UNCHANGED vars
    BY <2>6 DEF Split, LeftoverReads, Restart, vars, chat
  <2>7. CASE \/ \E k \in Kinds : UserSends(k)
             \/ \E b \in DOMAIN boards, yes, ok \in BOOLEAN : UserPresses(b, yes, ok)
             \/ \E k \in Keys : Expire(k)
             \/ \E o \in Owners : Receive(o) \/ GiveUp(o)
    BY <2>7 DEF UserSends, UserPresses, Expire, Receive, GiveUp, chat
  <2>8. CASE \/ \E j \in Jobs, k \in Keys : JobCalls(j, k)
             \/ \E j \in Jobs : JobStep(j)
    BY <2>8 DEF JobCalls, JobStep, Round, Answered, Failed, Wake, Removed, chat
  <2>. QED  BY <2>1, <2>2, <2>3, <2>4, <2>5, <2>6, <2>7, <2>8 DEF Next
<1>. QED  BY <1>1 DEF MainOK, Called, Idle

\* Every step keeps messages in turn and each of the readers paid for.
LEMMA NextReads == BInv /\ MainOK /\ InTurn /\ ReadsPaid /\ [Next]_vars => InTurn' /\ ReadsPaid'
<1>. SUFFICES ASSUME BInv, MainOK, InTurn, ReadsPaid, [Next]_vars PROVE InTurn' /\ ReadsPaid'
  OBVIOUS
<1>1. ASSUME NEW k \in Kinds, UserSends(k) PROVE InTurn' /\ ReadsPaid'
  <2>1. InTurn' /\ ReadOnes' \subseteq ReadOnes /\ Spent \subseteq Spent'
    BY <1>1, UserSendsInTurn
  <2>2. readers' \in Nat /\ readers' <= readers /\ kind' \in Seq(Kinds)
    BY <1>1 DEF UserSends, InTurn, BInv, ChannelsOK
  <2>. QED  BY <2>1, <2>2, PaidMore
<1>2. ASSUME NEW b \in DOMAIN boards, NEW yes \in BOOLEAN, NEW ok \in BOOLEAN,
             UserPresses(b, yes, ok)
      PROVE  InTurn' /\ ReadsPaid'
  BY <1>2, UserPressesInTurn DEF UserPresses, ReadsPaid
<1>3. CASE Split
  BY <1>3, SplitInTurn DEF Split, ReadsPaid
<1>4. CASE Take
  BY <1>4, TakeReads
<1>5. CASE Respond \/ AuthTimesOut \/ \E j \in Jobs : SpawnJob(j)
  <2>1. /\ UNCHANGED <<kind, updates, msgCh>> /\ main.st # "idle"
        /\ Settle(main.msg, "handled") /\ main' = Idle
        /\ readers' = readers \/ (main.st = "auth" /\ readers' = readers + 1)
    BY <1>5 DEF Respond, AuthTimesOut, SpawnJob, Busy
  <2>. QED  BY <2>1, SettledReads
<1>6. CASE AuthReads \/ LeftoverReads
  BY <1>6, AuthReadsReads
<1>7. CASE PromptUser \/ \E k \in Keys : MainCalls(k)
  BY <1>7, QuietReads DEF PromptUser, MainCalls, Called, MainOK
<1>8. ASSUME NEW j \in Jobs, ReplyToJob(j) \/ CancelJob(j) PROVE InTurn' /\ ReadsPaid'
  BY <1>8, QuietReads DEF ReplyToJob, CancelJob, Called, MainOK
<1>9. ASSUME NEW o \in Owners, Receive(o) \/ GiveUp(o) PROVE InTurn' /\ ReadsPaid'
  BY <1>9, QuietReads DEF Receive, GiveUp, chat
<1>10. ASSUME NEW k \in Keys, Expire(k) PROVE InTurn' /\ ReadsPaid'
  BY <1>10, QuietReads DEF Expire, chat
<1>11. ASSUME NEW j \in Jobs, NEW k \in Keys, JobCalls(j, k) PROVE InTurn' /\ ReadsPaid'
  BY <1>11, QuietReads DEF JobCalls, chat
<1>12. ASSUME NEW j \in Jobs, JobStep(j) PROVE InTurn' /\ ReadsPaid'
  BY <1>12, QuietReads DEF JobStep, Round, Answered, Failed, Wake, Removed, chat
<1>13. CASE Restart
  BY <1>13, RestartReads
<1>14. CASE UNCHANGED vars
  BY <1>14, QuietReads DEF vars, chat
<1>. QED
  BY <1>1, <1>2, <1>3, <1>4, <1>5, <1>6, <1>7, <1>8, <1>9, <1>10, <1>11, <1>12,
     <1>13, <1>14 DEF Next

\* At the start there are no messages and no readers.
LEMMA InitReads == Init => MainOK /\ InTurn /\ ReadsPaid
<1>. SUFFICES ASSUME Init PROVE MainOK /\ InTurn /\ ReadsPaid
  OBVIOUS
<1>1. /\ kind = <<>> /\ fate = <<>> /\ msgCh = <<>> /\ updates = <<>>
      /\ readers = 0 /\ main = Idle
  BY DEF Init
<1>2. Listed = {} /\ Numbers(updates) = {} /\ OnTheWay = {} /\ ReadOnes = {} /\ Spent = {}
  BY <1>1 DEF Listed, Numbers, Texting, OnTheWay, ReadOnes, Spent
<1>3. Rising(msgCh) /\ RisingTexts(updates)
  BY <1>1 DEF Rising, RisingTexts, Texting
<1>4. InTurn
  BY <1>1, <1>2, <1>3 DEF InTurn, Idle
<1>5. ReadsPaid
  BY <1>1, <1>2, FS_EmptySet DEF ReadsPaid
<1>. QED  BY <1>1, <1>4, <1>5 DEF MainOK, Idle

\* Whatever is sent, times out or restarts, and however many readers are left
\* over, each /google takes at most one message for itself (auth.go:122).
THEOREM GooglesReadOnce == Spec => []OneReadPerGoogle
<1>1. BInv /\ InTurn /\ ReadsPaid => OneReadPerGoogle
  <2>. SUFFICES ASSUME BInv, InTurn, ReadsPaid PROVE OneReadPerGoogle
    OBVIOUS
  <2>. DEFINE Googles == {n \in DOMAIN kind : kind[n] = "google"}
  <2>1. DOMAIN kind = 1 .. Len(kind) /\ Len(kind) \in Nat
    BY DEF BInv, ChannelsOK
  <2>2. IsFiniteSet(1 .. Len(kind)) /\ Googles \subseteq 1 .. Len(kind) /\ Spent \subseteq Googles
    BY <2>1, FS_Interval DEF Spent
  <2>3. /\ Cardinality(Spent) <= Cardinality(Googles)
        /\ Cardinality(Spent) \in Nat /\ Cardinality(Googles) \in Nat
    BY <2>2, FS_Subset, FS_CardinalityType
  <2>4. readers \in Nat /\ Cardinality(ReadOnes) \in Nat
    BY FinitelyMany, FS_CardinalityType DEF InTurn
  <2>5. readers + Cardinality(ReadOnes) <= Cardinality(Googles)
    BY <2>3, <2>4 DEF ReadsPaid
  <2>. QED  BY <2>5 DEF OneReadPerGoogle, ReadOnes
<1>. QED  BY <1>1, InitBInv, InitReads, NextBInv, NextMain, NextReads, PTL DEF Spec
-----------------------------------------------------------------------------
\* A message of which nothing has become is on its way or in the hands of the
\* message loop, and the other way round.
Unsettled == {n \in DOMAIN fate : fate[n] = "waiting"}
InHand == IF main.st = "idle" THEN {} ELSE {main.msg}
Whereabouts == OnTheWay \cup InHand
InPlace == Unsettled = Whereabouts

\* What has become of a message stays.
Once == \A n \in DOMAIN fate : fate[n] # "waiting" => fate'[n] = fate[n]

\* A step that settles the messages in D, and takes them off the places where
\* unsettled ones are.
LEMMA SettlesOnce ==
    ASSUME InPlace, NEW D, D \subseteq Whereabouts,
           DOMAIN fate' = DOMAIN fate,
           \A n \in D : fate'[n] # "waiting",
           \A n \in DOMAIN fate : n \notin D => fate'[n] = fate[n],
           Whereabouts' = Whereabouts \ D
    PROVE  InPlace' /\ Once
<1>1. Unsettled' = Unsettled \ D
  BY DEF Unsettled
<1>2. Once
  BY DEF Once, InPlace, Unsettled
<1>. QED  BY <1>1, <1>2 DEF InPlace

\* A step that settles none and moves none from these places.
LEMMA SettlesNone ==
    ASSUME InPlace, fate' = fate, Whereabouts' = Whereabouts
    PROVE  InPlace' /\ Once
BY DEF InPlace, Unsettled, Once

\* The head of a channel is all that a receive takes out of it.
LEMMA RestInLine ==
    ASSUME NEW S, NEW s \in Seq(S), s # <<>>
    PROVE  \A i \in DOMAIN s : s[i] = Head(s)
                               \/ (i - 1 \in DOMAIN Tail(s) /\ Tail(s)[i - 1] = s[i])
OBVIOUS

\* What a send adds to a channel, and what it leaves there.
LEMMA AllInLine ==
    ASSUME NEW S, NEW s \in Seq(S), NEW e
    PROVE  /\ \A i \in DOMAIN s : i \in DOMAIN Append(s, e) /\ Append(s, e)[i] = s[i]
           /\ Len(s) + 1 \in DOMAIN Append(s, e) /\ Append(s, e)[Len(s) + 1] = e
OBVIOUS

\* The splitter takes one message off the updates, or none.
LEMMA RestOfTexts ==
    ASSUME NEW u \in Seq(Presses \cup Texts), u # <<>>
    PROVE  Numbers(u) \subseteq
              Numbers(Tail(u)) \cup (IF Head(u).t = "msg" THEN {Head(u).n} ELSE {})
<1>. PICK S : S = Presses \cup Texts
  OBVIOUS
<1>1. \A i \in DOMAIN u : u[i] = Head(u)
                          \/ (i - 1 \in DOMAIN Tail(u) /\ Tail(u)[i - 1] = u[i])
  BY RestInLine
<1>. QED  BY <1>1 DEF Numbers, Texting

\* An update that arrives leaves the messages before it on their way.
LEMMA AllTexts ==
    ASSUME NEW u \in Seq(Presses \cup Texts), NEW e
    PROVE  Numbers(u) \cup (IF e.t = "msg" THEN {e.n} ELSE {}) \subseteq Numbers(Append(u, e))
<1>1. /\ \A i \in DOMAIN u : i \in DOMAIN Append(u, e) /\ Append(u, e)[i] = u[i]
      /\ Len(u) + 1 \in DOMAIN Append(u, e) /\ Append(u, e)[Len(u) + 1] = e
  BY AllInLine
<1>. QED  BY <1>1 DEF Numbers, Texting

\* A message that is sent is on its way.
LEMMA UserSendsPlace ==
    ASSUME BInv, InTurn, InPlace, NEW k \in Kinds, UserSends(k)
    PROVE  InPlace' /\ Once
<1>. DEFINE n == Len(kind) + 1
            e == [t |-> "msg", n |-> n]
<1>1. /\ fate' = Append(fate, "waiting") /\ updates' = Append(updates, e)
      /\ UNCHANGED <<msgCh, main>> /\ e.t = "msg" /\ e.n = n
  BY DEF UserSends
<1>2. /\ updates \in Seq(Presses \cup Texts) /\ fate \in Seq(Fates)
      /\ Len(fate) + 1 = n /\ \A m \in Numbers(updates) : m < n
  BY DEF BInv, ChannelsOK, InTurn, OnTheWay
<1>3. /\ DOMAIN fate' = DOMAIN fate \cup {n} /\ fate'[n] = "waiting"
      /\ \A m \in DOMAIN fate : fate'[m] = fate[m]
  <2>. HIDE DEF e
  <2>1. /\ DOMAIN Append(fate, "waiting") = DOMAIN fate \cup {Len(fate) + 1}
        /\ Append(fate, "waiting")[Len(fate) + 1] = "waiting"
        /\ \A m \in DOMAIN fate : Append(fate, "waiting")[m] = fate[m]
    BY <1>2
  <2>. QED  BY <1>1, <1>2, <2>1
<1>. HIDE DEF e, n
<1>4. Numbers(updates') = Numbers(updates) \cup {n}
  <2>1. e.t = "msg" => \A m \in Numbers(updates) : m < e.n
    BY <1>1, <1>2
  <2>2. Numbers(updates') \subseteq Numbers(updates) \cup {n}
    <3>1. Numbers(Append(updates, e))
            \subseteq Numbers(updates) \cup (IF e.t = "msg" THEN {e.n} ELSE {})
      BY <1>2, <2>1, LastText DEF InTurn
    <3>. QED  BY <1>1, <3>1
  <2>3. Numbers(updates) \cup {n} \subseteq Numbers(updates')
    BY <1>1, <1>2, AllTexts
  <2>. QED  BY <2>2, <2>3
<1>5. Whereabouts' = Whereabouts \cup {n}
  BY <1>1, <1>4 DEF Whereabouts, OnTheWay, Listed, InHand
<1>6. Unsettled' = Unsettled \cup {n}
  BY <1>3 DEF Unsettled
<1>. QED  BY <1>3, <1>5, <1>6 DEF InPlace, Once

\* The splitter moves a message from the updates to the channel.
LEMMA SplitPlace == ASSUME BInv, InTurn, InPlace, Split PROVE InPlace' /\ Once
<1>. DEFINE u == Head(updates)
<1>1. /\ updates # <<>> /\ updates' = Tail(updates) /\ UNCHANGED <<fate, main>>
      /\ \/ u.t = "press" /\ msgCh' = msgCh
         \/ u.t = "msg" /\ msgCh' = Append(msgCh, u.n)
  BY DEF Split
<1>2. updates \in Seq(Presses \cup Texts) /\ msgCh \in Seq(Nat)
  BY DEF BInv, ChannelsOK, InTurn
<1>3. Numbers(updates) = Numbers(updates') \cup (IF u.t = "msg" THEN {u.n} ELSE {})
  <2>1. Numbers(updates) \subseteq Numbers(updates') \cup (IF u.t = "msg" THEN {u.n} ELSE {})
    BY <1>1, <1>2, RestOfTexts
  <2>2. Numbers(updates') \subseteq Numbers(updates)
        /\ (u.t = "msg" => u.n \in Numbers(updates))
    BY <1>1, <1>2, NextText DEF InTurn
  <2>. QED  BY <2>1, <2>2
<1>. HIDE DEF u
<1>4. OnTheWay' = OnTheWay
  <2>1. CASE u.t = "press" /\ msgCh' = msgCh
    BY <1>3, <2>1 DEF OnTheWay, Listed
  <2>2. CASE u.t = "msg" /\ msgCh' = Append(msgCh, u.n)
    <3>1. u.n \in Nat
      BY <1>3, <2>2 DEF InTurn, OnTheWay
    <3>2. /\ \A i \in DOMAIN msgCh' : msgCh'[i] \in Listed \cup {u.n}
      BY <1>2, <2>2, <3>1, Sent DEF Listed
    <3>3. /\ \A i \in DOMAIN msgCh : i \in DOMAIN msgCh' /\ msgCh'[i] = msgCh[i]
          /\ Len(msgCh) + 1 \in DOMAIN msgCh' /\ msgCh'[Len(msgCh) + 1] = u.n
      BY <1>2, <2>2, AllInLine
    <3>4. Listed' = Listed \cup {u.n}
      BY <3>2, <3>3 DEF Listed
    <3>. QED  BY <1>3, <2>2, <3>4 DEF OnTheWay
  <2>. QED  BY <1>1, <2>1, <2>2
<1>5. Whereabouts' = Whereabouts
  BY <1>1, <1>4 DEF Whereabouts, InHand
<1>. QED  BY <1>1, <1>5, SettlesNone

\* A press or a step of somebody else moves no message.
LEMMA QuietPlace ==
    ASSUME InPlace, UNCHANGED <<fate, msgCh>>, Numbers(updates') = Numbers(updates),
           main'.st = main.st, main'.msg = main.msg
    PROVE  InPlace' /\ Once
<1>1. Whereabouts' = Whereabouts
  BY DEF Whereabouts, OnTheWay, Listed, InHand
<1>. QED  BY <1>1, SettlesNone

\* A press is no message.
LEMMA UserPressesPlace ==
    ASSUME BInv, InTurn, InPlace, NEW b, NEW yes, NEW ok, UserPresses(b, yes, ok)
    PROVE  InPlace' /\ Once
<1>. DEFINE e == [t |-> "press", n |-> b, yes |-> yes, ok |-> ok]
<1>1. updates' = Append(updates, e) /\ UNCHANGED <<fate, msgCh, main>>
  BY DEF UserPresses
<1>2. e.t # "msg" /\ updates \in Seq(Presses \cup Texts)
  BY DEF BInv, ChannelsOK
<1>. HIDE DEF e
<1>3. Numbers(updates') \subseteq Numbers(updates)
  BY <1>1, <1>2, LastText DEF InTurn
<1>4. Numbers(updates) \subseteq Numbers(updates')
  BY <1>1, <1>2, AllTexts
<1>. QED  BY <1>1, <1>3, <1>4, QuietPlace

\* What a receive does to the messages on their way; the message in hand is
\* none of them.
LEMMA ReceivedPlace ==
    ASSUME InTurn, msgCh # <<>>, msgCh' = Tail(msgCh), updates' = updates
    PROVE  /\ Head(msgCh) \in OnTheWay /\ OnTheWay' = OnTheWay \ {Head(msgCh)}
           /\ Head(msgCh) \in DOMAIN fate /\ Head(msgCh) \notin InHand
<1>. DEFINE h == Head(msgCh)
<1>1. /\ h \in Listed
      /\ \A i \in DOMAIN Tail(msgCh) : h < Tail(msgCh)[i] /\ Tail(msgCh)[i] \in Listed
  BY NextInLine DEF InTurn, Listed
<1>2. \A n \in OnTheWay : n \in Nat /\ n \in DOMAIN fate
  BY DEF InTurn
<1>3. \A i \in DOMAIN msgCh : msgCh[i] = h
                              \/ (i - 1 \in DOMAIN Tail(msgCh) /\ Tail(msgCh)[i - 1] = msgCh[i])
  BY RestInLine DEF InTurn
<1>4. \A n \in Numbers(updates) : h < n
  BY <1>1 DEF InTurn
<1>5. main.st # "idle" => main.msg < h
  BY <1>1 DEF InTurn, OnTheWay
<1>6. h \in OnTheWay /\ h \in Nat
  BY <1>1, <1>2 DEF OnTheWay
<1>. HIDE DEF h
<1>7. Listed' = Listed \ {h}
  <2>1. \A i \in DOMAIN Tail(msgCh) : Tail(msgCh)[i] \in Listed /\ Tail(msgCh)[i] # h
    BY <1>1, <1>2, <1>6 DEF OnTheWay
  <2>2. Listed' \subseteq Listed \ {h}
    BY <2>1 DEF Listed
  <2>3. ASSUME NEW n \in Listed, n # h PROVE n \in Listed'
    BY <1>3, <2>3 DEF Listed
  <2>. QED  BY <2>2, <2>3
<1>8. OnTheWay' = OnTheWay \ {h}
  BY <1>4, <1>6, <1>7 DEF OnTheWay
<1>9. h \notin InHand
  BY <1>5, <1>6 DEF InHand
<1>. QED  BY <1>2, <1>6, <1>8, <1>9 DEF h

\* The loop takes the message into its hands, or skips it.
LEMMA TakePlace == ASSUME BInv, InTurn, InPlace, Take PROVE InPlace' /\ Once
<1>. DEFINE h == Head(msgCh)
<1>1. /\ msgCh # <<>> /\ msgCh' = Tail(msgCh) /\ updates' = updates /\ main.st = "idle"
      /\ \/ /\ kind[h] \in {"foreign", "blank"}
            /\ main' = Idle /\ fate' = [fate EXCEPT ![h] = "skipped"]
         \/ /\ kind[h] \notin {"foreign", "blank"} /\ fate' = fate
            /\ \/ kind[h] = "ask" /\ main' = [st |-> "orch", msg |-> h, calls |-> 0]
               \/ kind[h] = "google" /\ main' = [st |-> "auth", msg |-> h, calls |-> 0]
               \/ kind[h] \notin Kinds
  BY DEF Take, Settle, Kinds
<1>2. /\ h \in OnTheWay /\ OnTheWay' = OnTheWay \ {h} /\ h \in DOMAIN fate /\ InHand = {}
  BY <1>1, ReceivedPlace DEF InHand
<1>3. kind[h] \in Kinds
  BY <1>2 DEF InTurn, BInv, ChannelsOK
<1>. HIDE DEF h
<1>4. CASE main' = Idle /\ fate' = [fate EXCEPT ![h] = "skipped"]
  <2>1. InHand' = {}
    BY <1>4 DEF Idle, InHand
  <2>. PICK D : D = {h}
    OBVIOUS
  <2>2. D \subseteq Whereabouts /\ Whereabouts' = Whereabouts \ D
    BY <1>2, <2>1 DEF Whereabouts
  <2>3. /\ DOMAIN fate' = DOMAIN fate /\ \A n \in D : fate'[n] # "waiting"
        /\ \A n \in DOMAIN fate : n \notin D => fate'[n] = fate[n]
    BY <1>2, <1>4
  <2>. QED  BY <2>2, <2>3, SettlesOnce
<1>5. CASE fate' = fate /\ main'.st \in {"orch", "auth"} /\ main'.msg = h
  <2>1. InHand' = {h}
    BY <1>5 DEF InHand
  <2>2. Whereabouts' = Whereabouts
    BY <1>2, <2>1 DEF Whereabouts
  <2>. QED  BY <1>5, <2>2, SettlesNone
<1>. QED  BY <1>1, <1>3, <1>4, <1>5

\* The message in hand is dealt with.
LEMMA SettledPlace ==
    ASSUME InTurn, InPlace, UNCHANGED <<updates, msgCh>>,
           main.st # "idle", Settle(main.msg, "handled"), main' = Idle
    PROVE  InPlace' /\ Once
<1>1. InHand' = {} /\ InHand = {main.msg} /\ OnTheWay' = OnTheWay
  BY DEF Idle, InHand, OnTheWay, Listed
<1>2. main.msg \notin OnTheWay /\ main.msg \in DOMAIN fate
  <2>1. main.msg \in Nat /\ main.msg \in DOMAIN fate
    BY DEF InTurn
  <2>2. \A n \in OnTheWay : n \in Nat /\ main.msg < n
    BY DEF InTurn
  <2>. QED  BY <2>1, <2>2
<1>. PICK D : D = {main.msg}
  OBVIOUS
<1>3. D \subseteq Whereabouts /\ Whereabouts' = Whereabouts \ D
  BY <1>1, <1>2 DEF Whereabouts
<1>4. /\ DOMAIN fate' = DOMAIN fate /\ \A n \in D : fate'[n] # "waiting"
      /\ \A n \in DOMAIN fate : n \notin D => fate'[n] = fate[n]
  BY <1>2 DEF Settle
<1>. QED  BY <1>3, <1>4, SettlesOnce

\* A reader takes the next message; a /google that gets its code is over.
LEMMA AuthReadsPlace ==
    ASSUME InTurn, InPlace, AuthReads \/ LeftoverReads
    PROVE  InPlace' /\ Once
<1>. DEFINE h == Head(msgCh)
<1>1. msgCh # <<>> /\ msgCh' = Tail(msgCh) /\ updates' = updates
  BY DEF AuthReads, LeftoverReads
<1>2. /\ h \in OnTheWay /\ OnTheWay' = OnTheWay \ {h} /\ h \in DOMAIN fate /\ h \notin InHand
  BY <1>1, ReceivedPlace
<1>3. PICK w \in {"read", "skipped"} : Read = [fate EXCEPT ![h] = w]
  BY DEF Read
<1>4. \/ main' = main /\ fate' = Read
      \/ main.st = "auth" /\ main' = Idle /\ fate' = [Read EXCEPT ![main.msg] = "handled"]
  BY DEF AuthReads, LeftoverReads
<1>. HIDE DEF h
<1>5. CASE main' = main /\ fate' = Read
  <2>1. InHand' = InHand
    BY <1>5 DEF InHand
  <2>. PICK D : D = {h}
    OBVIOUS
  <2>2. D \subseteq Whereabouts /\ Whereabouts' = Whereabouts \ D
    BY <1>2, <2>1 DEF Whereabouts
  <2>3. /\ DOMAIN fate' = DOMAIN fate /\ \A n \in D : fate'[n] # "waiting"
        /\ \A n \in DOMAIN fate : n \notin D => fate'[n] = fate[n]
    BY <1>2, <1>3, <1>5
  <2>. QED  BY <2>2, <2>3, SettlesOnce
<1>6. CASE main.st = "auth" /\ main' = Idle /\ fate' = [Read EXCEPT ![main.msg] = "handled"]
  <2>. PICK m : m = main.msg
    OBVIOUS
  <2>1. InHand' = {} /\ InHand = {m}
    BY <1>6 DEF InHand, Idle
  <2>2. m \notin OnTheWay /\ m \in DOMAIN fate
    <3>1. m \in Nat /\ m \in DOMAIN fate
      BY <1>6 DEF InTurn
    <3>2. \A n \in OnTheWay : n \in Nat /\ m < n
      BY <1>6 DEF InTurn
    <3>. QED  BY <3>1, <3>2
  <2>. PICK D : D = {h, m}
    OBVIOUS
  <2>3. D \subseteq Whereabouts /\ Whereabouts' = Whereabouts \ D
    BY <1>2, <2>1, <2>2 DEF Whereabouts
  <2>4. /\ DOMAIN fate' = DOMAIN fate /\ \A n \in D : fate'[n] # "waiting"
        /\ \A n \in DOMAIN fate : n \notin D => fate'[n] = fate[n]
    BY <1>2, <1>3, <1>6, <2>2
  <2>. QED  BY <2>3, <2>4, SettlesOnce
<1>. QED  BY <1>4, <1>5, <1>6

\* What the process held is lost with it; what Telegram holds is not.
LEMMA RestartPlace == ASSUME InTurn, InPlace, Restart PROVE InPlace' /\ Once
<1>1. /\ msgCh' = <<>> /\ main' = Idle /\ updates' = updates
      /\ fate' = [n \in DOMAIN fate |->
                    IF \E i \in DOMAIN msgCh : msgCh[i] = n THEN "lost"
                    ELSE IF main.st # "idle" /\ main.msg = n THEN "lost" ELSE fate[n]]
  BY DEF Restart
<1>. PICK D : D = Listed \cup InHand
  OBVIOUS
<1>2. OnTheWay' = Numbers(updates) /\ InHand' = {}
  BY <1>1 DEF OnTheWay, Listed, InHand, Idle
<1>3. \A n \in Numbers(updates) : n \notin D
  <2>1. ASSUME NEW n \in Numbers(updates) PROVE n \notin D
    <3>1. n \in OnTheWay /\ n \in Nat
      BY DEF OnTheWay, InTurn
    <3>2. \A m \in Listed : m \in Nat /\ m < n
      BY DEF InTurn, OnTheWay
    <3>3. main.st # "idle" => main.msg \in Nat /\ main.msg < n
      BY <3>1 DEF InTurn
    <3>. QED  BY <3>1, <3>2, <3>3 DEF InHand
  <2>. QED  BY <2>1
<1>4. D \subseteq Whereabouts /\ Whereabouts' = Whereabouts \ D
  BY <1>2, <1>3 DEF Whereabouts, OnTheWay
<1>5. D \subseteq DOMAIN fate
  BY <1>4 DEF InPlace, Unsettled
<1>6. /\ DOMAIN fate' = DOMAIN fate /\ \A n \in D : fate'[n] # "waiting"
      /\ \A n \in DOMAIN fate : n \notin D => fate'[n] = fate[n]
  BY <1>1, <1>5 DEF Listed, InHand
<1>. QED  BY <1>4, <1>6, SettlesOnce

\* Every step keeps unsettled messages in place and settled ones settled.
LEMMA NextPlace == BInv /\ MainOK /\ InTurn /\ InPlace /\ [Next]_vars => InPlace' /\ Once
<1>. SUFFICES ASSUME BInv, MainOK, InTurn, InPlace, [Next]_vars PROVE InPlace' /\ Once
  OBVIOUS
<1>1. ASSUME NEW k \in Kinds, UserSends(k) PROVE InPlace' /\ Once
  BY <1>1, UserSendsPlace
<1>2. ASSUME NEW b \in DOMAIN boards, NEW yes \in BOOLEAN, NEW ok \in BOOLEAN,
             UserPresses(b, yes, ok)
      PROVE  InPlace' /\ Once
  BY <1>2, UserPressesPlace
<1>3. CASE Split
  BY <1>3, SplitPlace
<1>4. CASE Take
  BY <1>4, TakePlace
<1>5. CASE Respond \/ AuthTimesOut \/ \E j \in Jobs : SpawnJob(j)
  <2>1. /\ UNCHANGED <<updates, msgCh>> /\ main.st # "idle"
        /\ Settle(main.msg, "handled") /\ main' = Idle
    BY <1>5 DEF Respond, AuthTimesOut, SpawnJob, Busy
  <2>. QED  BY <2>1, SettledPlace
<1>6. CASE AuthReads \/ LeftoverReads
  BY <1>6, AuthReadsPlace
<1>7. CASE PromptUser \/ \E k \in Keys : MainCalls(k)
  BY <1>7, QuietPlace DEF PromptUser, MainCalls, Called, MainOK
<1>8. ASSUME NEW j \in Jobs, ReplyToJob(j) \/ CancelJob(j) PROVE InPlace' /\ Once
  BY <1>8, QuietPlace DEF ReplyToJob, CancelJob, Called, MainOK
<1>9. ASSUME NEW o \in Owners, Receive(o) \/ GiveUp(o) PROVE InPlace' /\ Once
  BY <1>9, QuietPlace DEF Receive, GiveUp, chat
<1>10. ASSUME NEW k \in Keys, Expire(k) PROVE InPlace' /\ Once
  BY <1>10, QuietPlace DEF Expire, chat
<1>11. ASSUME NEW j \in Jobs, NEW k \in Keys, JobCalls(j, k) PROVE InPlace' /\ Once
  BY <1>11, QuietPlace DEF JobCalls, chat
<1>12. ASSUME NEW j \in Jobs, JobStep(j) PROVE InPlace' /\ Once
  BY <1>12, QuietPlace DEF JobStep, Round, Answered, Failed, Wake, Removed, chat
<1>13. CASE Restart
  BY <1>13, RestartPlace
<1>14. CASE UNCHANGED vars
  BY <1>14, QuietPlace DEF vars, chat
<1>. QED
  BY <1>1, <1>2, <1>3, <1>4, <1>5, <1>6, <1>7, <1>8, <1>9, <1>10, <1>11, <1>12,
     <1>13, <1>14 DEF Next

\* No message is forgotten: one of which nothing has become is in the updates,
\* in msgChan or in the hands of the loop, whatever readers take messages from
\* the same channel and whenever the process restarts.
THEOREM NoMessageForgotten == Spec => []InPlace
<1>1. Init => InPlace
  BY DEF Init, InPlace, Unsettled, Whereabouts, OnTheWay, Listed, Numbers, Texting,
         InHand, Idle
<1>. QED  BY <1>1, InitBInv, NextBInv, InitReads, NextMain, NextReads, NextPlace, PTL DEF Spec

\* Every message is settled once: none is handled, skipped, read as a code or
\* lost after one of these has become of it.
THEOREM MessagesSettledOnce ==
    Spec => [][\A n \in DOMAIN fate : fate[n] # "waiting" => fate'[n] = fate[n]]_vars
<1>1. BInv /\ MainOK /\ InTurn /\ InPlace /\ [Next]_vars =>
        [\A n \in DOMAIN fate : fate[n] # "waiting" => fate'[n] = fate[n]]_vars
  BY NextPlace DEF Once
<1>. QED
  BY <1>1, InitBInv, NextBInv, InitReads, NextMain, NextReads, NoMessageForgotten, PTL DEF Spec
-----------------------------------------------------------------------------
(***************************************************************************)
(* The mail.                                                               *)
(***************************************************************************)
CheckFields == {"at", "start", "since", "ids", "excused"}
ChecksTyped ==
    /\ triage \in [Messages -> Nat] /\ DOMAIN check = Checkers
    /\ \A c \in Checkers : DOMAIN check[c] = CheckFields /\ check[c].excused \in BOOLEAN
Checking(c) == check[c].at # "rest"

\* Of two checks under way both are excused, and what an unexcused one is about
\* to mark is in the table of nobody: what it let through nobody else marked.
Alone == \A c, d \in Checkers : c # d /\ Checking(c) /\ Checking(d) => check[c].excused
NewToTable ==
    \A c \in Checkers :
        check[c].at = "mark" /\ ~check[c].excused => check[c].ids \cap processed = {}
InboxInv == ChecksTyped /\ Alone /\ NewToTable

\* Whatever is handed to triage now is new, or its check is excused.
NewOrExcused ==
    \A m \in Mails : (triage'[m] > triage[m] /\ m \in processed) =>
        \E c \in Checkers : check[c].at = "mark" /\ check[c].excused /\ m \in check[c].ids

\* A check goes on alone.
LEMMA CheckGoesOn ==
    ASSUME InboxInv, NEW c \in Checkers, NEW r, check' = [check EXCEPT ![c] = r],
           DOMAIN r = CheckFields, r.excused \in BOOLEAN,
           r.at = "rest" \/ (Checking(c) /\ (check[c].excused => r.excused)),
           r.at = "mark" /\ ~r.excused => r.ids \cap processed = {},
           processed' = processed, triage' = triage
    PROVE  InboxInv' /\ NewOrExcused
<1>1. /\ DOMAIN check' = Checkers /\ check'[c] = r
      /\ \A d \in Checkers : d # c => check'[d] = check[d]
  BY DEF InboxInv, ChecksTyped
<1>2. ChecksTyped' /\ NewToTable'
  BY <1>1 DEF InboxInv, ChecksTyped, NewToTable
<1>3. Alone'
  BY <1>1 DEF InboxInv, ChecksTyped, Alone, Checking
<1>4. NewOrExcused
  <2>1. \A m \in Mails : ~(triage[m] > triage[m])
    BY DEF InboxInv, ChecksTyped, Messages
  <2>. QED  BY <2>1 DEF NewOrExcused
<1>. QED  BY <1>2, <1>3, <1>4 DEF InboxInv

\* The record of a checker that does nothing.
LEMMA RestingCheck ==
    DOMAIN Resting = CheckFields /\ ~Resting.excused /\ Resting.at = "rest"
    /\ Resting.excused \in BOOLEAN
BY DEF Resting, CheckFields

\* A check that begins beside others excuses them and itself.
LEMMA CheckBeginsOK ==
    ASSUME InboxInv, NEW c \in Checkers, CheckBegins(c)
    PROVE  InboxInv' /\ NewOrExcused
<1>. DEFINE others == {d \in Checkers : Checking(d)}
<1>1. PICK r : /\ r = [Resting EXCEPT !.at = "fetch", !.since = lastCheck,
                                      !.start = mail, !.excused = others # {}]
               /\ check'[c] = r /\ DOMAIN check' = Checkers
               /\ \A d \in Checkers : d # c => check'[d] = IF Checking(d)
                      THEN [check[d] EXCEPT !.excused = TRUE] ELSE check[d]
  BY DEF CheckBegins, Checking
<1>2. DOMAIN r = CheckFields /\ r.at = "fetch" /\ r.excused = (others # {})
  BY <1>1, RestingCheck DEF CheckFields
<1>3. processed' = processed /\ triage' = triage /\ ~Checking(c)
  BY DEF CheckBegins, Checking
<1>4. ASSUME NEW d \in Checkers, d # c
      PROVE  /\ DOMAIN check'[d] = CheckFields /\ check'[d].excused \in BOOLEAN
             /\ Checking(d)' <=> Checking(d)
             /\ check'[d].at = check[d].at /\ check'[d].ids = check[d].ids
             /\ IF Checking(d) THEN check'[d].excused ELSE check'[d].excused = check[d].excused
  <2>1. PICK q : q = check[d] /\ DOMAIN q = CheckFields /\ q.excused \in BOOLEAN
    BY DEF InboxInv, ChecksTyped
  <2>2. CASE Checking(d)
    <3>1. check'[d] = [q EXCEPT !.excused = TRUE]
      BY <1>1, <1>4, <2>1, <2>2
    <3>. QED  BY <2>1, <2>2, <3>1 DEF CheckFields, Checking
  <2>3. CASE ~Checking(d)
    BY <1>1, <1>4, <2>1, <2>3 DEF Checking
  <2>. QED  BY <2>2, <2>3
<1>5. ChecksTyped'
  BY <1>1, <1>2, <1>3, <1>4 DEF InboxInv, ChecksTyped
<1>6. Alone'
  <2>1. ASSUME NEW d \in Checkers, NEW e \in Checkers, d # e, Checking(d)', Checking(e)'
        PROVE  check'[d].excused
    <3>1. CASE d = c
      <4>1. e \in others
        BY <1>4, <2>1, <3>1
      <4>. QED  BY <1>1, <1>2, <3>1, <4>1
    <3>2. CASE d # c
      BY <1>4, <2>1, <3>2
    <3>. QED  BY <3>1, <3>2
  <2>. QED  BY <2>1 DEF Alone
<1>7. NewToTable'
  <2>1. ASSUME NEW d \in Checkers, check'[d].at = "mark", ~check'[d].excused
        PROVE  check'[d].ids \cap processed = {}
    <3>1. d # c
      BY <1>1, <1>2, <2>1
    <3>2. Checking(d)
      BY <1>4, <2>1, <3>1 DEF Checking
    <3>. QED  BY <1>4, <2>1, <3>1, <3>2
  <2>. QED  BY <1>3, <2>1 DEF NewToTable
<1>8. NewOrExcused
  <2>1. \A m \in Mails : ~(triage[m] > triage[m])
    BY DEF InboxInv, ChecksTyped, Messages
  <2>. QED  BY <1>3, <2>1 DEF NewOrExcused
<1>. QED  BY <1>5, <1>6, <1>7, <1>8 DEF InboxInv

\* The other steps of a check but the last.
LEMMA CheckFilters ==
    ASSUME InboxInv, NEW c \in Checkers, Fetch(c) \/ FetchFails(c) \/ Filter(c)
    PROVE  InboxInv' /\ NewOrExcused
<1>0. /\ processed' = processed /\ triage' = triage /\ Checking(c)
      /\ DOMAIN check[c] = CheckFields /\ check[c].excused \in BOOLEAN
  BY DEF Fetch, FetchFails, Filter, queue, work, InboxInv, ChecksTyped, Checking
<1>1. CASE check' = [check EXCEPT ![c] = Resting]
  BY <1>0, <1>1, RestingCheck, CheckGoesOn
<1>2. CASE Fetch(c) /\ Fetched(c) # {}
  <2>. DEFINE r == [check[c] EXCEPT !.at = "filter", !.ids = Fetched(c),
                                    !.start = 0, !.since = 0]
  <2>1. check' = [check EXCEPT ![c] = r]
    BY <1>2 DEF Fetch
  <2>2. DOMAIN r = CheckFields /\ r.excused = check[c].excused /\ r.at = "filter"
    BY <1>0 DEF CheckFields
  <2>. HIDE DEF r
  <2>. QED  BY <1>0, <2>1, <2>2, CheckGoesOn
<1>3. CASE check' = [check EXCEPT ![c] = [check[c] EXCEPT !.at = "mark",
                                             !.ids = check[c].ids \ processed]]
  <2>. DEFINE r == [check[c] EXCEPT !.at = "mark", !.ids = check[c].ids \ processed]
  <2>1. check' = [check EXCEPT ![c] = r]
    BY <1>3
  <2>2. DOMAIN r = CheckFields /\ r.excused = check[c].excused
        /\ r.ids = check[c].ids \ processed
    BY <1>0 DEF CheckFields
  <2>. HIDE DEF r
  <2>. QED  BY <1>0, <2>1, <2>2, CheckGoesOn
<1>4. CASE check' = [check EXCEPT ![c].at = "mark", ![c].excused = TRUE]
  <2>. DEFINE r == [check[c] EXCEPT !.at = "mark", !.excused = TRUE]
  <2>1. check' = [check EXCEPT ![c] = r]
    BY <1>4 DEF InboxInv, ChecksTyped
  <2>2. DOMAIN r = CheckFields /\ r.excused /\ r.excused \in BOOLEAN
    BY <1>0 DEF CheckFields
  <2>. HIDE DEF r
  <2>. QED  BY <1>0, <2>1, <2>2, CheckGoesOn
<1>. QED  BY <1>1, <1>2, <1>3, <1>4 DEF Fetch, FetchFails, Filter

\* The last: everything it found new is marked, unless that fails, and triaged.
LEMMA CheckMarks ==
    ASSUME InboxInv, NEW c \in Checkers, Mark(c)
    PROVE  InboxInv' /\ NewOrExcused
<1>1. /\ DOMAIN check' = Checkers /\ check'[c] = Resting
      /\ \A d \in Checkers : d # c => check'[d] = check[d]
  BY DEF Mark, InboxInv, ChecksTyped
<1>2. Checking(c) /\ check[c].at = "mark"
  BY DEF Mark, Checking
<1>3. triage' = [m \in Messages |-> IF m \in check[c].ids THEN triage[m] + 1 ELSE triage[m]]
  BY DEF Mark
<1>4. ChecksTyped'
  BY <1>1, <1>3, RestingCheck DEF InboxInv, ChecksTyped
<1>5. Alone'
  BY <1>1, RestingCheck DEF InboxInv, Alone, Checking
<1>6. NewToTable'
  BY <1>1, <1>2, RestingCheck DEF InboxInv, Alone, Checking, NewToTable
<1>7. NewOrExcused
  <2>1. ASSUME NEW m \in Mails, triage'[m] > triage[m], m \in processed
        PROVE  check[c].excused /\ m \in check[c].ids
    <3>1. m \in Messages /\ triage[m] \in Nat
      BY DEF Messages, InboxInv, ChecksTyped
    <3>2. m \in check[c].ids
      BY <1>3, <2>1, <3>1
    <3>. QED  BY <1>2, <2>1, <3>2 DEF InboxInv, NewToTable
  <2>. QED  BY <1>2, <2>1 DEF NewOrExcused
<1>. QED  BY <1>4, <1>5, <1>6, <1>7 DEF InboxInv

\* Nothing else checks, and no e-mail gets a second triage by it.
LEMMA NoCheck ==
    ASSUME InboxInv, UNCHANGED <<check, processed>>, triage' \in [Messages -> Nat],
           \A m \in Mails : triage'[m] <= triage[m]
    PROVE  InboxInv' /\ NewOrExcused
<1>1. InboxInv'
  BY DEF InboxInv, ChecksTyped, Alone, Checking, NewToTable
<1>2. \A m \in Mails : triage[m] \in Nat /\ triage'[m] \in Nat
  BY DEF InboxInv, ChecksTyped, Messages
<1>. QED  BY <1>1, <1>2 DEF NewOrExcused

\* Every step of the mail keeps its invariant and triages nothing twice.
LEMMA NextInbox ==
    ASSUME InboxInv, [InboxNext]_inboxVars
    PROVE  InboxInv' /\ NewOrExcused
<1>0. \A m \in Mails : m \in Messages /\ triage[m] \in Nat /\ triage[m] <= triage[m]
  BY DEF Messages, InboxInv, ChecksTyped
<1>1. CASE Arrive \/ QueueStep \/ UNCHANGED inboxVars
  <2>1. UNCHANGED <<check, processed, triage>>
    BY <1>1 DEF Arrive, QueueStep, DrainBegins, RetrySucceeds, RetryFails, DrainEnds,
                inboxVars, inbox, queue, work
  <2>. QED  BY <1>0, <2>1, NoCheck DEF InboxInv, ChecksTyped
<1>2. ASSUME NEW x \in Exchanges, Converse(x) PROVE InboxInv' /\ NewOrExcused
  <2>1. triage' = [triage EXCEPT ![x] = 1] /\ UNCHANGED <<check, processed>>
    BY <1>2 DEF Converse, inbox
  <2>2. triage' \in [Messages -> Nat]
    BY <2>1 DEF InboxInv, ChecksTyped
  <2>3. \A m \in Mails : m # x
    BY InboxAssumption DEF Mails
  <2>4. \A m \in Mails : triage'[m] <= triage[m]
    BY <1>0, <2>1, <2>3 DEF InboxInv, ChecksTyped
  <2>. QED  BY <2>1, <2>2, <2>4, NoCheck
<1>3. ASSUME NEW c \in Checkers, CheckStep(c) PROVE InboxInv' /\ NewOrExcused
  BY <1>3, CheckBeginsOK, CheckFilters, CheckMarks DEF CheckStep
<1>4. ASSUME NEW m \in Messages, TriageAnswers(m) \/ TriageFails(m)
      PROVE  InboxInv' /\ NewOrExcused
  <2>1. /\ triage[m] > 0 /\ triage' = [triage EXCEPT ![m] = @ - 1]
        /\ UNCHANGED <<check, processed>>
    BY <1>4 DEF TriageAnswers, TriageFails, Ends, inbox
  <2>2. triage' \in [Messages -> Nat]
    BY <2>1 DEF InboxInv, ChecksTyped
  <2>3. \A n \in Mails : triage'[n] <= triage[n]
    BY <1>0, <2>1 DEF InboxInv, ChecksTyped
  <2>. QED  BY <2>1, <2>2, <2>3, NoCheck
<1>5. CASE InboxRestart
  <2>1. /\ check' = [c \in Checkers |-> Resting] /\ processed' = processed
        /\ triage' = [m \in Messages |-> 0]
    BY <1>5 DEF InboxRestart
  <2>2. InboxInv'
    BY <2>1, RestingCheck DEF InboxInv, ChecksTyped, Alone, Checking, NewToTable
  <2>3. \A m \in Mails : ~(triage'[m] > triage[m])
    BY <1>0, <2>1
  <2>. QED  BY <2>2, <2>3 DEF NewOrExcused
<1>. QED  BY <1>1, <1>2, <1>3, <1>4, <1>5 DEF InboxNext

\* An e-mail that is in the table of processed ids is not triaged again, unless
\* two checks overlapped or the table could not be read: for any number of
\* e-mails and checkers, whatever fails and whenever the process restarts.
THEOREM NoSecondTriage == InboxSpec => TriagedOnce
<1>1. InboxInit => InboxInv
  BY RestingCheck DEF InboxInit, InboxInv, ChecksTyped, Alone, Checking, NewToTable
<1>2. InboxInv /\ [InboxNext]_inboxVars => InboxInv' /\ NewOrExcused
  BY NextInbox
<1>3. InboxInv /\ [InboxNext]_inboxVars =>
        [\A m \in Mails : (triage'[m] > triage[m] /\ m \in processed) =>
            \E c \in Checkers : /\ check[c].at = "mark" /\ check[c].excused
                                /\ m \in check[c].ids]_inboxVars
  BY <1>2 DEF NewOrExcused
<1>. QED  BY <1>1, <1>2, <1>3, PTL DEF InboxSpec, TriagedOnce
-----------------------------------------------------------------------------
\* An e-mail is served when a triage of it is under way or waits in the retry
\* queue, and in care also while a check has it on its list.
Ids(s) == {s[i].id : i \in DOMAIN s}
QueueIds == Ids(items) \cup Ids(batch) \cup Ids(requeue)
Served(m) == triage[m] > 0 \/ m \in QueueIds
Listing(c) == check[c].at \in {"filter", "mark"}
InCare(m) == Served(m) \/ \E c \in Checkers : Listing(c) /\ m \in check[c].ids
Arrived(m) == standing[m] = "arrived"

\* An e-mail that is not at its end is in the window of the next check or in care.
MailInSight == \A m \in Mails : Arrived(m) => m > lastCheck \/ InCare(m)

\* What lies before the window of a check under way is in care, whatever an
\* overlapping check does to the window of the next; so is what is marked.
WindowsPassed ==
    \A c \in Checkers, m \in Mails :
        check[c].at = "fetch" /\ m <= check[c].since /\ Arrived(m) => InCare(m)
MarkedServed == \A m \in processed : Arrived(m) => Served(m)

Entries == [id : Messages, n : Nat]
MailTyped ==
    /\ mail \in 0 .. MaxMails /\ lastCheck \in 0 .. mail /\ processed \subseteq 1 .. mail
    /\ \A c \in Checkers : /\ check[c].start \in 0 .. mail /\ check[c].since \in 0 .. mail
                           /\ check[c].ids \subseteq 1 .. mail
    /\ DOMAIN standing = Messages
    /\ items \in Seq(Entries) /\ batch \in Seq(Entries) /\ requeue \in Seq(Entries)

SightInv == MailTyped /\ MailInSight /\ WindowsPassed /\ MarkedServed

\* No id leaves a queue but the one that is taken off its head.
LEMMA IdsOfTail ==
    ASSUME NEW s \in Seq(Entries), s # <<>>
    PROVE  /\ Tail(s) \in Seq(Entries) /\ Head(s) \in Entries
           /\ \A x \in Ids(s) : x = Head(s).id \/ x \in Ids(Tail(s))
<1>1. \A i \in DOMAIN s : s[i] = Head(s)
                          \/ (i - 1 \in DOMAIN Tail(s) /\ Tail(s)[i - 1] = s[i])
  BY RestInLine
<1>2. Tail(s) \in Seq(Entries) /\ Head(s) \in Entries
  OBVIOUS
<1>. QED  BY <1>1, <1>2 DEF Ids

\* An item that is appended joins those that are there.
LEMMA IdsOfAppend ==
    ASSUME NEW s \in Seq(Entries), NEW e \in Entries
    PROVE  /\ Append(s, e) \in Seq(Entries)
           /\ \A x : x \in Ids(s) \/ x = e.id => x \in Ids(Append(s, e))
<1>1. /\ \A i \in DOMAIN s : i \in DOMAIN Append(s, e) /\ Append(s, e)[i] = s[i]
      /\ Len(s) + 1 \in DOMAIN Append(s, e) /\ Append(s, e)[Len(s) + 1] = e
  BY AllInLine
<1>2. Append(s, e) \in Seq(Entries)
  OBVIOUS
<1>. QED  BY <1>1, <1>2 DEF Ids

\* Two queues that are joined keep the ids of both.
LEMMA IdsOfBoth ==
    ASSUME NEW s \in Seq(Entries), NEW t \in Seq(Entries)
    PROVE  /\ s \o t \in Seq(Entries)
           /\ \A x : x \in Ids(s) \/ x \in Ids(t) => x \in Ids(s \o t)
<1>1. /\ \A i \in DOMAIN s : i \in DOMAIN (s \o t) /\ (s \o t)[i] = s[i]
      /\ \A i \in DOMAIN t : Len(s) + i \in DOMAIN (s \o t) /\ (s \o t)[Len(s) + i] = t[i]
  OBVIOUS
<1>2. s \o t \in Seq(Entries)
  OBVIOUS
<1>. QED  BY <1>1, <1>2 DEF Ids

\* A step of triage and queue: what is not ended by it is still served.
LEMMA ServedSight ==
    ASSUME SightInv, UNCHANGED inbox, DOMAIN standing' = Messages,
           items' \in Seq(Entries), batch' \in Seq(Entries), requeue' \in Seq(Entries),
           \A m \in Mails : Arrived(m)' => Arrived(m) /\ (Served(m) => Served(m)')
    PROVE  SightInv'
<1>1. \A c \in Checkers : Listing(c)' <=> Listing(c)
  BY DEF inbox, Listing
<1>2. \A m \in Mails : Arrived(m)' /\ InCare(m) => InCare(m)'
  BY <1>1 DEF InCare, inbox
<1>3. MailTyped'
  BY DEF MailTyped, SightInv, inbox
<1>4. processed \subseteq Mails
  BY InboxAssumption DEF MailTyped, SightInv, Mails
<1>5. MailInSight' /\ WindowsPassed'
  BY <1>2 DEF SightInv, MailInSight, WindowsPassed, inbox
<1>6. MarkedServed'
  BY <1>4 DEF SightInv, MarkedServed, inbox
<1>. QED  BY <1>3, <1>5, <1>6 DEF SightInv

\* The triage of a message ends with an answer.
LEMMA AnswerSight ==
    ASSUME InboxInv, SightInv, NEW m \in Messages, TriageAnswers(m) PROVE SightInv'
<1>1. /\ triage' = [triage EXCEPT ![m] = @ - 1] /\ standing' = [standing EXCEPT ![m] = "ended"]
      /\ UNCHANGED inbox /\ UNCHANGED <<items, batch, requeue>>
  BY DEF TriageAnswers, Ends, EndOf, queue
<1>2. triage \in [Messages -> Nat] /\ DOMAIN standing = Messages
      /\ \A x \in Mails : x \in Messages
  BY DEF InboxInv, ChecksTyped, SightInv, MailTyped, Messages
<1>3. DOMAIN standing' = Messages /\ QueueIds' = QueueIds
  BY <1>1, <1>2 DEF QueueIds, Ids
<1>4. ASSUME NEW x \in Mails, Arrived(x)'
      PROVE  Arrived(x) /\ (Served(x) => Served(x)')
  BY <1>1, <1>2, <1>3, <1>4 DEF Arrived, Served
<1>. QED  BY <1>1, <1>3, <1>4, ServedSight DEF SightInv, MailTyped

\* A triage that fails joins the queue; what it crowds out is at its end.
LEMMA FailSight ==
    ASSUME InboxInv, SightInv, NEW m \in Messages, TriageFails(m) PROVE SightInv'
<1>. DEFINE full == Len(items) >= MaxItems
            s == IF full THEN Tail(items) ELSE items
            e == [id |-> m, n |-> 0]
<1>1. /\ triage' = [triage EXCEPT ![m] = @ - 1]
      /\ items' = Append(s, e) /\ e.id = m /\ e \in Entries
      /\ standing' = IF full THEN [standing EXCEPT ![Head(items).id] = "ended"] ELSE standing
      /\ UNCHANGED inbox /\ UNCHANGED <<batch, requeue>>
  BY DEF TriageFails, Ends, EndOf, Enqueue, Entries
<1>2. /\ triage \in [Messages -> Nat] /\ DOMAIN standing = Messages
      /\ items \in Seq(Entries) /\ \A x \in Mails : x \in Messages
  BY DEF InboxInv, ChecksTyped, SightInv, MailTyped, Messages
<1>3. full => items # <<>>
  BY <1>2, InboxAssumption
<1>4. full => /\ Tail(items) \in Seq(Entries) /\ Head(items).id \in Messages
              /\ \A x \in Ids(items) : x = Head(items).id \/ x \in Ids(Tail(items))
  BY <1>2, <1>3, IdsOfTail DEF Entries
<1>5. s \in Seq(Entries)
  BY <1>2, <1>4
<1>. HIDE DEF e
<1>6. items' \in Seq(Entries) /\ \A x : x \in Ids(s) \/ x = m => x \in Ids(items')
  <2>. HIDE DEF s
  <2>. QED  BY <1>1, <1>5, IdsOfAppend
<1>7. ASSUME NEW x \in Mails, Arrived(x)'
      PROVE  Arrived(x) /\ (Served(x) => Served(x)')
  <2>1. Arrived(x) /\ (full => x # Head(items).id)
    BY <1>1, <1>2, <1>4, <1>7 DEF Arrived
  <2>2. x \in Ids(items) => x \in Ids(s)
    BY <1>4, <2>1
  <2>3. x \in QueueIds => x \in QueueIds'
    BY <1>1, <1>6, <2>2 DEF QueueIds
  <2>4. triage[x] > 0 => triage'[x] > 0 \/ x \in Ids(items')
    BY <1>1, <1>2, <1>6
  <2>. QED  BY <2>1, <2>3, <2>4 DEF Served, QueueIds
<1>8. DOMAIN standing' = Messages
  BY <1>1, <1>2
<1>. QED  BY <1>1, <1>6, <1>7, <1>8, ServedSight DEF SightInv, MailTyped

\* The queue is drained, tried, and put back.
LEMMA QueueSight == ASSUME InboxInv, SightInv, QueueStep PROVE SightInv'
<1>0. /\ items \in Seq(Entries) /\ batch \in Seq(Entries) /\ requeue \in Seq(Entries)
      /\ DOMAIN standing = Messages /\ UNCHANGED inbox /\ triage' = triage
      /\ \A x \in Mails : x \in Messages
  BY DEF SightInv, MailTyped, QueueStep, DrainBegins, RetrySucceeds, RetryFails, DrainEnds,
         work, Messages
<1>1. CASE DrainBegins
  <2>1. /\ batch' = items /\ items' = <<>> /\ batch = <<>> /\ requeue = <<>>
        /\ UNCHANGED <<requeue, standing>>
    BY <1>1 DEF DrainBegins, Draining, work
  <2>2. QueueIds \subseteq QueueIds' /\ <<>> \in Seq(Entries)
    BY <2>1 DEF QueueIds, Ids
  <2>3. \A m \in Mails : Arrived(m)' => Arrived(m) /\ (Served(m) => Served(m)')
    BY <1>0, <2>1, <2>2 DEF Arrived, Served
  <2>. QED  BY <1>0, <2>1, <2>2, <2>3, ServedSight
<1>2. CASE RetrySucceeds \/ RetryFails
  <2>. PICK h : h = Head(batch)
    OBVIOUS
  <2>1. /\ batch # <<>> /\ batch' = Tail(batch) /\ items' = items
        /\ \/ /\ standing' = [standing EXCEPT ![h.id] = "ended"] /\ requeue' = requeue
           \/ /\ standing' = standing /\ requeue' = Append(requeue, [h EXCEPT !.n = @ + 1])
    BY <1>2 DEF RetrySucceeds, RetryFails, EndOf
  <2>2. /\ batch' \in Seq(Entries) /\ h \in Entries
        /\ \A x \in Ids(batch) : x = h.id \/ x \in Ids(batch')
    BY <1>0, <2>1, IdsOfTail
  <2>3. PICK g \in Entries : g = [h EXCEPT !.n = @ + 1] /\ g.id = h.id
    <3>1. PICK k \in Messages, n \in Nat : h = [id |-> k, n |-> n]
      BY <2>2 DEF Entries
    <3>2. [h EXCEPT !.n = @ + 1] = [id |-> k, n |-> n + 1] /\ n + 1 \in Nat /\ h.id = k
      BY <3>1
    <3>3. [id |-> k, n |-> n + 1] \in Entries
      BY <3>2 DEF Entries
    <3>. QED  BY <3>2, <3>3
  <2>4. /\ Append(requeue, g) \in Seq(Entries)
        /\ \A x : x \in Ids(requeue) \/ x = h.id => x \in Ids(Append(requeue, g))
    BY <1>0, <2>3, IdsOfAppend
  <2>5. ASSUME NEW x \in Mails, Arrived(x)'
        PROVE  Arrived(x) /\ (Served(x) => Served(x)')
    <3>1. CASE standing' = [standing EXCEPT ![h.id] = "ended"] /\ requeue' = requeue
      <4>1. Arrived(x) /\ x # h.id
        BY <1>0, <2>5, <3>1 DEF Arrived
      <4>. QED  BY <1>0, <2>1, <2>2, <3>1, <4>1 DEF Served, QueueIds
    <3>2. CASE standing' = standing /\ requeue' = Append(requeue, g)
      <4>1. x \in QueueIds => x \in QueueIds'
        BY <2>1, <2>2, <2>4, <3>2 DEF QueueIds
      <4>. QED  BY <1>0, <2>5, <3>2, <4>1 DEF Served, Arrived
    <3>. QED  BY <2>1, <2>3, <3>1, <3>2
  <2>6. requeue' \in Seq(Entries) /\ DOMAIN standing' = Messages
    BY <1>0, <2>1, <2>3, <2>4
  <2>. QED  BY <1>0, <2>1, <2>2, <2>5, <2>6, ServedSight
<1>3. CASE DrainEnds
  <2>1. /\ items' = requeue \o items /\ requeue' = <<>> /\ batch' = batch
        /\ standing' = standing
    BY <1>3 DEF DrainEnds, work
  <2>2. /\ items' \in Seq(Entries)
        /\ \A x : x \in Ids(requeue) \/ x \in Ids(items) => x \in Ids(items')
    BY <1>0, <2>1, IdsOfBoth
  <2>3. QueueIds \subseteq QueueIds' /\ <<>> \in Seq(Entries)
    BY <2>1, <2>2 DEF QueueIds
  <2>4. \A m \in Mails : Arrived(m)' => Arrived(m) /\ (Served(m) => Served(m)')
    BY <1>0, <2>1, <2>3 DEF Arrived, Served
  <2>. QED  BY <1>0, <2>1, <2>2, <2>3, <2>4, ServedSight
<1>. QED  BY <1>1, <1>2, <1>3 DEF QueueStep
-----------------------------------------------------------------------------
\* An e-mail arrives in the window of the next check, and an exchange of the
\* conversation is no e-mail.
LEMMA ArriveSight == ASSUME InboxInv, SightInv, Arrive PROVE SightInv'
<1>1. /\ mail \in 0 .. MaxMails /\ mail < MaxMails /\ mail' = mail + 1
      /\ standing' = [standing EXCEPT ![mail + 1] = "arrived"]
      /\ UNCHANGED <<lastCheck, processed, check, triage, items, batch, requeue>>
  BY DEF Arrive, queue, SightInv, MailTyped
<1>2. MaxMails \in Nat
  BY InboxAssumption
<1>3. MailTyped'
  <2>1. 0 .. mail \subseteq 0 .. mail' /\ 1 .. mail \subseteq 1 .. mail'
        /\ mail' \in 0 .. MaxMails
    BY <1>1, <1>2
  <2>2. /\ lastCheck \in 0 .. mail /\ processed \subseteq 1 .. mail
        /\ \A c \in Checkers : /\ check[c].start \in 0 .. mail
                              /\ check[c].since \in 0 .. mail
                              /\ check[c].ids \subseteq 1 .. mail
        /\ DOMAIN standing' = DOMAIN standing
    BY <1>1 DEF MailTyped, SightInv
  <2>3. /\ lastCheck \in 0 .. mail' /\ processed \subseteq 1 .. mail'
        /\ \A c \in Checkers : /\ check[c].start \in 0 .. mail'
                              /\ check[c].since \in 0 .. mail'
                              /\ check[c].ids \subseteq 1 .. mail'
    <3>. HIDE <1>1
    <3>. QED  BY ONLY <2>1, <2>2
  <2>. QED  BY <1>1, <2>1, <2>2, <2>3 DEF MailTyped, SightInv
<1>4. \A m \in Messages : Arrived(m)' => Arrived(m) \/ m = mail + 1
  BY <1>1 DEF Arrived, SightInv, MailTyped
<1>5. \A m \in Mails : m \in Messages /\ (InCare(m) => InCare(m)') /\ (Served(m) => Served(m)')
  BY <1>1 DEF Messages, InCare, Served, QueueIds, Ids, Listing
<1>6. lastCheck \in Nat /\ lastCheck < mail + 1
      /\ \A c \in Checkers : check[c].since \in Nat /\ check[c].since < mail + 1
  BY <1>1, <1>2 DEF SightInv, MailTyped
<1>7. MailInSight'
  BY <1>1, <1>4, <1>5, <1>6 DEF SightInv, MailInSight
<1>8. WindowsPassed'
  <2>1. ASSUME NEW c \in Checkers, NEW m \in Mails, check[c].at = "fetch",
               m <= check[c].since, Arrived(m)'
        PROVE  InCare(m)'
    <3>1. Arrived(m)
      BY <1>1, <1>4, <1>5, <1>6, <2>1 DEF Mails
    <3>. QED  BY <1>5, <2>1, <3>1 DEF SightInv, WindowsPassed
  <2>. QED  BY <1>1, <2>1 DEF WindowsPassed
<1>9. MarkedServed'
  <2>1. \A m \in processed : m \in Mails /\ m # mail + 1
    BY <1>1, <1>2 DEF SightInv, MailTyped, Mails
  <2>. QED  BY <1>1, <1>4, <1>5, <2>1 DEF SightInv, MarkedServed
<1>. QED  BY <1>3, <1>7, <1>8, <1>9 DEF SightInv

\* The triage of an exchange begins.
LEMMA ConverseSight ==
    ASSUME InboxInv, SightInv, NEW x \in Exchanges, Converse(x) PROVE SightInv'
<1>1. /\ standing' = [standing EXCEPT ![x] = "arrived"] /\ triage' = [triage EXCEPT ![x] = 1]
      /\ UNCHANGED inbox /\ UNCHANGED <<items, batch, requeue>>
  BY DEF Converse, queue
<1>2. \A m \in Mails : m \in Messages /\ m # x
  BY InboxAssumption DEF Mails, Messages
<1>3. ASSUME NEW m \in Mails, Arrived(m)'
      PROVE  Arrived(m) /\ (Served(m) => Served(m)')
  <2>1. standing'[m] = standing[m] /\ triage'[m] = triage[m]
    BY <1>1, <1>2 DEF SightInv, MailTyped, InboxInv, ChecksTyped
  <2>. QED  BY <1>1, <1>3, <2>1 DEF Arrived, Served, QueueIds, Ids
<1>. QED  BY <1>1, <1>3, ServedSight DEF SightInv, MailTyped

\* A check begins with the window that is left.
LEMMA CheckBeginsSight ==
    ASSUME InboxInv, SightInv, NEW c \in Checkers, CheckBegins(c) PROVE SightInv'
<1>. DEFINE others == {d \in Checkers : Checking(d)}
<1>0. PICK r : /\ r = [Resting EXCEPT !.at = "fetch", !.since = lastCheck,
                                      !.start = mail, !.excused = others # {}]
               /\ check'[c] = r /\ DOMAIN check' = Checkers
               /\ \A d \in Checkers : d # c => check'[d] = IF Checking(d)
                      THEN [check[d] EXCEPT !.excused = TRUE] ELSE check[d]
  BY DEF CheckBegins, Checking
<1>1. /\ UNCHANGED <<mail, lastCheck, processed, triage, standing, items, batch, requeue>>
      /\ check[c].at = "rest" /\ DOMAIN check' = Checkers
  BY <1>0 DEF CheckBegins, queue
<1>2. /\ check'[c].at = "fetch" /\ check'[c].since = lastCheck
      /\ check'[c].start = mail /\ check'[c].ids = {}
  BY <1>0 DEF Resting
<1>3. ASSUME NEW d \in Checkers, d # c
      PROVE  /\ check'[d].at = check[d].at /\ check'[d].since = check[d].since
             /\ check'[d].start = check[d].start /\ check'[d].ids = check[d].ids
  <2>. PICK q : q = check[d]
    OBVIOUS
  <2>1. DOMAIN q = CheckFields
    BY DEF InboxInv, ChecksTyped
  <2>2. check'[d] = q \/ check'[d] = [q EXCEPT !.excused = TRUE]
    BY <1>0, <1>3
  <2>. QED  BY <2>1, <2>2 DEF CheckFields
<1>4. \A m : /\ Served(m)' <=> Served(m)
             /\ Arrived(m)' <=> Arrived(m)
  BY <1>1 DEF Served, Arrived, QueueIds, Ids
<1>5. \A m : InCare(m) => InCare(m)'
  <2>1. \A d \in Checkers : Listing(d) => d # c /\ Listing(d)' /\ check'[d].ids = check[d].ids
    BY <1>1, <1>3 DEF Listing
  <2>. QED  BY <1>4, <2>1 DEF InCare
<1>6. MailTyped'
  <2>1. mail \in 0 .. mail /\ lastCheck \in 0 .. mail /\ {} \subseteq 1 .. mail
    BY DEF SightInv, MailTyped
  <2>2. \A d \in Checkers :
            /\ check'[d].start \in 0 .. mail /\ check'[d].since \in 0 .. mail
            /\ check'[d].ids \subseteq 1 .. mail
    BY <1>2, <1>3, <2>1 DEF SightInv, MailTyped
  <2>. QED  BY <1>1, <2>2 DEF SightInv, MailTyped
<1>7. MailInSight' /\ MarkedServed'
  BY <1>1, <1>4, <1>5 DEF SightInv, MailInSight, MarkedServed
<1>8. WindowsPassed'
  <2>1. ASSUME NEW m \in Mails, m <= lastCheck, Arrived(m) PROVE InCare(m)'
    <3>1. ~(m > lastCheck)
      BY <2>1 DEF Mails, SightInv, MailTyped
    <3>. QED  BY <1>5, <2>1, <3>1 DEF SightInv, MailInSight
  <2>2. ASSUME NEW d \in Checkers, NEW m \in Mails, d # c, check[d].at = "fetch",
               m <= check[d].since, Arrived(m)
        PROVE  InCare(m)'
    BY <1>5, <2>2 DEF SightInv, WindowsPassed
  <2>. QED  BY <1>2, <1>3, <1>4, <2>1, <2>2 DEF WindowsPassed
<1>. QED  BY <1>6, <1>7, <1>8 DEF SightInv

\* A check goes on, and keeps, lists or leaves to others whatever is not ended.
LEMMA CheckSight ==
    ASSUME InboxInv, SightInv, NEW c \in Checkers, NEW r, check' = [check EXCEPT ![c] = r],
           UNCHANGED <<mail, processed, triage>>, UNCHANGED queue,
           DOMAIN standing' = Messages, lastCheck' \in 0 .. mail,
           r.at # "fetch", r.start \in 0 .. mail, r.since \in 0 .. mail,
           r.ids \subseteq 1 .. mail,
           \A m \in Mails : Arrived(m)' =>
              /\ Arrived(m)
              /\ Listing(c) /\ m \in check[c].ids =>
                    Served(m) \/ (r.at \in {"filter", "mark"} /\ m \in r.ids)
              /\ \/ m > lastCheck' \/ InCare(m)
                 \/ r.at \in {"filter", "mark"} /\ m \in r.ids
    PROVE  SightInv'
<1>1. /\ check'[c] = r /\ \A d \in Checkers : d # c => check'[d] = check[d]
  BY DEF InboxInv, ChecksTyped
<1>2. \A m : Served(m)' <=> Served(m)
  BY DEF Served, QueueIds, Ids, queue
<1>3. ASSUME NEW m \in Mails, Arrived(m)', InCare(m) PROVE InCare(m)'
  <2>1. CASE Served(m)
    BY <1>2, <2>1 DEF InCare
  <2>2. ASSUME NEW d \in Checkers, d # c, Listing(d), m \in check[d].ids PROVE InCare(m)'
    BY <1>1, <2>2 DEF InCare, Listing
  <2>3. CASE Listing(c) /\ m \in check[c].ids
    <3>1. Served(m) \/ (r.at \in {"filter", "mark"} /\ m \in r.ids)
      BY <1>3, <2>3
    <3>. QED  BY <1>1, <1>2, <3>1 DEF InCare, Listing
  <2>. QED  BY <1>3, <2>1, <2>2, <2>3 DEF InCare
<1>4. ASSUME NEW m \in Mails, r.at \in {"filter", "mark"}, m \in r.ids PROVE InCare(m)'
  BY <1>1, <1>4 DEF InCare, Listing
<1>5. MailTyped'
  BY <1>1 DEF MailTyped, SightInv, queue
<1>6. MailInSight'
  BY <1>3, <1>4 DEF MailInSight
<1>7. WindowsPassed'
  BY <1>1, <1>3 DEF SightInv, WindowsPassed
<1>8. MarkedServed'
  <2>1. \A m \in processed : m \in Mails
    BY InboxAssumption DEF SightInv, MailTyped, Mails
  <2>. QED  BY <1>2, <2>1 DEF SightInv, MarkedServed
<1>. QED  BY <1>5, <1>6, <1>7, <1>8 DEF SightInv

\* A fetch lists what is in its window and names what it cuts off; the window
\* of the next check opens where it began.
LEMMA FetchSight ==
    ASSUME InboxInv, SightInv, NEW c \in Checkers, Fetch(c) PROVE SightInv'
<1>. PICK r : r = IF Fetched(c) = {} THEN Resting
                  ELSE [check[c] EXCEPT !.at = "filter", !.ids = Fetched(c),
                                        !.start = 0, !.since = 0]
  OBVIOUS
<1>1. /\ check[c].at = "fetch" /\ check' = [check EXCEPT ![c] = r]
      /\ lastCheck' = check[c].start
      /\ standing' = [m \in Messages |-> IF m \in CutOff(c) THEN "ended" ELSE standing[m]]
      /\ UNCHANGED <<mail, processed, triage>> /\ UNCHANGED queue
  BY DEF Fetch
<1>2. DOMAIN check[c] = CheckFields /\ mail \in Nat /\ FetchMax \in Nat
      /\ check[c].start \in 0 .. mail /\ check[c].since \in 0 .. mail
  BY InboxAssumption DEF InboxInv, ChecksTyped, SightInv, MailTyped
<1>3. /\ r.at # "fetch" /\ r.start = 0 /\ r.since = 0 /\ r.ids = Fetched(c)
      /\ Fetched(c) # {} => r.at = "filter"
  <2>. PICK q : q = check[c]
    OBVIOUS
  <2>. QED  BY <1>2 DEF Resting, CheckFields
<1>4. Fetched(c) \subseteq 1 .. mail /\ ~Listing(c)
  BY <1>1 DEF Fetched, Listing
<1>5. ASSUME NEW m \in Mails, Arrived(m)'
      PROVE  /\ Arrived(m)
             /\ \/ m > lastCheck' \/ InCare(m)
                \/ r.at \in {"filter", "mark"} /\ m \in r.ids
  <2>1. Arrived(m) /\ m \notin CutOff(c)
    BY <1>1, <1>5 DEF Arrived, Messages
  <2>2. m \in Nat /\ m >= 1
    BY DEF Mails
  <2>3. CASE m <= check[c].since
    BY <1>1, <2>1, <2>3 DEF SightInv, WindowsPassed
  <2>4. CASE m > check[c].since /\ m <= check[c].start /\ m > mail - FetchMax
    <3>1. m \in Fetched(c)
      BY <1>2, <2>2, <2>4 DEF Fetched
    <3>. QED  BY <1>3, <2>1, <3>1
  <2>5. CASE m > check[c].since /\ m <= check[c].start /\ m <= mail - FetchMax
    <3>1. m \in processed
      BY <1>2, <2>1, <2>2, <2>5 DEF CutOff
    <3>. QED  BY <2>1, <3>1 DEF SightInv, MarkedServed, InCare
  <2>6. CASE m > check[c].start
    BY <1>1, <2>1, <2>6
  <2>. QED  BY <1>2, <2>2, <2>3, <2>4, <2>5, <2>6
<1>6. 0 \in 0 .. mail /\ DOMAIN standing' = Messages
  BY <1>1, <1>2
<1>. QED  BY <1>1, <1>2, <1>3, <1>4, <1>5, <1>6, CheckSight

\* A fetch that fails leaves the window; a filter drops only what is marked.
LEMMA FilterSight ==
    ASSUME InboxInv, SightInv, NEW c \in Checkers, FetchFails(c) \/ Filter(c)
    PROVE  SightInv'
<1>1. /\ UNCHANGED <<mail, lastCheck, processed, triage, standing>> /\ UNCHANGED queue
      /\ check[c].at \in {"fetch", "filter"}
  BY DEF FetchFails, Filter, queue, work
<1>2. DOMAIN check[c] = CheckFields /\ check[c].ids \subseteq 1 .. mail /\ mail \in Nat
      /\ check[c].start \in 0 .. mail /\ check[c].since \in 0 .. mail
      /\ lastCheck \in 0 .. mail /\ DOMAIN standing = Messages
  BY InboxAssumption DEF InboxInv, ChecksTyped, SightInv, MailTyped
<1>. PICK rest : rest = Resting
  OBVIOUS
<1>0. /\ rest = Resting /\ rest.at = "rest" /\ rest.ids = {}
      /\ rest.start \in 0 .. mail /\ rest.since \in 0 .. mail
      /\ rest.ids \subseteq 1 .. mail
  <2>1. 0 \in 0 .. mail
    BY <1>2
  <2>2. rest.at = "rest" /\ rest.ids = {} /\ rest.start = 0 /\ rest.since = 0
    BY DEF Resting
  <2>. QED  BY <2>1, <2>2
<1>3. PICK r :
        /\ check' = [check EXCEPT ![c] = r]
        /\ r.at # "fetch" /\ r.start \in 0 .. mail /\ r.since \in 0 .. mail
        /\ r.ids \subseteq 1 .. mail
        /\ Listing(c) => \A m \in check[c].ids : m \in processed \/ (r.at = "mark" /\ m \in r.ids)
  <2>. PICK q : q = check[c]
    OBVIOUS
  <2>1. CASE FetchFails(c)
    <3>1. check' = [check EXCEPT ![c] = rest] /\ ~Listing(c)
      BY <1>0, <2>1 DEF FetchFails, Listing
    <3>2. rest.at # "fetch" /\ rest.start \in 0 .. mail /\ rest.since \in 0 .. mail
          /\ rest.ids \subseteq 1 .. mail
      BY <1>0
    <3>. WITNESS rest
    <3>. QED  BY ONLY <3>1, <3>2
  <2>2. CASE Filter(c)
    <3>1. CASE check' = [check EXCEPT ![c] = Resting] /\ check[c].ids \ processed = {}
      <4>1. check' = [check EXCEPT ![c] = rest] /\ \A m \in check[c].ids : m \in processed
        BY <1>0, <3>1
      <4>2. rest.at # "fetch" /\ rest.start \in 0 .. mail /\ rest.since \in 0 .. mail
            /\ rest.ids \subseteq 1 .. mail
        BY <1>0
      <4>. WITNESS rest
      <4>. QED  BY ONLY <4>1, <4>2
    <3>2. CASE check' = [check EXCEPT ![c] = [check[c] EXCEPT !.at = "mark",
                                                 !.ids = check[c].ids \ processed]]
      <4>. PICK r : r = [q EXCEPT !.at = "mark", !.ids = check[c].ids \ processed]
        OBVIOUS
      <4>1. /\ r.at = "mark" /\ r.start = q.start /\ r.since = q.since
            /\ r.ids = check[c].ids \ processed
        BY <1>2 DEF CheckFields
      <4>. QED  BY <1>2, <3>2, <4>1
    <3>3. CASE check' = [check EXCEPT ![c].at = "mark", ![c].excused = TRUE]
      <4>. PICK r : r = [q EXCEPT !.at = "mark", !.excused = TRUE]
        OBVIOUS
      <4>1. r.at = "mark" /\ r.start = q.start /\ r.since = q.since /\ r.ids = q.ids
        BY <1>2 DEF CheckFields
      <4>2. check' = [check EXCEPT ![c] = r]
        BY <3>3 DEF InboxInv, ChecksTyped
      <4>. QED  BY <1>2, <4>1, <4>2
    <3>. QED  BY <2>2, <3>1, <3>2, <3>3 DEF Filter
  <2>. QED  BY <2>1, <2>2
<1>4. ASSUME NEW m \in Mails, Arrived(m)'
      PROVE  /\ Arrived(m)
             /\ Listing(c) /\ m \in check[c].ids =>
                   Served(m) \/ (r.at \in {"filter", "mark"} /\ m \in r.ids)
             /\ m > lastCheck' \/ InCare(m)
  <2>1. Arrived(m)
    BY <1>1, <1>4 DEF Arrived
  <2>2. m \in processed => Served(m)
    BY <2>1 DEF SightInv, MarkedServed
  <2>. QED  BY <1>1, <1>3, <2>1, <2>2 DEF SightInv, MailInSight
<1>. QED  BY <1>1, <1>2, <1>3, <1>4, CheckSight

\* What is on the list of a check that marks is handed to triage.
LEMMA MarkSight ==
    ASSUME InboxInv, SightInv, NEW c \in Checkers, Mark(c) PROVE SightInv'
<1>1. /\ check[c].at = "mark" /\ check' = [check EXCEPT ![c] = Resting]
      /\ processed' = processed \/ processed' = processed \cup check[c].ids
      /\ triage' = [m \in Messages |-> IF m \in check[c].ids THEN triage[m] + 1 ELSE triage[m]]
      /\ UNCHANGED <<mail, lastCheck, standing, items, batch, requeue>>
  BY DEF Mark, queue
<1>2. triage \in [Messages -> Nat] /\ \A m \in Mails : m \in Messages
  BY DEF InboxInv, ChecksTyped, Messages
<1>3. /\ check'[c] = Resting /\ \A d \in Checkers : d # c => check'[d] = check[d]
  BY <1>1 DEF InboxInv, ChecksTyped
<1>4. \A m \in Mails : /\ Served(m) \/ m \in check[c].ids => Served(m)'
                       /\ Arrived(m)' <=> Arrived(m)
  BY <1>1, <1>2 DEF Served, QueueIds, Ids, Arrived
<1>5. \A m \in Mails : InCare(m) => InCare(m)'
  <2>1. \A d \in Checkers : d # c /\ Listing(d) => Listing(d)' /\ check'[d].ids = check[d].ids
    BY <1>3 DEF Listing
  <2>. QED  BY <1>4, <2>1 DEF InCare
<1>6. MailTyped'
  <2>1. 0 \in 0 .. mail /\ {} \subseteq 1 .. mail
    BY DEF SightInv, MailTyped
  <2>2. \A d \in Checkers : /\ check'[d].start \in 0 .. mail /\ check'[d].since \in 0 .. mail
                            /\ check'[d].ids \subseteq 1 .. mail
    BY <1>3, <2>1 DEF SightInv, MailTyped, Resting
  <2>3. processed' \subseteq 1 .. mail
    BY <1>1 DEF SightInv, MailTyped
  <2>. QED  BY <1>1, <2>2, <2>3 DEF SightInv, MailTyped
<1>7. MailInSight' /\ WindowsPassed'
  BY <1>1, <1>3, <1>4, <1>5 DEF SightInv, MailInSight, WindowsPassed, Resting
<1>8. MarkedServed'
  <2>1. \A m \in processed' : m \in 1 .. mail /\ (m \in processed \/ m \in check[c].ids)
    BY <1>1 DEF SightInv, MailTyped
  <2>2. 1 .. mail \subseteq Mails
    BY InboxAssumption DEF SightInv, MailTyped, Mails
  <2>. QED  BY <1>4, <2>1, <2>2 DEF SightInv, MarkedServed
<1>. QED  BY <1>6, <1>7, <1>8 DEF SightInv

\* What a restart drops and no check will list or let through is at its end.
LEMMA RestartSight == ASSUME InboxInv, SightInv, InboxRestart PROVE SightInv'
<1>1. /\ check' = [c \in Checkers |-> Resting]
      /\ items' = <<>> /\ batch' = <<>> /\ requeue' = <<>>
      /\ standing' = [m \in Messages |->
                        IF standing[m] = "arrived" /\ Lost(m) THEN "ended" ELSE standing[m]]
      /\ UNCHANGED <<mail, lastCheck, processed>>
  BY DEF InboxRestart
<1>2. \A m \in Mails : m \in Messages /\ m \in Nat
  BY DEF Mails, Messages
<1>3. \A m \in Mails : Arrived(m)' => m \notin processed /\ ~(m <= lastCheck)
  BY <1>1, <1>2 DEF Arrived, Lost
<1>4. lastCheck \in Nat /\ 0 \in 0 .. mail /\ {} \subseteq 1 .. mail /\ <<>> \in Seq(Entries)
  BY InboxAssumption DEF SightInv, MailTyped
<1>5. MailTyped'
  <2>1. \A d \in Checkers : /\ check'[d].start \in 0 .. mail /\ check'[d].since \in 0 .. mail
                            /\ check'[d].ids \subseteq 1 .. mail
    BY <1>1, <1>4 DEF Resting
  <2>. QED  BY <1>1, <1>4, <2>1 DEF SightInv, MailTyped
<1>6. MailInSight'
  BY <1>1, <1>2, <1>3, <1>4 DEF MailInSight
<1>7. WindowsPassed'
  BY <1>1 DEF WindowsPassed, Resting
<1>8. MarkedServed'
  <2>1. \A m \in processed : m \in Mails
    BY InboxAssumption DEF SightInv, MailTyped, Mails
  <2>. QED  BY <1>1, <1>3, <2>1 DEF MarkedServed
<1>. QED  BY <1>5, <1>6, <1>7, <1>8 DEF SightInv

\* Every step keeps the mail in sight.
LEMMA NextSight == InboxInv /\ SightInv /\ [InboxNext]_inboxVars => SightInv'
<1>. SUFFICES ASSUME InboxInv, SightInv, [InboxNext]_inboxVars PROVE SightInv'
  OBVIOUS
<1>1. ASSUME NEW c \in Checkers, CheckStep(c) PROVE SightInv'
  BY <1>1, CheckBeginsSight, FetchSight, FilterSight, MarkSight DEF CheckStep
<1>2. CASE UNCHANGED inboxVars
  <2>1. \A m : (Served(m)' <=> Served(m)) /\ (Arrived(m)' <=> Arrived(m))
    BY <1>2 DEF inboxVars, queue, work, Served, Arrived, QueueIds, Ids
  <2>. QED
    BY <1>2, <2>1, ServedSight DEF inboxVars, queue, work, SightInv, MailTyped
<1>. QED
  BY <1>1, <1>2, ArriveSight, ConverseSight, AnswerSight, FailSight, QueueSight,
     RestartSight DEF InboxNext

\* No e-mail gets lost between a check, the table of processed ids, the triage
\* goroutines and the retry queue: one that has arrived and is not at an end that
\* can be named is listed by the next check or in the care of somebody, with any
\* number of checks overlapping, whatever fails and whenever the process restarts.
THEOREM MailStaysInSight == InboxSpec => []MailInSight
<1>1. InboxInit => InboxInv /\ SightInv
  <2>. SUFFICES ASSUME InboxInit PROVE InboxInv /\ SightInv
    OBVIOUS
  <2>1. InboxInv
    BY RestingCheck DEF InboxInit, InboxInv, ChecksTyped, Alone, Checking, NewToTable
  <2>2. MailTyped
    <3>1. 0 \in 0 .. MaxMails /\ 0 \in 0 .. 0 /\ <<>> \in Seq(Entries)
      BY InboxAssumption
    <3>. QED  BY <3>1 DEF InboxInit, MailTyped, Resting
  <2>3. \A m \in Mails : ~Arrived(m)
    BY DEF InboxInit, Arrived, Messages
  <2>. QED
    BY <2>1, <2>2, <2>3 DEF InboxInit, SightInv, MailInSight, WindowsPassed, MarkedServed
<1>2. InboxInv /\ [InboxNext]_inboxVars => InboxInv'
  BY NextInbox
<1>3. SightInv => MailInSight
  BY DEF SightInv
<1>. QED  BY <1>1, <1>2, <1>3, NextSight, PTL DEF InboxSpec
=============================================================================
