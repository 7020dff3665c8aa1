-------------------------- MODULE ReadMarkerProofs --------------------------
(***************************************************************************)
(* Proofs about Outbox and about ReadMarker, which extends it: for every   *)
(* set of messages, every assignment to accounts, every value of the       *)
(* limits, any length of the receipt queue and any memory of the WhatsApp  *)
(* provider.  First the queue by itself, then the marker beside it.        *)
(***************************************************************************)
EXTENDS ReadMarker, SequenceTheorems, FiniteSetTheorems, TLAPS

-----------------------------------------------------------------------------
(* Without removes exactly one entry of a sequence without repetitions.    *)
LEMMA WithoutProperties ==
  ASSUME NEW S, NEW s \in Seq(S), NEW m, IsInjective(s)
  PROVE  /\ Without(s, m) \in Seq(S)
         /\ IsInjective(Without(s, m))
         /\ Range(Without(s, m)) = Range(s) \ {m}
<1>1. CASE m \notin Range(s)
  BY <1>1 DEF Without
<1>2. CASE m \in Range(s)
  <2> DEFINE k == IndexOf(s, m)
             u == SubSeq(s, 1, k - 1)
             v == SubSeq(s, k + 1, Len(s))
             w == u \o v
  <2>1. k \in 1..Len(s) /\ s[k] = m
    BY <1>2 DEF IndexOf, Range
  <2> HIDE DEF k
  <2>2. u \in Seq(S) /\ Len(u) = k - 1 /\ \A i \in 1..(k - 1) : u[i] = s[i]
    BY <2>1, SubSeqProperties
  <2>3. v \in Seq(S) /\ Len(v) = Len(s) - k /\ \A i \in 1..(Len(s) - k) : v[i] = s[k + i]
    BY <2>1, SubSeqProperties
  <2> HIDE DEF u, v
  <2>4. w \in Seq(S) /\ Len(w) = Len(s) - 1
    <3>1. w \in Seq(S) /\ Len(w) = Len(u) + Len(v)
      BY <2>2, <2>3, ConcatProperties, Zenon
    <3>2. Len(s) \in Nat /\ k \in Nat
      BY <2>1
    <3> HIDE DEF w
    <3>3. QED
      BY <3>1, <3>2, <2>2, <2>3
  <2>5. \A i \in 1..(Len(s) - 1) : w[i] = IF i < k THEN s[i] ELSE s[i + 1]
    BY <2>1, <2>2, <2>3, ConcatProperties
  <2> HIDE DEF w
  <2>6. DOMAIN w = 1..(Len(s) - 1) /\ DOMAIN s = 1..Len(s) /\ Len(s) \in Nat
    BY <2>4
  <2>7. \A i, j \in DOMAIN s : s[i] = s[j] => i = j
    BY DEF IsInjective
  <2>8. IsInjective(w)
    <3> DEFINE at(i) == IF i < k THEN i ELSE i + 1
    <3>1. \A i \in 1..(Len(s) - 1) : at(i) \in 1..Len(s) /\ w[i] = s[at(i)]
      BY <2>1, <2>5, <2>6
    <3>2. \A i, j \in 1..(Len(s) - 1) : at(i) = at(j) => i = j
      BY <2>1, <2>6
    <3> HIDE DEF at
    <3>3. QED
      BY <3>1, <3>2, <2>6, <2>7 DEF IsInjective
  <2>9. ASSUME NEW x \in Range(s), x # m PROVE x \in Range(w)
    <3>1. PICK i \in 1..Len(s) : s[i] = x
      BY <2>6 DEF Range
    <3>2. i # k
      BY <2>1, <2>9, <3>1
    <3>3. CASE i < k
      BY <3>1, <3>3, <2>1, <2>5, <2>6 DEF Range
    <3>4. CASE i > k
      <4>1. i - 1 \in 1..(Len(s) - 1) /\ w[i - 1] = s[i]
        BY <3>4, <2>1, <2>5, <2>6
      <4>2. QED
        BY <4>1, <3>1, <2>6 DEF Range
    <3>5. QED
      BY <3>2, <3>3, <3>4, <2>1
  <2>10. ASSUME NEW x \in Range(w) PROVE x \in Range(s) \ {m}
    <3>1. PICK i \in 1..(Len(s) - 1) : w[i] = x
      BY <2>6 DEF Range
    <3>2. PICK j \in 1..Len(s) : x = s[j] /\ j # k
      BY <3>1, <2>1, <2>5, <2>6
    <3>3. x # m
      BY <3>2, <2>1, <2>6, <2>7
    <3>4. QED
      BY <3>2, <3>3, <2>6 DEF Range
  <2>11. Without(s, m) = w
    BY <1>2 DEF Without, w, u, v, k
  <2>12. QED
    BY <2>4, <2>8, <2>9, <2>10, <2>11
<1>3. QED
  BY <1>1, <1>2

(* Appending a new element keeps a sequence free of repetitions.           *)
LEMMA AppendDistinct ==
  ASSUME NEW S, NEW s \in Seq(S), NEW e \in S, IsInjective(s), e \notin Range(s)
  PROVE  /\ Append(s, e) \in Seq(S)
         /\ IsInjective(Append(s, e))
         /\ Range(Append(s, e)) = Range(s) \union {e}
<1> DEFINE t == Append(s, e)
<1>1. /\ t \in Seq(S) /\ Len(t) = Len(s) + 1
      /\ \A i \in 1..Len(s) : t[i] = s[i]
      /\ t[Len(s) + 1] = e
  BY AppendProperties
<1>2. DOMAIN t = 1..(Len(s) + 1) /\ DOMAIN s = 1..Len(s) /\ Len(s) \in Nat
  BY <1>1
<1> HIDE DEF t
<1>3. \A i \in 1..Len(s) : s[i] # e
  BY <1>2 DEF Range
<1>4. IsInjective(t)
  BY <1>1, <1>2, <1>3 DEF IsInjective
<1>5. Range(t) = Range(s) \union {e}
  <2>1. ASSUME NEW x \in Range(t) PROVE x \in Range(s) \union {e}
    <3>1. PICK i \in 1..(Len(s) + 1) : t[i] = x
      BY <1>2 DEF Range
    <3>2. QED
      BY <3>1, <1>1, <1>2 DEF Range
  <2>2. ASSUME NEW x \in Range(s) \union {e} PROVE x \in Range(t)
    <3>1. CASE x = e
      BY <3>1, <1>1, <1>2 DEF Range
    <3>2. CASE x \in Range(s)
      <4>1. PICK i \in 1..Len(s) : s[i] = x
        BY <3>2, <1>2 DEF Range
      <4>2. i \in DOMAIN t /\ t[i] = x
        BY <4>1, <1>1, <1>2
      <4>3. QED
        BY <4>2 DEF Range
    <3>3. QED
      BY <3>1, <3>2
  <2>3. QED
    BY <2>1, <2>2
<1>6. QED
  BY <1>1, <1>4, <1>5 DEF t

(* A prefix of a sequence without repetitions is one, of its elements.     *)
LEMMA PrefixDistinct ==
  ASSUME NEW S, NEW s \in Seq(S), NEW n \in 0..Len(s), IsInjective(s)
  PROVE  /\ SubSeq(s, 1, n) \in Seq(S)
         /\ IsInjective(SubSeq(s, 1, n))
         /\ Range(SubSeq(s, 1, n)) \subseteq Range(s)
<1> DEFINE p == SubSeq(s, 1, n)
<1>1. p \in Seq(S) /\ Len(p) = n /\ \A i \in 1..n : p[i] = s[i]
  BY SubSeqProperties
<1>2. DOMAIN p = 1..n /\ DOMAIN s = 1..Len(s) /\ Len(s) \in Nat
  BY <1>1
<1> HIDE DEF p
<1>3. QED
  BY <1>1, <1>2 DEF IsInjective, Range, p

(* The head of a sequence without repetitions is not in its tail.          *)
LEMMA TailDistinct ==
  ASSUME NEW S, NEW s \in Seq(S), s # <<>>, IsInjective(s)
  PROVE  /\ Head(s) \in S /\ Head(s) \in Range(s)
         /\ Tail(s) \in Seq(S)
         /\ IsInjective(Tail(s))
         /\ Range(Tail(s)) \subseteq Range(s)
         /\ Head(s) \notin Range(Tail(s))
<1> DEFINE t == Tail(s)
<1>1. t \in Seq(S) /\ Len(t) = Len(s) - 1 /\ \A i \in 1..Len(t) : t[i] = s[i + 1]
  BY HeadTailProperties
<1>2. DOMAIN t = 1..Len(t) /\ DOMAIN s = 1..Len(s) /\ Len(s) \in Nat \ {0} /\ Head(s) = s[1]
  BY <1>1
<1>3. Head(s) \in S
  BY HeadTailProperties
<1> HIDE DEF t
<1>4. \A i \in 1..Len(t) : i + 1 \in DOMAIN s /\ i + 1 # 1
  BY <1>1, <1>2
<1>5. IsInjective(t)
  BY SMTT(30), <1>1, <1>2, <1>4 DEF IsInjective
<1>6. Range(t) \subseteq Range(s)
  BY SMTT(30), <1>1, <1>2, <1>4 DEF Range
<1>7. Head(s) \notin Range(t)
  <2>1. SUFFICES ASSUME Head(s) \in Range(t) PROVE FALSE
    OBVIOUS
  <2>2. PICK i \in 1..Len(t) : t[i] = s[1]
    BY <2>1, <1>2 DEF Range
  <2>3. s[i + 1] = s[1] /\ 1 \in DOMAIN s /\ i + 1 \in DOMAIN s
    BY <2>2, <1>1, <1>2, <1>4
  <2>4. QED
    BY <2>3, <1>4 DEF IsInjective
<1>8. Head(s) \in Range(s)
  BY <1>2 DEF Range
<1>9. QED
  BY <1>1, <1>3, <1>5, <1>6, <1>7, <1>8 DEF t

-----------------------------------------------------------------------------
(* Each step preserves the inductive invariant: one lemma per action.      *)

(* While a row is handled, cur is a message.                               *)
LEMMA CurIsItem == IInv /\ op # "idle" => cur \in Item
BY OutboxAssumption DEF IInv, TypeOK, QueueShape

LEMMA EnqueueStep == ASSUME IInv, NEW m \in Item, Enqueue(m) PROVE IInv'
<1>1. m \notin Range(ready) /\ m \notin Held /\ m # NoItem
  BY OutboxAssumption DEF IInv, QueueShape, HeldRowsAreOpen, Open, Enqueue
<1>2. /\ ready' \in Seq(Item)
      /\ IsInjective(ready')
      /\ Range(ready') = Range(ready) \union {m}
  BY <1>1, AppendDistinct DEF IInv, TypeOK, QueueShape, Enqueue
<1>3. TypeOK'
  BY <1>2 DEF IInv, TypeOK, Enqueue, Statuses, taskVars, chanVars, histVars
<1>4. StatusAgreement'
  BY DEF IInv, TypeOK, StatusAgreement, Agree, Enqueue, Open, Statuses
<1>5. QueueShape'
  BY <1>2 DEF IInv, TypeOK, QueueShape, Enqueue, taskVars, Open
<1>6. HeldRowsAreOpen'
  BY SMTT(30), <1>1, <1>2 DEF IInv, TypeOK, HeldRowsAreOpen, Held, Enqueue, taskVars, Open
<1>7. AttemptsCounted' /\ FailuresCounted' /\ CopiesCounted'
  BY <1>1 DEF IInv, TypeOK, AttemptsCounted, FailuresCounted, CopiesCounted, FailedForReal, One,
     Enqueue, taskVars, chanVars, histVars
<1>8. RecordIsTrue' /\ SentWasAccepted' /\ GiveUpIsEarned'
  BY SMTT(30) DEF IInv, TypeOK, RecordIsTrue, SentWasAccepted, GiveUpIsEarned,
     Enqueue, taskVars, chanVars, histVars
<1>9. QED
  BY <1>3, <1>4, <1>5, <1>6, <1>7, <1>8 DEF IInv

LEMMA WakeStep == ASSUME IInv, NEW m \in Item, Wake(m) PROVE IInv'
<1>1. m \notin Range(ready) /\ m \notin Held
  BY DEF IInv, HeldRowsAreOpen, Wake
<1>2. /\ ready' \in Seq(Item)
      /\ IsInjective(ready')
      /\ Range(ready') = Range(ready) \union {m}
  BY <1>1, AppendDistinct DEF IInv, TypeOK, QueueShape, Wake
<1>3. TypeOK'
  BY <1>2 DEF IInv, TypeOK, Wake, taskVars, chanVars, histVars
<1>4. StatusAgreement'
  BY DEF IInv, StatusAgreement, Agree, Wake
<1>5. QueueShape'
  BY <1>2 DEF IInv, QueueShape, Wake, taskVars, Open
<1>6. HeldRowsAreOpen'
  BY <1>2 DEF IInv, HeldRowsAreOpen, Held, Wake, taskVars
<1>7. AttemptsCounted' /\ FailuresCounted' /\ CopiesCounted'
  BY DEF IInv, AttemptsCounted, FailuresCounted, CopiesCounted, FailedForReal, One,
     Wake, taskVars, chanVars, histVars
<1>8. RecordIsTrue' /\ SentWasAccepted' /\ GiveUpIsEarned'
  BY DEF IInv, RecordIsTrue, SentWasAccepted, GiveUpIsEarned,
     Wake, taskVars, chanVars, histVars
<1>9. QED
  BY <1>3, <1>4, <1>5, <1>6, <1>7, <1>8 DEF IInv

(* Steps that touch only the clock, the pool or the CRM queue.             *)
LEMMA AsideStep ==
  ASSUME IInv, UNCHANGED <<rowVars, taskVars, chanVars, histVars>>,
         aged' \subseteq Item, crm' \subseteq Item, up' \subseteq Account
  PROVE  IInv'
<1>1. TypeOK'
  BY DEF IInv, TypeOK, rowVars, taskVars, chanVars, histVars
<1>2. StatusAgreement' /\ QueueShape' /\ HeldRowsAreOpen'
  BY DEF IInv, StatusAgreement, Agree, QueueShape, HeldRowsAreOpen, Held, rowVars, taskVars
<1>3. AttemptsCounted' /\ FailuresCounted' /\ CopiesCounted'
  BY DEF IInv, AttemptsCounted, FailuresCounted, CopiesCounted, FailedForReal, One,
     rowVars, taskVars, chanVars, histVars
<1>4. RecordIsTrue' /\ SentWasAccepted' /\ GiveUpIsEarned'
  BY DEF IInv, RecordIsTrue, SentWasAccepted, GiveUpIsEarned,
     rowVars, taskVars, chanVars, histVars
<1>5. QED
  BY <1>1, <1>2, <1>3, <1>4 DEF IInv

LEMMA DayPassesStep == ASSUME IInv, DayPasses PROVE IInv'
BY AsideStep DEF IInv, TypeOK, DayPasses

LEMMA AccountUpStep == ASSUME IInv, NEW a \in Account, AccountUp(a) PROVE IInv'
BY AsideStep DEF IInv, TypeOK, AccountUp, dbVars, rowVars

LEMMA AccountDownStep == ASSUME IInv, NEW a \in Account, AccountDown(a) PROVE IInv'
BY AsideStep DEF IInv, TypeOK, AccountDown, dbVars, rowVars

LEMMA StutterStep == ASSUME IInv, UNCHANGED outboxVars PROVE IInv'
BY AsideStep DEF IInv, TypeOK, outboxVars, dbVars, rowVars

LEMMA PollStep == ASSUME IInv, Poll PROVE IInv'
<1> DEFINE n == IF Len(ready) < BatchSize THEN Len(ready) ELSE BatchSize
<1>1. n \in 0..Len(ready)
  BY OutboxAssumption DEF IInv, TypeOK
<1>2. batch' = SubSeq(ready, 1, n)
  BY DEF Poll
<1> HIDE DEF n
<1>3. batch' \in Seq(Item) /\ IsInjective(batch') /\ Range(batch') \subseteq Range(ready)
  BY <1>1, <1>2, PrefixDistinct DEF IInv, TypeOK, QueueShape
<1>4. TypeOK'
  BY <1>3 DEF IInv, TypeOK, Poll, dbVars, chanVars, histVars
<1>5. StatusAgreement' /\ QueueShape'
  BY DEF IInv, StatusAgreement, Agree, QueueShape, Poll, dbVars
<1>6. HeldRowsAreOpen'
  BY <1>3 DEF IInv, QueueShape, HeldRowsAreOpen, Held, Poll, dbVars
<1>7. AttemptsCounted' /\ FailuresCounted' /\ CopiesCounted'
  BY DEF IInv, AttemptsCounted, FailuresCounted, CopiesCounted, FailedForReal, One,
     Poll, dbVars, chanVars, histVars
<1>8. RecordIsTrue' /\ SentWasAccepted' /\ GiveUpIsEarned'
  BY DEF IInv, RecordIsTrue, SentWasAccepted, GiveUpIsEarned, Poll, dbVars, chanVars, histVars
<1>9. QED
  BY <1>4, <1>5, <1>6, <1>7, <1>8 DEF IInv

LEMMA TakeStep ==
  ASSUME IInv, NEW m \in Item, NEW next \in {"send", "fail", "later"}, NEW err \in Errors \ {"error"},
         Take(m, next, err)
  PROVE  IInv'
<1>1. /\ m \in Range(batch) /\ m = Head(batch)
      /\ batch' \in Seq(Item)
      /\ IsInjective(batch')
      /\ Range(batch') \subseteq Range(batch)
      /\ m \notin Range(batch')
  BY TailDistinct DEF IInv, TypeOK, HeldRowsAreOpen, Take
<1>2. m # NoItem /\ cur = NoItem /\ item[m] \in Open /\ m \in Range(ready)
  BY <1>1, OutboxAssumption DEF IInv, QueueShape, HeldRowsAreOpen, Held, Take
<1>3. TypeOK'
  BY <1>1 DEF IInv, TypeOK, Take, Ops, dbVars, chanVars, histVars
<1>4. StatusAgreement'
  BY DEF IInv, StatusAgreement, Agree, Take, dbVars
<1>5. QueueShape'
  BY <1>2 DEF IInv, QueueShape, Take, dbVars
<1>6. HeldRowsAreOpen'
  BY <1>1, <1>2 DEF IInv, HeldRowsAreOpen, Held, Take, dbVars
<1>7. AttemptsCounted' /\ FailuresCounted' /\ CopiesCounted'
  BY <1>2 DEF IInv, TypeOK, AttemptsCounted, FailuresCounted, CopiesCounted, FailedForReal, One, Open,
     Take, dbVars, chanVars, histVars
<1>8. RecordIsTrue' /\ SentWasAccepted' /\ GiveUpIsEarned'
  BY DEF IInv, RecordIsTrue, SentWasAccepted, GiveUpIsEarned, Take, dbVars, chanVars, histVars
<1>9. QED
  BY <1>3, <1>4, <1>5, <1>6, <1>7, <1>8 DEF IInv

LEMMA DecideStep == ASSUME IInv, Decide PROVE IInv'
<1>1. PICK m \in Item : NoProvider(m) \/ Throttled(m) \/ BadAttachment(m) \/ Send(m)
  BY DEF Decide
<1>2. CASE NoProvider(m)
  BY <1>2, TakeStep DEF NoProvider, Errors
<1>3. CASE Throttled(m)
  BY <1>3, TakeStep DEF Throttled, Errors
<1>4. CASE BadAttachment(m)
  BY <1>4, TakeStep DEF BadAttachment, Errors
<1>5. CASE Send(m)
  BY <1>5, TakeStep DEF Send, Errors
<1>6. QED
  BY <1>1, <1>2, <1>3, <1>4, <1>5

LEMMA AnswerOkStep == ASSUME IInv, AnswerOk PROVE IInv'
<1>1. cur \in Item /\ cur \in Held /\ item[cur] \in Open
  BY CurIsItem DEF IInv, AnswerOk, Held, HeldRowsAreOpen
<1>2. TypeOK'
  <2>1. copies' \in [Item -> Nat] /\ lastExt' \in Nat /\ got' \in Nat /\ op' \in Ops
    BY <1>1 DEF IInv, TypeOK, AnswerOk, Accepted, Ops
  <2>2. QED
    BY <2>1 DEF IInv, TypeOK, AnswerOk, dbVars, histVars
<1>3. StatusAgreement' /\ QueueShape'
  BY DEF IInv, StatusAgreement, Agree, QueueShape, AnswerOk, dbVars
<1>4. HeldRowsAreOpen'
  BY DEF IInv, HeldRowsAreOpen, Held, AnswerOk, dbVars
<1>5. AttemptsCounted' /\ FailuresCounted'
  BY <1>1 DEF IInv, AttemptsCounted, FailuresCounted, FailedForReal, One, AnswerOk, dbVars, histVars
<1>6. CopiesCounted'
  BY SMTT(30), <1>1 DEF IInv, TypeOK, CopiesCounted, One, Open, AnswerOk, Accepted, dbVars, histVars
<1>7. RecordIsTrue'
  BY <1>1 DEF IInv, TypeOK, RecordIsTrue, AnswerOk, Accepted, dbVars
<1>8. SentWasAccepted' /\ GiveUpIsEarned'
  BY SMTT(30), <1>1 DEF IInv, TypeOK, SentWasAccepted, GiveUpIsEarned, AnswerOk, Accepted, dbVars, histVars
<1>9. QED
  BY <1>2, <1>3, <1>4, <1>5, <1>6, <1>7, <1>8 DEF IInv

LEMMA AnswerFloodStep == ASSUME IInv, AnswerFlood PROVE IInv'
<1>1. TypeOK'
  BY DEF IInv, TypeOK, AnswerFlood, Ops, Errors, dbVars, chanVars, histVars
<1>2. StatusAgreement' /\ QueueShape'
  BY DEF IInv, StatusAgreement, Agree, QueueShape, AnswerFlood, dbVars
<1>3. HeldRowsAreOpen'
  BY DEF IInv, HeldRowsAreOpen, Held, AnswerFlood, dbVars
<1>4. AttemptsCounted' /\ FailuresCounted' /\ CopiesCounted'
  BY DEF IInv, AttemptsCounted, FailuresCounted, CopiesCounted, FailedForReal, One,
     AnswerFlood, dbVars, chanVars, histVars
<1>5. RecordIsTrue' /\ SentWasAccepted' /\ GiveUpIsEarned'
  BY DEF IInv, RecordIsTrue, SentWasAccepted, GiveUpIsEarned, AnswerFlood, dbVars, chanVars, histVars
<1>6. QED
  BY <1>1, <1>2, <1>3, <1>4, <1>5 DEF IInv

(* Both ways a send fails for real: the worker saw one more failure.       *)
LEMMA FailureSeenStep ==
  ASSUME IInv, op = "send", SawFailure, UNCHANGED <<dbVars, up, batch, cur, got, copies, lastExt>>,
         stray' \in {stray, stray \union {cur}},
         strikes' \in [Item -> Nat], faults' \in Nat,
         \A m \in Item : strikes'[m] >= strikes[m],
         stray' # stray => strikes'[cur] >= strikes[cur] + 1
  PROVE  IInv'
<1>1. cur \in Item /\ cur \in Held /\ item[cur] \in Open
  BY CurIsItem DEF IInv, Held, HeldRowsAreOpen
<1>2. op' = IF attempts[cur] + 1 >= MaxAttempts THEN "fail" ELSE "burn"
  BY DEF SawFailure, AfterFailure
<1>3. failures' \in [Item -> Nat]
      /\ failures'[cur] = failures[cur] + 1
      /\ \A m \in Item : m # cur => failures'[m] = failures[m]
  BY <1>1 DEF IInv, TypeOK, SawFailure
<1>4. outcome' = "error"
  BY DEF SawFailure
<1>5. TypeOK'
  BY <1>1, <1>2, <1>3, <1>4 DEF IInv, TypeOK, Ops, Errors, dbVars
<1>6. StatusAgreement' /\ QueueShape'
  BY <1>2 DEF IInv, StatusAgreement, Agree, QueueShape, dbVars
<1>7. HeldRowsAreOpen'
  BY <1>2 DEF IInv, HeldRowsAreOpen, Held, dbVars
<1>8. AttemptsCounted'
  <2>1. attempts' = attempts /\ cur' = cur
    BY DEF dbVars
  <2>2. ASSUME NEW m \in Item PROVE attempts'[m] <= failures'[m] /\ attempts'[m] < MaxAttempts
    <3>1. attempts[m] \in Nat /\ failures[m] \in Nat /\ attempts[m] <= failures[m] /\ attempts[m] < MaxAttempts
      BY DEF IInv, TypeOK, AttemptsCounted
    <3>2. CASE m = cur
      BY <3>1, <3>2, <2>1, <1>3
    <3>3. CASE m # cur
      BY <3>1, <3>3, <2>1, <1>3
    <3>4. QED
      BY <3>2, <3>3
  <2>3. attempts'[cur'] < failures'[cur']
    BY <2>1, <1>1, <1>3 DEF IInv, TypeOK, AttemptsCounted
  <2>4. op' = "burn" => attempts'[cur'] + 1 < MaxAttempts
    BY <2>1, <1>1, <1>2, OutboxAssumption DEF IInv, TypeOK
  <2>5. op' = "fail" => attempts'[cur'] + 1 >= MaxAttempts
    BY <2>1, <1>1, <1>2, OutboxAssumption DEF IInv, TypeOK
  <2>6. QED
    BY <2>2, <2>3, <2>4, <2>5 DEF AttemptsCounted, FailedForReal
<1>9. FailuresCounted'
  <2> SUFFICES ASSUME NEW m \in Item
      PROVE failures'[m] <= attempts'[m] + strikes'[m]
              + One((cur' = m /\ FailedForReal') \/ item'[m] = "failed")
    BY DEF FailuresCounted
  <2> attempts' = attempts /\ cur' = cur /\ item' = item
    BY DEF dbVars
  <2>1. CASE m = cur
    <3>1. FailedForReal' /\ ~FailedForReal /\ item[m] # "failed"
      BY <2>1, <1>1, <1>2, <1>4 DEF FailedForReal, Open
    <3>2. failures[m] <= attempts[m] + strikes[m]
      BY <3>1 DEF IInv, TypeOK, FailuresCounted, One
    <3>3. QED
      BY <2>1, <3>1, <3>2, <1>3 DEF IInv, TypeOK, One
  <2>2. CASE m # cur
    <3>1. failures'[m] = failures[m] /\ failures[m] <= attempts[m] + strikes[m] + One(item[m] = "failed")
      BY <2>2, <1>3 DEF IInv, FailuresCounted, One
    <3>2. One((cur' = m /\ FailedForReal') \/ item'[m] = "failed") = One(item[m] = "failed")
      BY <2>2 DEF One
    <3>3. attempts[m] \in Nat /\ strikes[m] \in Nat /\ strikes'[m] \in Nat /\ strikes'[m] >= strikes[m]
      BY DEF IInv, TypeOK
    <3>4. failures[m] \in Nat /\ One(item[m] = "failed") \in Nat
      BY DEF IInv, TypeOK, One
    <3>5. QED
      BY <3>1, <3>2, <3>3, <3>4
  <2>3. QED
    BY <2>1, <2>2
<1>10. CopiesCounted'
  <2> SUFFICES ASSUME NEW m \in Item
      PROVE copies'[m] + One(m \in stray')
              <= strikes'[m] + One((cur' = m /\ op' = "sent") \/ item'[m] = "sent")
    BY DEF CopiesCounted
  <2>1. CASE m = cur
    BY <2>1, <1>1, <1>2 DEF IInv, TypeOK, CopiesCounted, One, Open, dbVars, rowVars
  <2>2. CASE m # cur
    <3>1. copies[m] + One(m \in stray) <= strikes[m] + One((cur = m /\ op = "sent") \/ item[m] = "sent")
      BY DEF IInv, CopiesCounted
    <3>2. copies'[m] = copies[m] /\ strikes'[m] >= strikes[m] /\ item'[m] = item[m]
      BY <2>2, <1>2 DEF IInv, TypeOK, dbVars, rowVars
    <3>3. m \in stray' <=> m \in stray
      BY <2>2
    <3>4. cur # m /\ cur' # m
      BY <2>2
    <3>5. copies[m] \in Nat /\ strikes[m] \in Nat /\ strikes'[m] \in Nat
      BY DEF IInv, TypeOK
    <3> QED
      BY <3>1, <3>2, <3>3, <3>4, <3>5 DEF One
  <2>3. QED
    BY <2>1, <2>2
<1>11. RecordIsTrue'
  BY <1>1, <1>2 DEF IInv, RecordIsTrue, Open, dbVars, rowVars
<1>12. SentWasAccepted' /\ GiveUpIsEarned'
  BY <1>1, <1>3 DEF IInv, TypeOK, SentWasAccepted, GiveUpIsEarned, Open, dbVars, rowVars
<1>13. QED
  BY <1>5, <1>6, <1>7, <1>8, <1>9, <1>10, <1>11, <1>12 DEF IInv

LEMMA AnswerErrorStep == ASSUME IInv, AnswerError PROVE IInv'
<1>1. strikes' = strikes /\ faults' = faults /\ stray' = stray
  BY DEF AnswerError, chanVars
<1>2. strikes' \in [Item -> Nat] /\ faults' \in Nat /\ \A m \in Item : strikes'[m] >= strikes[m]
  BY <1>1 DEF IInv, TypeOK
<1>3. QED
  BY <1>1, <1>2, FailureSeenStep DEF AnswerError, chanVars

(* A fault only adds strikes, and one to every message it hits.            *)
LEMMA FaultAddsStrikes ==
  ASSUME TypeOK, NEW S, Fault(S)
  PROVE  /\ strikes' \in [Item -> Nat]
         /\ faults' \in Nat
         /\ \A m \in Item : strikes'[m] >= strikes[m]
         /\ \A m \in Item \intersect S : strikes'[m] = strikes[m] + 1
BY SMTT(30) DEF TypeOK, Fault

LEMMA AnswerLostStep == ASSUME IInv, AnswerLost PROVE IInv'
<1>1. cur \in Item
  BY CurIsItem DEF AnswerLost
<1>2. /\ strikes' \in [Item -> Nat] /\ faults' \in Nat
      /\ \A m \in Item : strikes'[m] >= strikes[m]
      /\ strikes'[cur] = strikes[cur] + 1
  BY <1>1, FaultAddsStrikes DEF IInv, AnswerLost
<1>3. strikes'[cur] >= strikes[cur] + 1
  BY <1>1, <1>2 DEF IInv, TypeOK
<1>4. QED
  BY <1>2, <1>3, FailureSeenStep DEF AnswerLost

LEMMA StrayAcceptedStep == ASSUME IInv, NEW m \in Item, StrayAccepted(m) PROVE IInv'
<1>1. m \in stray /\ stray' = stray \ {m} /\ copies' = [copies EXCEPT ![m] = @ + 1] /\ lastExt' = lastExt + 1
  BY DEF StrayAccepted, Accepted
<1>2. TypeOK'
  <2>1. copies' \in [Item -> Nat] /\ lastExt' \in Nat /\ stray' \subseteq Item
    BY <1>1 DEF IInv, TypeOK
  <2>2. QED
    BY <2>1 DEF IInv, TypeOK, StrayAccepted, dbVars, taskVars, histVars
<1>3. StatusAgreement' /\ QueueShape' /\ HeldRowsAreOpen'
  BY DEF IInv, StatusAgreement, Agree, QueueShape, HeldRowsAreOpen, Held, StrayAccepted,
     dbVars, rowVars, taskVars
<1>4. AttemptsCounted' /\ FailuresCounted'
  BY DEF IInv, AttemptsCounted, FailuresCounted, FailedForReal, One, StrayAccepted,
     dbVars, rowVars, taskVars, histVars
<1>5. CopiesCounted'
  <2> SUFFICES ASSUME NEW x \in Item
      PROVE copies'[x] + One(x \in stray')
              <= strikes'[x] + One((cur' = x /\ op' = "sent") \/ item'[x] = "sent")
    BY DEF CopiesCounted
  <2>1. copies[x] + One(x \in stray) <= strikes[x] + One((cur = x /\ op = "sent") \/ item[x] = "sent")
    BY DEF IInv, CopiesCounted
  <2>2. UNCHANGED <<strikes, cur, op, item>>
    BY DEF StrayAccepted, dbVars, taskVars, histVars
  <2>3. copies[x] \in Nat /\ strikes[x] \in Nat
    BY DEF IInv, TypeOK
  <2>4. copies'[x] + One(x \in stray') = copies[x] + One(x \in stray)
    <3>1. CASE x = m
      <4>1. copies'[x] = copies[x] + 1
        BY <3>1, <1>1 DEF IInv, TypeOK
      <4>2. x \in stray /\ x \notin stray'
        BY <3>1, <1>1
      <4>3. QED
        BY <4>1, <4>2, <2>3 DEF One
    <3>2. CASE x # m
      <4>1. copies'[x] = copies[x]
        BY <3>2, <1>1 DEF IInv, TypeOK
      <4>2. x \in stray' <=> x \in stray
        BY <3>2, <1>1
      <4>3. QED
        BY <4>1, <4>2 DEF One
    <3>3. QED
      BY <3>1, <3>2
  <2>5. QED
    BY <2>1, <2>2, <2>4
<1>6. RecordIsTrue' /\ SentWasAccepted'
  <2>1. UNCHANGED <<item, msg, ext, op, cur, got>>
    BY DEF StrayAccepted, dbVars, taskVars
  <2>2. /\ copies' \in [Item -> Nat] /\ lastExt \in Nat /\ lastExt' = lastExt + 1
        /\ \A x \in Item : copies'[x] >= copies[x]
    <3>1. lastExt \in Nat /\ copies \in [Item -> Nat] /\ \A x \in Item : copies[x] \in Nat
      BY DEF IInv, TypeOK
    <3>2. \A x \in Item : copies'[x] = IF x = m THEN copies[x] + 1 ELSE copies[x]
      BY <3>1, <1>1
    <3>3. \A x \in Item : copies'[x] >= copies[x] /\ copies'[x] \in Nat
      BY <3>1, <3>2
    <3>4. copies' \in [Item -> Nat]
      BY <3>1, <1>1
    <3>5. QED
      BY <3>1, <3>3, <3>4, <1>1
  <2>3. ASSUME NEW x \in Item, copies[x] > 0 PROVE copies'[x] > 0
    <3>1. copies[x] \in Nat /\ copies'[x] \in Nat /\ copies'[x] >= copies[x]
      BY <2>2 DEF IInv, TypeOK
    <3>2. QED
      BY <3>1, <2>3
  <2>4. \A i \in 1..lastExt : i \in 1..lastExt'
    BY <2>2
  <2>5. op = "sent" => cur \in Item
    BY CurIsItem
  <2>6. RecordIsTrue'
    BY <2>1, <2>3, <2>4, <2>5, <1>1 DEF IInv, RecordIsTrue
  <2>7. SentWasAccepted'
    BY <2>1, <2>3, <2>4 DEF IInv, SentWasAccepted
  <2>8. QED
    BY <2>6, <2>7
<1>7. GiveUpIsEarned'
  BY DEF IInv, GiveUpIsEarned, StrayAccepted, dbVars, rowVars, histVars
<1>8. QED
  BY <1>2, <1>3, <1>4, <1>5, <1>6, <1>7 DEF IInv

(* The row in hand leaves the due rows when its outcome is recorded.       *)
LEMMA RowLeavesQueue ==
  ASSUME IInv, op \in {"sent", "fail", "later", "burn"}, ready' = Without(ready, cur)
  PROVE  /\ cur \in Item /\ cur # NoItem
         /\ item[cur] \in Open /\ msg[cur] = "pending"
         /\ cur \notin Range(batch)
         /\ ready' \in Seq(Item)
         /\ IsInjective(ready')
         /\ Range(ready') = Range(ready) \ {cur}
<1>1. cur \in Item /\ cur \in Held /\ cur # NoItem
  BY CurIsItem DEF IInv, QueueShape, Held
<1>2. item[cur] \in Open /\ cur \notin Range(batch)
  BY <1>1 DEF IInv, HeldRowsAreOpen
<1>3. msg[cur] = "pending"
  BY <1>1, <1>2 DEF IInv, StatusAgreement, Agree
<1>4. ready \in Seq(Item) /\ IsInjective(ready)
  BY DEF IInv, TypeOK, QueueShape
<1>5. /\ ready' \in Seq(Item)
      /\ IsInjective(ready')
      /\ Range(ready') = Range(ready) \ {cur}
  BY <1>4, WithoutProperties
<1>6. QED
  BY <1>1, <1>2, <1>3, <1>5

(* What any of the three recording transactions does to the rows.          *)
Recorded ==
  \/ op = "sent" /\ SentRows(cur)
  \/ op = "fail" /\ FailedRows(cur)
  \/ op \in {"later", "burn"} /\ RescheduledRow(cur, op = "burn")

LEMMA RecordStep ==
  ASSUME IInv, Recorded,
         Done \/ (op = "sent" /\ op' = "hook" /\ cur' = cur /\ got' = 0 /\ outcome' = outcome),
         batch' \in {batch, <<>>},
         strikes' \in [Item -> Nat], faults' \in Nat,
         \A m \in Item : strikes'[m] >= strikes[m],
         UNCHANGED <<aged, crm, up, chanVars, failures>>
  PROVE  IInv'
<1>1. /\ cur \in Item /\ cur # NoItem
      /\ item[cur] \in Open /\ msg[cur] = "pending"
      /\ cur \notin Range(batch)
      /\ ready' \in Seq(Item)
      /\ IsInjective(ready')
      /\ Range(ready') = Range(ready) \ {cur}
  <2>1. ready' = Without(ready, cur) /\ op \in {"sent", "fail", "later", "burn"}
    BY DEF Recorded, SentRows, FailedRows, RescheduledRow
  <2>2. QED
    BY <2>1, RowLeavesQueue
<1>2. batch' \in Seq(Item) /\ IsInjective(batch') /\ Range(batch') \subseteq Range(batch)
  <2>1. <<>> \in Seq(Item) /\ IsInjective(<<>>) /\ Range(<<>>) = {}
    BY DEF IsInjective, Range
  <2>2. QED
    BY <2>1 DEF IInv, TypeOK, HeldRowsAreOpen
<1>3. \A m \in Item : m # cur => /\ item'[m] = item[m] /\ msg'[m] = msg[m] /\ ext'[m] = ext[m]
                                 /\ attempts'[m] = attempts[m] /\ lastError'[m] = lastError[m]
  BY <1>1 DEF IInv, TypeOK, Recorded, SentRows, FailedRows, RescheduledRow
<1>4. /\ op = "sent" => /\ item'[cur] = "sent" /\ msg'[cur] = "sent" /\ ext'[cur] = got
                        /\ attempts'[cur] = attempts[cur]
      /\ op = "fail" => /\ item'[cur] = "failed" /\ msg'[cur] = "error" /\ lastError'[cur] = outcome
                        /\ attempts'[cur] = attempts[cur]
      /\ op \in {"later", "burn"} => item'[cur] = "retrying" /\ msg'[cur] = "pending"
      /\ op = "later" => attempts'[cur] = attempts[cur]
      /\ op = "burn" => attempts'[cur] = attempts[cur] + 1
  BY <1>1 DEF IInv, TypeOK, Recorded, SentRows, FailedRows, RescheduledRow
<1>5. op \in {"sent", "fail", "later", "burn"} /\ op' \in {"idle", "hook"}
      /\ (op' = "hook" => op = "sent" /\ cur' = cur) /\ (op' = "idle" => cur' = NoItem)
  BY DEF Recorded, Done
<1>6. TypeOK'
  <2>1. /\ item' \in [Item -> Statuses] /\ msg' \in [Item -> {"none", "pending", "sent", "read", "error"}]
        /\ attempts' \in [Item -> Nat] /\ lastError' \in [Item -> Errors] /\ ext' \in [Item -> Nat]
    <3>1. CASE op = "sent" /\ SentRows(cur)
      BY <3>1, <1>1 DEF IInv, TypeOK, SentRows, Statuses
    <3>2. CASE op = "fail" /\ FailedRows(cur)
      BY <3>2, <1>1 DEF IInv, TypeOK, FailedRows, Statuses
    <3>3. CASE op \in {"later", "burn"} /\ RescheduledRow(cur, op = "burn")
      <4>1. /\ item' \in [Item -> Statuses] /\ lastError' \in [Item -> Errors]
            /\ msg' = msg /\ ext' = ext
        BY <3>3, <1>1 DEF IInv, TypeOK, RescheduledRow, Statuses
      <4>2. attempts' \in [Item -> Nat]
        <5>1. attempts' = [attempts EXCEPT ![cur] = IF op = "burn" THEN @ + 1 ELSE @]
          BY <3>3 DEF RescheduledRow
        <5>2. attempts \in [Item -> Nat]
          BY DEF IInv, TypeOK
        <5>3. CASE op = "burn"
          BY <5>1, <5>2, <5>3, <1>1
        <5>4. CASE op # "burn"
          BY <5>1, <5>2, <5>4, <1>1
        <5>5. QED
          BY <5>3, <5>4
      <4>3. QED
        BY <4>1, <4>2 DEF IInv, TypeOK
    <3>4. QED
      BY <3>1, <3>2, <3>3 DEF Recorded
  <2>2. cur' \in Item \union {NoItem} /\ op' \in Ops /\ outcome' \in Errors /\ got' \in Nat
    <3>1. CASE Done
      BY <3>1 DEF Done, Ops, Errors
    <3>2. CASE op' = "hook" /\ cur' = cur /\ got' = 0 /\ outcome' = outcome
      BY <3>2 DEF IInv, TypeOK, Ops
    <3>3. QED
      BY <3>1, <3>2
  <2>3. UNCHANGED <<copies, lastExt, stray, aged, crm, up, failures>>
    BY DEF chanVars
  <2>4. QED
    BY <1>1, <1>2, <2>1, <2>2, <2>3 DEF IInv, TypeOK
<1>7. StatusAgreement'
  <2> SUFFICES ASSUME NEW m \in Item PROVE Agree(m)'
    BY DEF StatusAgreement
  <2>1. CASE m = cur
    BY <2>1, <1>4, <1>5 DEF Agree, Open
  <2>2. CASE m # cur
    BY <2>2, <1>3 DEF IInv, StatusAgreement, Agree
  <2>3. QED
    BY <2>1, <2>2
<1>8. QueueShape'
  <2>1. \A m \in Range(ready') : m \in Item /\ m # cur /\ item[m] \in Open
    BY <1>1, RangeOfSeq DEF IInv, QueueShape, TypeOK
  <2>2. \A m \in Range(ready') : item'[m] \in Open
    BY <2>1, <1>3
  <2>3. QED
    BY <1>1, <1>5, <2>2 DEF QueueShape, Open
<1>9. HeldRowsAreOpen'
  <2>1. Held' = Range(batch')
    BY <1>5 DEF Held
  <2>2. ASSUME NEW m \in Range(batch') PROVE item'[m] \in Open /\ m \in Range(ready')
    <3>1. m \in Item /\ m # cur /\ m \in Held
      BY <1>1, <1>2, RangeOfSeq DEF IInv, TypeOK, Held
    <3>2. QED
      BY <3>1, <1>1, <1>3 DEF IInv, HeldRowsAreOpen
  <2>3. QED
    BY <1>1, <1>2, <1>5, <2>1, <2>2 DEF HeldRowsAreOpen, Open
<1>10. ~FailedForReal' /\ (FailedForReal => op \in {"burn", "fail"})
  BY <1>5 DEF FailedForReal
<1>11. AttemptsCounted'
  <2>1. ASSUME NEW m \in Item PROVE attempts'[m] <= failures'[m] /\ attempts'[m] < MaxAttempts
    <3>1. CASE m = cur
      BY <3>1, <1>1, <1>4, <1>5, OutboxAssumption DEF IInv, TypeOK, AttemptsCounted, FailedForReal
    <3>2. CASE m # cur
      BY <3>2, <1>3 DEF IInv, AttemptsCounted
    <3>3. QED
      BY <3>1, <3>2
  <2>2. QED
    BY <2>1, <1>5, <1>10 DEF AttemptsCounted
<1>12. FailuresCounted'
  <2> SUFFICES ASSUME NEW m \in Item
      PROVE failures'[m] <= attempts'[m] + strikes'[m] + One(item'[m] = "failed")
    BY <1>10 DEF FailuresCounted
  <2>1. /\ attempts[m] \in Nat /\ strikes[m] \in Nat /\ strikes'[m] \in Nat /\ strikes'[m] >= strikes[m]
        /\ failures[m] \in Nat /\ failures'[m] = failures[m]
    BY DEF IInv, TypeOK
  <2>2. failures[m] <= attempts[m] + strikes[m] + One((cur = m /\ FailedForReal) \/ item[m] = "failed")
    BY DEF IInv, FailuresCounted
  <2>3. CASE m = cur
    BY SMTT(30), <2>1, <2>2, <2>3, <1>1, <1>4, <1>5 DEF One, FailedForReal, Open
  <2>4. CASE m # cur
    BY <2>1, <2>2, <2>4, <1>3 DEF One
  <2>5. QED
    BY <2>3, <2>4
<1>13. CopiesCounted'
  <2> SUFFICES ASSUME NEW m \in Item
      PROVE copies[m] + One(m \in stray) <= strikes'[m] + One(item'[m] = "sent")
    BY <1>5 DEF CopiesCounted, chanVars
  <2>1. strikes[m] \in Nat /\ strikes'[m] \in Nat /\ strikes'[m] >= strikes[m] /\ copies[m] \in Nat
    BY DEF IInv, TypeOK
  <2>2. copies[m] + One(m \in stray) <= strikes[m] + One((cur = m /\ op = "sent") \/ item[m] = "sent")
    BY DEF IInv, CopiesCounted
  <2>3. CASE m = cur
    BY <2>1, <2>2, <2>3, <1>1, <1>4, <1>5 DEF One, Open
  <2>4. CASE m # cur
    BY <2>1, <2>2, <2>4, <1>3 DEF One
  <2>5. QED
    BY <2>3, <2>4
<1>14. RecordIsTrue'
  <2>1. \A m \in Item : item[m] # "absent" => item'[m] # "absent"
    BY <1>1, <1>3, <1>4, <1>5
  <2>2. op' = "hook" => item'[cur'] = "sent"
    BY <1>4, <1>5
  <2>3. stray' = stray /\ stray \subseteq Item
    BY DEF chanVars, IInv, TypeOK
  <2>4. QED
    BY <2>1, <2>2, <2>3, <1>5 DEF IInv, RecordIsTrue
<1>15. SentWasAccepted'
  <2>1. UNCHANGED <<copies, lastExt>>
    BY DEF chanVars
  <2>2. \A m \in Item : m # cur => (msg'[m] \in {"sent", "read"} => copies'[m] > 0 /\ ext'[m] \in 1..lastExt')
    BY <2>1, <1>3 DEF IInv, SentWasAccepted
  <2>3. msg'[cur] \in {"sent", "read"} => copies'[cur] > 0 /\ ext'[cur] \in 1..lastExt'
    BY <2>1, <1>4, <1>5 DEF IInv, RecordIsTrue
  <2>4. QED
    BY <2>2, <2>3 DEF SentWasAccepted
<1>16. GiveUpIsEarned'
  <2>1. \A m \in Item : m # cur => (item'[m] = "failed" /\ lastError'[m] = "error" => failures'[m] >= MaxAttempts)
    BY <1>3 DEF IInv, GiveUpIsEarned
  <2>2. item'[cur] = "failed" /\ lastError'[cur] = "error" => failures'[cur] >= MaxAttempts
    BY <1>1, <1>4, <1>5, OutboxAssumption DEF IInv, TypeOK, AttemptsCounted, FailedForReal
  <2>3. QED
    BY <2>1, <2>2 DEF GiveUpIsEarned
<1>17. QED
  BY <1>6, <1>7, <1>8, <1>9, <1>11, <1>12, <1>13, <1>14, <1>15, <1>16 DEF IInv

LEMMA MarkSentStep == ASSUME IInv, MarkSent PROVE IInv'
<1>1. strikes' = strikes /\ faults' = faults /\ failures' = failures /\ batch' = batch
  BY DEF MarkSent, histVars
<1>2. strikes' \in [Item -> Nat] /\ faults' \in Nat /\ \A m \in Item : strikes'[m] >= strikes[m]
  BY <1>1 DEF IInv, TypeOK
<1>3. QED
  BY <1>1, <1>2, RecordStep DEF MarkSent, Recorded

LEMMA MarkFailedStep == ASSUME IInv, MarkFailed PROVE IInv'
<1>1. strikes' = strikes /\ faults' = faults /\ failures' = failures /\ batch' = batch
  BY DEF MarkFailed, histVars
<1>2. strikes' \in [Item -> Nat] /\ faults' \in Nat /\ \A m \in Item : strikes'[m] >= strikes[m]
  BY <1>1 DEF IInv, TypeOK
<1>3. QED
  BY <1>1, <1>2, RecordStep DEF MarkFailed, Recorded

LEMMA RescheduleStep == ASSUME IInv, Reschedule PROVE IInv'
<1>1. strikes' = strikes /\ faults' = faults /\ failures' = failures /\ batch' = batch
  BY DEF Reschedule, histVars
<1>2. strikes' \in [Item -> Nat] /\ faults' \in Nat /\ \A m \in Item : strikes'[m] >= strikes[m]
  BY <1>1 DEF IInv, TypeOK
<1>3. QED
  BY <1>1, <1>2, RecordStep DEF Reschedule, Recorded

(* Steps that end the handling of the current row without a record; if it  *)
(* was within its window, it is struck.                                    *)
LEMMA DropStep ==
  ASSUME IInv, Done, UNCHANGED <<rowVars, copies, lastExt, failures>>,
         batch' \in {batch, <<>>},
         stray' = stray \/ (op = "send" /\ stray' = stray \union {cur}),
         strikes' \in [Item -> Nat], faults' \in Nat,
         \A m \in Item : strikes'[m] >= strikes[m],
         \A m \in Item \intersect InWindow : strikes'[m] = strikes[m] + 1,
         aged' \subseteq Item, crm' \subseteq Item, up' \subseteq Account
  PROVE  IInv'
<1>1. UNCHANGED <<item, attempts, lastError, ready, msg, ext, copies, lastExt, failures>>
  BY DEF rowVars
<1>2. op' = "idle" /\ cur' = NoItem /\ outcome' = "none" /\ got' = 0
  BY DEF Done
<1>3. batch' \in Seq(Item) /\ IsInjective(batch') /\ Range(batch') \subseteq Range(batch)
  <2>1. <<>> \in Seq(Item) /\ IsInjective(<<>>) /\ Range(<<>>) = {}
    BY DEF IsInjective, Range
  <2>2. QED
    BY <2>1 DEF IInv, TypeOK, HeldRowsAreOpen
<1>4. op = "send" => cur \in Item /\ item[cur] # "absent"
  BY CurIsItem DEF IInv, HeldRowsAreOpen, Held, Open
<1>5. stray' \subseteq Item
  BY <1>4 DEF IInv, TypeOK
<1>6. TypeOK'
  BY <1>1, <1>2, <1>3, <1>5 DEF IInv, TypeOK, Ops, Errors
<1>7. StatusAgreement' /\ QueueShape' /\ GiveUpIsEarned' /\ SentWasAccepted'
  BY <1>1, <1>2 DEF IInv, StatusAgreement, Agree, QueueShape, GiveUpIsEarned, SentWasAccepted
<1>8. HeldRowsAreOpen'
  BY <1>1, <1>2, <1>3 DEF IInv, HeldRowsAreOpen, Held
<1>9. AttemptsCounted'
  BY <1>1, <1>2 DEF IInv, AttemptsCounted, FailedForReal
<1>10. ASSUME NEW m \in Item
       PROVE  /\ strikes[m] \in Nat /\ strikes'[m] \in Nat /\ strikes'[m] >= strikes[m]
              /\ attempts[m] \in Nat /\ failures[m] \in Nat /\ copies[m] \in Nat
              /\ m \in InWindow => strikes'[m] = strikes[m] + 1
  BY DEF IInv, TypeOK
<1>11. FailuresCounted'
  <2> SUFFICES ASSUME NEW m \in Item
      PROVE failures[m] <= attempts[m] + strikes'[m] + One(item[m] = "failed")
    BY <1>1, <1>2 DEF FailuresCounted, FailedForReal
  <2>1. failures[m] <= attempts[m] + strikes[m] + One((cur = m /\ FailedForReal) \/ item[m] = "failed")
    BY DEF IInv, FailuresCounted
  <2>2. CASE cur = m /\ FailedForReal
    <3>1. strikes'[m] = strikes[m] + 1
      BY <2>2, <1>10 DEF InWindow, FailedForReal
    <3>2. QED
      BY <2>1, <3>1, <1>10 DEF One
  <2>3. CASE ~(cur = m /\ FailedForReal)
    BY <2>1, <2>3, <1>10 DEF One
  <2>4. QED
    BY <2>2, <2>3
<1>12. CopiesCounted'
  <2> SUFFICES ASSUME NEW m \in Item
      PROVE copies[m] + One(m \in stray') <= strikes'[m] + One(item[m] = "sent")
    BY <1>1, <1>2 DEF CopiesCounted
  <2>1. copies[m] + One(m \in stray) <= strikes[m] + One((cur = m /\ op = "sent") \/ item[m] = "sent")
    BY DEF IInv, CopiesCounted
  <2>2. CASE cur = m /\ op \in {"send", "sent"}
    <3>1. strikes'[m] = strikes[m] + 1
      BY <2>2, <1>10 DEF InWindow
    <3>2. CASE op = "send"
      BY <2>1, <2>2, <3>1, <3>2, <1>10 DEF One
    <3>3. CASE op = "sent"
      BY <2>1, <2>2, <3>1, <3>3, <1>10 DEF One
    <3>4. QED
      BY <2>2, <3>2, <3>3
  <2>3. CASE ~(cur = m /\ op \in {"send", "sent"})
    BY <2>1, <2>3, <1>10 DEF One
  <2>4. QED
    BY <2>2, <2>3
<1>13. RecordIsTrue'
  BY <1>1, <1>2, <1>4 DEF IInv, RecordIsTrue
<1>14. QED
  BY <1>6, <1>7, <1>8, <1>9, <1>11, <1>12, <1>13 DEF IInv

LEMMA DbErrorStep == ASSUME IInv, DbError PROVE IInv'
<1>1. /\ strikes' \in [Item -> Nat] /\ faults' \in Nat
      /\ \A m \in Item : strikes'[m] >= strikes[m]
      /\ \A m \in Item \intersect InWindow : strikes'[m] = strikes[m] + 1
  BY FaultAddsStrikes DEF IInv, DbError
<1>2. CASE UNCHANGED rowVars
  BY <1>1, <1>2, DropStep DEF IInv, TypeOK, DbError, chanVars
<1>3. CASE Recorded
  BY <1>1, <1>3, RecordStep DEF DbError
<1>4. QED
  BY <1>2, <1>3 DEF DbError, Recorded

LEMMA HookDoneStep == ASSUME IInv, HookDone PROVE IInv'
<1>1. UNCHANGED <<strikes, faults, batch, copies, lastExt, stray, failures, aged, up>>
  BY DEF HookDone, chanVars, histVars
<1>2. /\ strikes' \in [Item -> Nat] /\ faults' \in Nat
      /\ \A m \in Item : strikes'[m] >= strikes[m]
      /\ InWindow = {}
  BY <1>1 DEF IInv, TypeOK, HookDone, InWindow
<1>3. crm' \subseteq Item
  BY CurIsItem DEF IInv, TypeOK, HookDone
<1>4. QED
  BY <1>1, <1>2, <1>3, DropStep DEF IInv, TypeOK, HookDone

LEMMA HookFailsStep == ASSUME IInv, HookFails PROVE IInv'
<1>1. UNCHANGED <<batch, copies, lastExt, stray, failures, aged, crm, up, rowVars>>
  BY DEF HookFails, chanVars, dbVars, rowVars
<1>2. /\ strikes' \in [Item -> Nat] /\ faults' \in Nat
      /\ \A m \in Item : strikes'[m] >= strikes[m]
      /\ InWindow = {}
  BY FaultAddsStrikes DEF IInv, HookFails, InWindow
<1>3. QED
  BY <1>1, <1>2, DropStep DEF IInv, TypeOK, HookFails

LEMMA CrashStep == ASSUME IInv, Crash PROVE IInv'
<1>1. /\ strikes' \in [Item -> Nat] /\ faults' \in Nat
      /\ \A m \in Item : strikes'[m] >= strikes[m]
      /\ \A m \in Item \intersect InWindow : strikes'[m] = strikes[m] + 1
  BY FaultAddsStrikes DEF IInv, Crash
<1>2. UNCHANGED <<copies, lastExt, failures, aged, crm, rowVars>>
  BY DEF Crash, dbVars, rowVars
<1>3. QED
  BY <1>1, <1>2, DropStep DEF IInv, TypeOK, Crash

-----------------------------------------------------------------------------
(* The invariant holds initially, is preserved by every step, and implies  *)
(* the safety properties of the queue.                                     *)

LEMMA InitInvariant == Init => IInv
<1> SUFFICES ASSUME Init PROVE IInv
  OBVIOUS
<1>1. IsInjective(<<>>) /\ Range(<<>>) = {} /\ <<>> \in Seq(Item)
  BY DEF IsInjective, Range
<1>2. TypeOK
  BY <1>1 DEF Init, TypeOK, Statuses, Errors, Ops
<1>3. StatusAgreement /\ QueueShape /\ HeldRowsAreOpen
  BY <1>1 DEF Init, StatusAgreement, Agree, Open, QueueShape, HeldRowsAreOpen, Held
<1>4. AttemptsCounted /\ FailuresCounted /\ CopiesCounted
  BY OutboxAssumption DEF Init, AttemptsCounted, FailuresCounted, CopiesCounted, FailedForReal, One
<1>5. RecordIsTrue /\ SentWasAccepted /\ GiveUpIsEarned
  BY DEF Init, RecordIsTrue, SentWasAccepted, GiveUpIsEarned
<1>6. QED
  BY <1>2, <1>3, <1>4, <1>5 DEF IInv

LEMMA NextInvariant == IInv /\ [Next]_outboxVars => IInv'
<1> SUFFICES ASSUME IInv, [Next]_outboxVars PROVE IInv'
  OBVIOUS
<1>1. CASE \E m \in Item : Enqueue(m) \/ Wake(m) \/ StrayAccepted(m)
  BY <1>1, EnqueueStep, WakeStep, StrayAcceptedStep
<1>2. CASE \E a \in Account : AccountUp(a) \/ AccountDown(a)
  BY <1>2, AccountUpStep, AccountDownStep
<1>3. CASE DayPasses \/ Poll \/ Decide
  BY <1>3, DayPassesStep, PollStep, DecideStep
<1>4. CASE Answer
  BY <1>4, AnswerOkStep, AnswerFloodStep, AnswerErrorStep, AnswerLostStep DEF Answer
<1>5. CASE Record
  BY <1>5, MarkSentStep, MarkFailedStep, RescheduleStep DEF Record
<1>6. CASE DbError \/ HookDone \/ HookFails \/ Crash
  BY <1>6, DbErrorStep, HookDoneStep, HookFailsStep, CrashStep
<1>7. CASE UNCHANGED outboxVars
  BY <1>7, StutterStep
<1>8. QED
  BY <1>1, <1>2, <1>3, <1>4, <1>5, <1>6, <1>7 DEF Next

(* The inductive invariant of the outgoing queue: OutboxWorker, its        *)
(* repository and the channel, for any number of messages and accounts.    *)
THEOREM QueueInvariant == Spec => []IInv
<1>1. QED
  BY InitInvariant, NextInvariant, PTL DEF Spec

(* Every variable keeps its type in OutboxWorker's queue.                  *)
THEOREM TypeCorrect == Spec => []TypeOK
<1>1. IInv => TypeOK
  BY DEF IInv
<1>2. QED
  BY <1>1, QueueInvariant, PTL

(* mark_sent and mark_failed keep the outbox row and its Message agreed.   *)
THEOREM StatusesAgree == Spec => []StatusAgreement
<1>1. IInv => StatusAgreement
  BY DEF IInv
<1>2. QED
  BY <1>1, QueueInvariant, PTL

(* The snapshot of due rows that _process_once works through never holds   *)
(* a row that is already sent or given up.                                 *)
THEOREM SnapshotIsFresh == Spec => []HeldRowsAreOpen
<1>1. IInv => HeldRowsAreOpen
  BY DEF IInv
<1>2. QED
  BY <1>1, QueueInvariant, PTL

(* A message is shown as sent, with the channel's id, only if the channel  *)
(* accepted it.                                                            *)
THEOREM SentIsTrue == Spec => []SentWasAccepted
<1>1. IInv => SentWasAccepted
  BY DEF IInv
<1>2. QED
  BY <1>1, QueueInvariant, PTL

(* A message is given up as a send error only after MaxAttempts failures   *)
(* of real sends.                                                          *)
THEOREM GivingUpIsEarned == Spec => []GiveUpIsEarned
<1>1. IInv => GiveUpIsEarned
  BY DEF IInv
<1>2. QED
  BY <1>1, QueueInvariant, PTL

(* The number of failing sends of a message is at most MaxAttempts, plus   *)
(* one per fault in its window.                                            *)
THEOREM RetryBound == Spec => []RetriesBounded
<1>1. ASSUME IInv, NEW m \in Item PROVE failures[m] <= MaxAttempts + strikes[m]
  <2>1. /\ attempts[m] \in Nat /\ strikes[m] \in Nat /\ failures[m] \in Nat /\ MaxAttempts \in Nat
        /\ attempts[m] < MaxAttempts
    BY <1>1, OutboxAssumption DEF IInv, TypeOK, AttemptsCounted
  <2>2. failures[m] <= attempts[m] + strikes[m] + One((cur = m /\ FailedForReal) \/ item[m] = "failed")
    BY <1>1 DEF IInv, FailuresCounted
  <2>3. One((cur = m /\ FailedForReal) \/ item[m] = "failed") \in {0, 1}
    BY DEF One
  <2>4. QED
    BY <2>1, <2>2, <2>3
<1>2. IInv => RetriesBounded
  BY <1>1 DEF RetriesBounded
<1>3. QED
  BY <1>2, QueueInvariant, PTL

(* The client receives a copy beyond the recorded one only for a fault     *)
(* between the request and the record of its result.                       *)
THEOREM DuplicateBound == Spec => []DuplicatesAreAccounted
<1>1. ASSUME IInv, NEW m \in Item
      PROVE copies[m] <= strikes[m] + One(msg[m] \in {"sent", "read"} \/ (cur = m /\ op = "sent"))
  <2>1. strikes[m] \in Nat /\ copies[m] \in Nat
    BY <1>1 DEF IInv, TypeOK
  <2>2. copies[m] + One(m \in stray) <= strikes[m] + One((cur = m /\ op = "sent") \/ item[m] = "sent")
    BY <1>1 DEF IInv, CopiesCounted
  <2>3. item[m] = "sent" <=> msg[m] \in {"sent", "read"}
    BY <1>1 DEF IInv, StatusAgreement, Agree
  <2>4. QED
    BY <2>1, <2>2, <2>3 DEF One
<1>2. IInv => DuplicatesAreAccounted
  BY <1>1 DEF DuplicatesAreAccounted
<1>3. QED
  BY <1>2, QueueInvariant, PTL

-----------------------------------------------------------------------------
(* The queue implements Delivery.                                          *)

(* A fault strikes the message in its window, and no other.                *)
LEMMA FaultIsStrike ==
  ASSUME IInv, Fault(InWindow)
  PROVE  \/ InWindow = {} /\ strikes' = strikes
         \/ InWindow = {cur} /\ cur \in Item /\ msg[cur] = "pending"
            /\ strikes' = [strikes EXCEPT ![cur] = @ + 1]
<1>1. strikes \in [Item -> Nat]
  BY DEF IInv, TypeOK
<1>2. CASE InWindow = {}
  BY <1>1, <1>2 DEF Fault
<1>3. CASE InWindow # {}
  <2>1. InWindow = {cur} /\ op \in {"send", "sent", "burn", "fail"}
    BY <1>3 DEF InWindow
  <2>2. cur \in Item /\ cur \in Held
    BY <2>1, CurIsItem DEF Held
  <2>3. msg[cur] = "pending"
    BY <2>2 DEF IInv, HeldRowsAreOpen, StatusAgreement, Agree
  <2>4. strikes' = [strikes EXCEPT ![cur] = @ + 1]
    BY <1>1, <2>1, <2>2 DEF Fault
  <2>5. QED
    BY <2>1, <2>2, <2>3, <2>4
<1>4. QED
  BY <1>2, <1>3

(* A copy arrives only while copies do not exceed strikes.                 *)
LEMMA ArrivalIsPaid ==
  ASSUME IInv, NEW m \in Item, m \in stray \/ (op = "send" /\ m = cur)
  PROVE  copies[m] <= strikes[m] /\ msg[m] # "none"
<1>1. /\ copies[m] \in Nat /\ strikes[m] \in Nat
      /\ copies[m] + One(m \in stray) <= strikes[m] + One((cur = m /\ op = "sent") \/ item[m] = "sent")
  BY DEF IInv, TypeOK, CopiesCounted
<1>2. CASE m \in stray
  <2>1. msg[m] # "none"
    BY <1>2 DEF IInv, RecordIsTrue, StatusAgreement, Agree
  <2>2. QED
    BY <1>1, <1>2, <2>1 DEF One
<1>3. CASE op = "send" /\ m = cur
  <2>1. item[m] \in Open
    BY <1>3 DEF IInv, HeldRowsAreOpen, Held
  <2>2. msg[m] = "pending"
    BY <2>1 DEF IInv, StatusAgreement, Agree
  <2>3. QED
    BY <1>1, <1>3, <2>1, <2>2 DEF One, Open
<1>4. QED
  BY <1>2, <1>3

LEMMA InitImplements == Init => D!Init
BY DEF Init, D!Init

LEMMA StepImplements ==
  ASSUME IInv, [Next]_outboxVars
  PROVE  [D!Next]_(D!deliveryVars)
<1> DEFINE Same == UNCHANGED <<msg, copies, strikes>>
<1> SUFFICES D!Next \/ Same
  BY DEF D!deliveryVars
<1>1. CASE \E m \in Item : Enqueue(m)
  <2>1. PICK m \in Item : Enqueue(m)
    BY <1>1
  <2>2. D!Submit(m)
    BY <2>1 DEF IInv, StatusAgreement, Agree, Enqueue, D!Submit, chanVars, histVars
  <2>3. QED
    BY <2>2 DEF D!Next
<1>2. CASE \E m \in Item : Wake(m)
  BY <1>2 DEF Wake, chanVars, histVars
<1>3. CASE \E m \in Item : StrayAccepted(m)
  <2>1. PICK m \in Item : StrayAccepted(m)
    BY <1>3
  <2>2. D!Arrive(m)
    BY <2>1, ArrivalIsPaid DEF StrayAccepted, Accepted, D!Arrive, dbVars, histVars
  <2>3. QED
    BY <2>2 DEF D!Next
<1>4. CASE \E a \in Account : AccountUp(a) \/ AccountDown(a)
  BY <1>4 DEF AccountUp, AccountDown, dbVars, chanVars, histVars
<1>5. CASE DayPasses \/ Poll
  BY <1>5 DEF DayPasses, Poll, rowVars, dbVars, chanVars, histVars
<1>6. CASE Decide
  BY <1>6 DEF Decide, NoProvider, Throttled, BadAttachment, Send, Take, dbVars, chanVars, histVars
<1>7. CASE AnswerOk
  <2>1. cur \in Item
    BY <1>7, CurIsItem DEF AnswerOk
  <2>2. D!Arrive(cur)
    BY <1>7, <2>1, ArrivalIsPaid DEF AnswerOk, Accepted, D!Arrive, dbVars, histVars
  <2>3. QED
    BY <2>1, <2>2 DEF D!Next
<1>8. CASE AnswerFlood \/ AnswerError
  BY <1>8 DEF AnswerFlood, AnswerError, dbVars, chanVars, histVars
<1>9. CASE AnswerLost
  <2>1. InWindow = {cur}
    BY <1>9 DEF AnswerLost, InWindow
  <2>2. cur \in Item /\ msg[cur] = "pending" /\ strikes' = [strikes EXCEPT ![cur] = @ + 1]
    BY <1>9, <2>1, FaultIsStrike DEF AnswerLost
  <2>3. D!Strike(cur)
    BY <1>9, <2>2 DEF AnswerLost, D!Strike, dbVars
  <2>4. QED
    BY <2>2, <2>3 DEF D!Next
<1>10. CASE MarkSent
  <2>1. cur \in Item /\ msg[cur] = "pending" /\ copies[cur] > 0
    BY <1>10, CurIsItem DEF IInv, MarkSent, HeldRowsAreOpen, Held, StatusAgreement, Agree, RecordIsTrue
  <2>2. D!Confirm(cur)
    BY <1>10, <2>1 DEF MarkSent, SentRows, D!Confirm, chanVars, histVars
  <2>3. QED
    BY <2>1, <2>2 DEF D!Next
<1>11. CASE MarkFailed
  <2>1. cur \in Item /\ msg[cur] = "pending"
    BY <1>11, CurIsItem DEF IInv, MarkFailed, HeldRowsAreOpen, Held, StatusAgreement, Agree
  <2>2. D!GiveUp(cur)
    BY <1>11, <2>1 DEF MarkFailed, FailedRows, D!GiveUp, chanVars, histVars
  <2>3. QED
    BY <2>1, <2>2 DEF D!Next
<1>12. CASE Reschedule
  BY <1>12 DEF Reschedule, RescheduledRow, chanVars, histVars
<1>13. CASE DbError
  <2>1. Fault(InWindow) /\ copies' = copies
    BY <1>13 DEF DbError, chanVars
  <2>2. CASE msg' = msg
    <3>1. CASE strikes' = strikes
      BY <2>1, <2>2, <3>1
    <3>2. CASE cur \in Item /\ msg[cur] = "pending" /\ strikes' = [strikes EXCEPT ![cur] = @ + 1]
      BY <2>1, <2>2, <3>2 DEF D!Strike, D!Next
    <3>3. QED
      BY <2>1, <3>1, <3>2, FaultIsStrike
  <2>3. CASE op = "sent" /\ SentRows(cur)
    <3>1. InWindow = {cur}
      BY <2>3 DEF InWindow
    <3>2. cur \in Item /\ msg[cur] = "pending" /\ strikes' = [strikes EXCEPT ![cur] = @ + 1]
      BY <2>1, <3>1, FaultIsStrike
    <3>3. copies[cur] > 0
      BY <2>3 DEF IInv, RecordIsTrue
    <3>4. D!Strike(cur)
      BY <2>1, <2>3, <3>2, <3>3 DEF SentRows, D!Strike
    <3>5. QED
      BY <3>2, <3>4 DEF D!Next
  <2>4. CASE op = "fail" /\ FailedRows(cur)
    <3>1. cur \in Item /\ msg[cur] = "pending"
      BY <2>4, CurIsItem DEF IInv, HeldRowsAreOpen, Held, StatusAgreement, Agree
    <3>2. CASE strikes' = strikes
      BY <2>1, <2>4, <3>1, <3>2 DEF FailedRows, D!GiveUp, D!Next
    <3>3. CASE strikes' = [strikes EXCEPT ![cur] = @ + 1]
      <4>1. D!Strike(cur)
        BY <2>1, <2>4, <3>1, <3>3 DEF FailedRows, D!Strike
      <4>2. QED
        BY <3>1, <4>1 DEF D!Next
    <3>4. QED
      BY <2>1, <3>2, <3>3, FaultIsStrike
  <2>5. QED
    BY <1>13, <2>2, <2>3, <2>4 DEF DbError, rowVars, RescheduledRow
<1>14. CASE HookDone
  BY <1>14 DEF HookDone, rowVars, chanVars, histVars
<1>15. CASE HookFails
  <2>1. strikes' = strikes
    BY <1>15 DEF IInv, TypeOK, HookFails, Fault
  <2>2. QED
    BY <1>15, <2>1 DEF HookFails, dbVars, chanVars
<1>16. CASE Crash
  <2>1. Fault(InWindow) /\ copies' = copies /\ msg' = msg
    BY <1>16 DEF Crash, dbVars
  <2>2. CASE strikes' = strikes
    BY <2>1, <2>2
  <2>3. CASE cur \in Item /\ msg[cur] = "pending" /\ strikes' = [strikes EXCEPT ![cur] = @ + 1]
    BY <2>1, <2>3 DEF D!Strike, D!Next
  <2>4. QED
    BY <2>1, <2>2, <2>3, FaultIsStrike
<1>17. CASE UNCHANGED outboxVars
  BY <1>17 DEF outboxVars, dbVars, chanVars, histVars
<1>18. QED
  BY <1>1, <1>2, <1>3, <1>4, <1>5, <1>6, <1>7, <1>8, <1>9, <1>10, <1>11, <1>12, <1>13, <1>14,
     <1>15, <1>16, <1>17 DEF Next, Answer, Record

(* The queue, its worker and the channel keep the promise of Delivery for  *)
(* every message: at least once, each duplicate paid for by a fault, and   *)
(* no status that runs ahead of the channel or moves backwards.            *)
THEOREM ImplementsDelivery == Spec => DeliverySpec
<1>1. Init => D!Init
  BY InitImplements
<1>2. IInv /\ [Next]_outboxVars => [D!Next]_(D!deliveryVars)
  BY StepImplements
<1>3. QED
  BY <1>1, <1>2, QueueInvariant, PTL DEF Spec, DeliverySpec, D!Spec
-----------------------------------------------------------------------------
(* Sent messages without a CRM task.                                       *)

Missing == {m \in Item : msg[m] \in {"sent", "read"} /\ m \notin crm /\ ~(op = "hook" /\ cur = m)}

(* CrmTaskPerSent, and that the messages it counts can be counted: the set *)
(* of messages is not assumed to be finite.                                *)
MissingCounted == IsFiniteSet(Missing) /\ Cardinality(Missing) <= faults

LEMMA MissingShrinks ==
  ASSUME IInv, MissingCounted, Missing' \subseteq Missing, faults' \in Nat, faults' >= faults
  PROVE  MissingCounted'
<1>1. /\ IsFiniteSet(Missing') /\ Cardinality(Missing') <= Cardinality(Missing)
      /\ Cardinality(Missing) \in Nat /\ Cardinality(Missing') \in Nat
  BY FS_Subset, FS_CardinalityType DEF MissingCounted
<1>2. QED
  BY <1>1 DEF MissingCounted, IInv, TypeOK

(* A fault may cost one task.                                              *)
LEMMA MissingGrows ==
  ASSUME IInv, MissingCounted, NEW m, Missing' \subseteq Missing \union {m}, faults' = faults + 1
  PROVE  MissingCounted'
<1>1. /\ IsFiniteSet(Missing \union {m})
      /\ Cardinality(Missing \union {m}) <= Cardinality(Missing) + 1
      /\ Cardinality(Missing) \in Nat /\ Cardinality(Missing \union {m}) \in Nat
  <2>1. /\ IsFiniteSet(Missing \union {m})
        /\ Cardinality(Missing \union {m}) = IF m \in Missing THEN Cardinality(Missing)
                                             ELSE Cardinality(Missing) + 1
    BY FS_AddElement DEF MissingCounted
  <2>2. QED
    BY <2>1, FS_CardinalityType DEF MissingCounted
<1>2. /\ IsFiniteSet(Missing') /\ Cardinality(Missing') <= Cardinality(Missing \union {m})
      /\ Cardinality(Missing') \in Nat
  BY <1>1, FS_Subset, FS_CardinalityType
<1>3. QED
  BY <1>1, <1>2 DEF MissingCounted, IInv, TypeOK

LEMMA MissingStep == ASSUME IInv, MissingCounted, [Next]_outboxVars PROVE MissingCounted'
<1> USE DEF Missing
<1>1. faults \in Nat /\ msg \in [Item -> {"none", "pending", "sent", "read", "error"}]
  BY DEF IInv, TypeOK
<1>2. CASE \E m \in Item : Enqueue(m)
  <2>1. Missing' \subseteq Missing /\ faults' = faults
    BY <1>1, <1>2 DEF Enqueue, taskVars, histVars
  <2>2. QED
    BY <2>1, <1>1, MissingShrinks
<1>3. CASE \/ \E m \in Item : Wake(m) \/ StrayAccepted(m)
           \/ \E a \in Account : AccountUp(a) \/ AccountDown(a)
           \/ DayPasses \/ Poll \/ UNCHANGED outboxVars
  <2>1. UNCHANGED <<msg, crm, cur, op, faults>>
    BY <1>3 DEF Wake, StrayAccepted, AccountUp, AccountDown, DayPasses, Poll,
       outboxVars, dbVars, rowVars, taskVars, histVars
  <2>2. QED
    BY <2>1, <1>1, MissingShrinks
<1>4. CASE Decide \/ AnswerOk \/ AnswerFlood \/ AnswerError
  <2>1. UNCHANGED <<msg, crm, faults>> /\ op # "hook"
    BY <1>4 DEF Decide, NoProvider, Throttled, BadAttachment, Send, Take, AnswerOk, AnswerFlood,
       AnswerError, dbVars, histVars
  <2>2. QED
    BY <2>1, <1>1, MissingShrinks
<1>5. CASE AnswerLost
  <2>1. UNCHANGED <<msg, crm>> /\ op # "hook" /\ faults' = faults + 1
    BY <1>5 DEF AnswerLost, Fault, dbVars
  <2>2. QED
    BY <2>1, <1>1, MissingShrinks
<1>6. CASE MarkSent
  <2>1. UNCHANGED <<crm, cur, faults>> /\ op = "sent" /\ op' = "hook" /\ SentRows(cur)
    BY <1>6 DEF MarkSent, histVars
  <2>2. Missing' \subseteq Missing
    BY <1>1, <2>1 DEF SentRows
  <2>3. QED
    BY <2>1, <2>2, <1>1, MissingShrinks
<1>7. CASE MarkFailed \/ Reschedule
  <2>1. UNCHANGED <<crm, faults>> /\ op # "hook" /\ (FailedRows(cur) \/ RescheduledRow(cur, op = "burn"))
    BY <1>7 DEF MarkFailed, Reschedule, histVars
  <2>2. Missing' \subseteq Missing
    BY <1>1, <2>1 DEF FailedRows, RescheduledRow
  <2>3. QED
    BY <2>1, <2>2, <1>1, MissingShrinks
<1>8. CASE DbError
  <2>1. crm' = crm /\ faults' = faults + 1 /\ op # "hook"
    BY <1>8 DEF DbError, Fault
  <2>2. \A m \in Item \ {cur} : msg'[m] = msg[m] \/ msg'[m] = "error"
    BY <1>1, <1>8 DEF DbError, rowVars, SentRows, FailedRows, RescheduledRow
  <2>3. Missing' \subseteq Missing \union {cur}
    BY <2>1, <2>2
  <2>4. QED
    BY <2>1, <2>3, MissingGrows
<1>9. CASE HookDone
  <2>1. msg' = msg /\ faults' = faults /\ crm' = crm \union {cur}
    BY <1>9 DEF HookDone, rowVars, histVars
  <2>2. Missing' \subseteq Missing
    BY <2>1
  <2>3. QED
    BY <2>1, <2>2, <1>1, MissingShrinks
<1>10. CASE HookFails \/ Crash
  <2>1. msg' = msg /\ crm' = crm /\ faults' = faults + 1
    BY <1>10 DEF HookFails, Crash, Fault, dbVars
  <2>2. Missing' \subseteq Missing \union {cur}
    BY <2>1
  <2>3. QED
    BY <2>1, <2>2, MissingGrows
<1>11. QED
  BY <1>2, <1>3, <1>4, <1>5, <1>6, <1>7, <1>8, <1>9, <1>10 DEF Next, Answer, Record

(* Each sent message whose CRM task is missing for good was hit by a fault *)
(* of its own, between mark_sent and the hook or in the hook.              *)
THEOREM TasksAreAccounted == Spec => []CrmTaskPerSent
<1>1. Init => MissingCounted
  <2>1. ASSUME Init PROVE Missing = {} /\ faults = 0
    BY <2>1 DEF Init, Missing
  <2>2. QED
    BY <2>1, FS_EmptySet DEF MissingCounted
<1>2. IInv /\ MissingCounted /\ [Next]_outboxVars => MissingCounted'
  BY MissingStep
<1>3. MissingCounted => CrmTaskPerSent
  BY DEF MissingCounted, Missing, CrmTaskPerSent
<1>4. QED
  BY <1>1, <1>2, <1>3, QueueInvariant, PTL DEF Spec

-----------------------------------------------------------------------------
(* What a step of the queue can do to the rows a receipt looks at: nothing,*)
(* a row that is not sent changes its status, or the current row is        *)
(* recorded as sent.                                                       *)
RowsKept     == UNCHANGED <<msg, ext>>
RowsMoved    == /\ ext' = ext
                /\ \E m \in Item, s \in {"pending", "error"} :
                     msg[m] \in {"none", "pending"} /\ msg' = [msg EXCEPT ![m] = s]
RowsRecorded == /\ op = "sent"
                /\ msg' = [msg EXCEPT ![cur] = "sent"]
                /\ ext' = [ext EXCEPT ![cur] = got]

(* And to the result in hand: it is given up, or waits as it is.           *)
ResultKept == op' = "sent" => op = "sent" /\ UNCHANGED <<cur, got, ext>>

LEMMA QueueStepEffect ==
  ASSUME IInv, OtherStep \/ Crash \/ AccountDown(Line)
  PROVE  /\ RowsKept \/ RowsMoved \/ RowsRecorded
         /\ ResultKept
         /\ lastExt' = lastExt
<1>1. CASE \E m \in Item : Enqueue(m)
  <2>1. PICK m \in Item : Enqueue(m)
    BY <1>1
  <2>2. msg[m] = "none"
    BY <2>1 DEF IInv, StatusAgreement, Agree, Enqueue
  <2>3. RowsMoved
    BY <2>1, <2>2 DEF RowsMoved, Enqueue
  <2>4. QED
    BY <2>1, <2>3 DEF ResultKept, Enqueue, taskVars, chanVars
<1>2. CASE \E m \in Item : Wake(m)
  BY <1>2 DEF Wake, RowsKept, ResultKept, taskVars, chanVars
<1>3. CASE \E a \in Account : AccountUp(a) \/ AccountDown(a)
  BY <1>3 DEF AccountUp, AccountDown, RowsKept, ResultKept, dbVars, taskVars, chanVars
<1>4. CASE DayPasses \/ Poll
  BY <1>4 DEF DayPasses, Poll, RowsKept, ResultKept, rowVars, dbVars, taskVars, chanVars
<1>5. CASE Decide
  BY <1>5 DEF Decide, NoProvider, Throttled, BadAttachment, Send, Take, RowsKept, ResultKept,
     dbVars, chanVars
<1>6. CASE AnswerFlood
  BY <1>6 DEF AnswerFlood, RowsKept, ResultKept, dbVars, chanVars
<1>7. CASE AnswerError \/ AnswerLost
  BY <1>7 DEF AnswerError, AnswerLost, SawFailure, AfterFailure, RowsKept, ResultKept, dbVars, chanVars
<1>8. CASE MarkSent
  BY <1>8 DEF MarkSent, SentRows, RowsRecorded, ResultKept, chanVars
<1>9. CASE op = "fail" /\ FailedRows(cur) /\ op' = "idle" /\ lastExt' = lastExt
  <2>1. cur \in Item /\ msg[cur] = "pending"
    BY <1>9, CurIsItem DEF IInv, HeldRowsAreOpen, Held, StatusAgreement, Agree
  <2>2. QED
    BY <1>9, <2>1 DEF FailedRows, RowsMoved, ResultKept
<1>10. CASE MarkFailed
  BY <1>9, <1>10 DEF MarkFailed, Done, chanVars
<1>11. CASE Reschedule
  BY <1>11 DEF Reschedule, RescheduledRow, Done, RowsKept, ResultKept, chanVars
<1>12. CASE DbError
  <2>1. op' = "idle" /\ lastExt' = lastExt
    BY <1>12 DEF DbError, Done, chanVars
  <2>2. CASE UNCHANGED rowVars
    BY <2>1, <2>2 DEF RowsKept, ResultKept, rowVars
  <2>3. CASE op = "sent" /\ SentRows(cur)
    BY <2>1, <2>3 DEF SentRows, RowsRecorded, ResultKept
  <2>4. CASE op = "fail" /\ FailedRows(cur)
    BY <1>9, <2>1, <2>4
  <2>5. CASE op \in {"later", "burn"} /\ RescheduledRow(cur, op = "burn")
    BY <2>1, <2>5 DEF RescheduledRow, RowsKept, ResultKept
  <2>6. QED
    BY <1>12, <2>2, <2>3, <2>4, <2>5 DEF DbError
<1>13. CASE HookDone \/ HookFails
  BY <1>13 DEF HookDone, HookFails, Done, RowsKept, ResultKept, rowVars, dbVars, chanVars
<1>14. CASE Crash
  BY <1>14 DEF Crash, Done, RowsKept, ResultKept, dbVars
<1>15. QED
  BY <1>1, <1>2, <1>3, <1>4, <1>5, <1>6, <1>7, <1>8, <1>10, <1>11, <1>12, <1>13, <1>14,
     ReadMarkerAssumption DEF OtherStep, Record

(* Such a step keeps the invariant of the reader, whether the provider's   *)
(* memory survives it or not.                                              *)
LEMMA QueueStepKeeps ==
  ASSUME ReaderInv, IInv',
         RowsKept \/ RowsMoved \/ RowsRecorded, ResultKept, lastExt' = lastExt,
         UNCHANGED <<kind, seen, owner>>,
         UNCHANGED pumpVars \/ (known' = <<>> /\ receipts' = <<>> /\ marking' = {})
  PROVE  ReaderInv'
<1> USE DEF ById
<1>1. msg \in [Item -> {"none", "pending", "sent", "read", "error"}] /\ ext \in [Item -> Nat] /\ lastExt \in Nat
  BY DEF ReaderInv, IInv, TypeOK
<1>2. marking' \subseteq marking
  BY DEF pumpVars
<1>3. ReaderTypes'
  <2>1. CASE UNCHANGED pumpVars
    BY <2>1 DEF ReaderInv, ReaderTypes, pumpVars
  <2>2. CASE known' = <<>> /\ receipts' = <<>> /\ marking' = {}
    <3>1. known' \in Seq(1..lastExt) /\ receipts' \in Seq(Nat)
      BY <2>2
    <3>2. QED
      BY <2>2, <3>1 DEF ReaderInv, ReaderTypes
  <2>3. QED
    BY <2>1, <2>2
<1>4. ReceiptsSeen'
  BY DEF ReaderInv, ReceiptsSeen, pumpVars
<1>5. RowsRecorded => /\ cur \in Item /\ msg[cur] = "pending"
                      /\ got \in 1..lastExt /\ owner[got] = cur /\ \A m \in Item : ext[m] < got
                      /\ op' # "sent"
  <2>1. ASSUME RowsRecorded
        PROVE  cur \in Item /\ msg[cur] = "pending"
    BY <2>1, CurIsItem DEF RowsRecorded, ReaderInv, IInv, HeldRowsAreOpen, Held, StatusAgreement, Agree
  <2>2. ASSUME RowsRecorded
        PROVE  got \in 1..lastExt /\ owner[got] = cur /\ \A m \in Item : ext[m] < got
    BY <2>2 DEF RowsRecorded, ReaderInv, CopiesOwned
  <2>3. ASSUME RowsRecorded
        PROVE  op' # "sent"
    BY <1>1, <2>1, <2>2, <2>3 DEF RowsRecorded, ResultKept
  <2>4. QED
    BY <2>1, <2>2, <2>3
<1>6. \A m \in Item : msg'[m] = "read" <=> msg[m] = "read"
  BY <1>1, <1>5 DEF RowsKept, RowsMoved, RowsRecorded
<1>7. \A m \in Item : msg[m] = "sent" => msg'[m] = "sent"
  BY <1>1, <1>5 DEF RowsKept, RowsMoved, RowsRecorded
<1>8. \A m \in Item : msg[m] \in {"sent", "read"} => ext'[m] = ext[m]
  BY <1>1, <1>5 DEF RowsKept, RowsMoved, RowsRecorded
<1>9. ASSUME NEW k \in Item, msg'[k] = "sent", msg[k] # "sent"
      PROVE  \A m \in Item : msg[m] \in {"sent", "read"} => ext[m] < ext'[k]
  <2>1. RowsRecorded /\ k = cur
    BY <1>1, <1>5, <1>9 DEF RowsKept, RowsMoved, RowsRecorded
  <2>2. ext'[k] = got
    BY <1>1, <1>5, <2>1 DEF RowsRecorded
  <2>3. QED
    BY <1>5, <2>1, <2>2
<1>10. CopiesOwned'
  <2>1. ASSUME NEW m \in Item, ext'[m] # 0
        PROVE  ext'[m] \in 1..lastExt /\ owner[ext'[m]] = m
    <3>1. ext[m] # 0 => ext[m] \in 1..lastExt /\ owner[ext[m]] = m
      BY DEF ReaderInv, CopiesOwned
    <3>2. QED
      BY <1>1, <1>5, <2>1, <3>1 DEF RowsKept, RowsMoved, RowsRecorded
  <2>2. op' = "sent" => got' \in 1..lastExt' /\ owner'[got'] = cur' /\ \A m \in Item : ext'[m] < got'
    BY DEF ResultKept, ReaderInv, CopiesOwned
  <2>3. QED
    BY <2>1, <2>2 DEF CopiesOwned
<1>11. MarkingSeen'
  BY <1>2, <1>7, <1>8 DEF ReaderInv, MarkingSeen, ReaderTypes, InDialog
<1>12. ReadSeen'
  BY <1>6, <1>8 DEF ReaderInv, ReadSeen, InDialog
<1>13. MarkingPrefix'
  <2>1. ASSUME kind' = "cursor", NEW m \in marking', NEW k \in Item \ marking', msg'[k] = "sent", InDialog(k)
        PROVE  ext'[m] < ext'[k]
    <3>1. UNCHANGED pumpVars /\ m \in marking /\ m \in Item /\ k \notin marking
      BY <2>1 DEF pumpVars, ReaderInv, ReaderTypes
    <3>2. msg[m] = "sent" /\ ext'[m] = ext[m]
      BY <1>8, <3>1 DEF ReaderInv, MarkingSeen
    <3>3. CASE msg[k] = "sent"
      BY <1>8, <2>1, <3>1, <3>2, <3>3 DEF ReaderInv, MarkingPrefix
    <3>4. CASE msg[k] # "sent"
      BY <1>9, <2>1, <3>1, <3>2, <3>4
    <3>5. QED
      BY <3>3, <3>4
  <2>2. QED
    BY <2>1 DEF MarkingPrefix, InDialog
<1>14. ReadPrefix'
  <2>1. ASSUME kind' = "cursor", NEW m \in Item, NEW k \in Item,
               msg'[m] = "read", msg'[k] = "sent", InDialog(m), InDialog(k)
        PROVE  ext'[m] < ext'[k]
    <3>1. msg[m] = "read" /\ ext'[m] = ext[m]
      BY <1>6, <1>8, <2>1
    <3>2. CASE msg[k] = "sent"
      BY <1>8, <2>1, <3>1, <3>2 DEF ReaderInv, ReadPrefix
    <3>3. CASE msg[k] # "sent"
      BY <1>9, <2>1, <3>1, <3>3
    <3>4. QED
      BY <3>2, <3>3
  <2>2. QED
    BY <2>1 DEF ReadPrefix, InDialog
<1>15. QED
  BY <1>3, <1>4, <1>10, <1>11, <1>12, <1>13, <1>14 DEF ReaderInv

LEMMA OtherStepKeeps == ASSUME ReaderInv, OtherStep PROVE ReaderInv'
<1>1. [Next]_outboxVars
  BY ReadMarkerAssumption DEF OtherStep, Next, Answer
<1>2. IInv'
  BY <1>1, NextInvariant DEF ReaderInv
<1>3. UNCHANGED <<kind, seen, owner, pumpVars>>
  BY DEF OtherStep, readerVars
<1>4. QED
  BY <1>2, <1>3, QueueStepEffect, QueueStepKeeps DEF ReaderInv

LEMMA PumpGoneKeeps == ASSUME ReaderInv, PumpGone PROVE ReaderInv'
<1>1. IInv'
  BY CrashStep, AccountDownStep, ReadMarkerAssumption DEF PumpGone, ReaderInv
<1>2. UNCHANGED <<kind, seen, owner>> /\ known' = <<>> /\ receipts' = <<>> /\ marking' = {}
  BY DEF PumpGone, PumpEnds
<1>3. QED
  BY <1>1, <1>2, QueueStepEffect, QueueStepKeeps DEF ReaderInv, PumpGone

-----------------------------------------------------------------------------
LEMMA SeqWiden ==
  ASSUME NEW S, NEW T, S \subseteq T, NEW s \in Seq(S)
  PROVE  s \in Seq(T)
<1>1. s \in [1..Len(s) -> S] /\ Len(s) \in Nat
  OBVIOUS
<1>2. s \in [1..Len(s) -> T]
  BY <1>1
<1>3. QED
  BY <1>1, <1>2

(* A copy arrives at the client: the record of copies grows by one.        *)
LEMMA ArrivalKeeps ==
  ASSUME ReaderInv, NEW m \in Item,
         lastExt' = lastExt + 1, owner' = Append(owner, m),
         known' \in Seq(1..lastExt')
  PROVE  /\ owner' \in Seq(Item) /\ Len(owner') = lastExt' /\ lastExt \in Nat
         /\ \A i \in 1..lastExt : i \in 1..lastExt' /\ owner'[i] = owner[i]
         /\ owner'[lastExt + 1] = m /\ lastExt + 1 \in 1..lastExt'
<1>1. lastExt \in Nat /\ owner \in Seq(Item) /\ Len(owner) = lastExt
  BY DEF ReaderInv, IInv, TypeOK, ReaderTypes
<1>2. QED
  BY <1>1, AppendProperties

LEMMA SendAnsweredKeeps == ASSUME ReaderInv, SendAnswered PROVE ReaderInv'
<1>1. IInv' /\ cur \in Item
  BY AnswerOkStep, CurIsItem DEF SendAnswered, ReaderInv, AnswerOk
<1>2. /\ lastExt' = lastExt + 1 /\ got' = lastExt + 1 /\ owner' = Append(owner, cur)
      /\ UNCHANGED <<msg, ext, cur, kind, seen, receipts, marking>>
  BY DEF SendAnswered, AnswerOk, Accepted, dbVars
<1>3. lastExt \in Nat /\ known \in Seq(1..lastExt) /\ KnownMax \in Nat \ {0}
  BY ReadMarkerAssumption DEF ReaderInv, IInv, TypeOK, ReaderTypes
<1>4. known' \in Seq(1..lastExt')
  <2>1. known \in Seq(1..lastExt') /\ got' \in 1..lastExt'
    <3>1. 1..lastExt \subseteq 1..lastExt' /\ got' \in 1..lastExt'
      BY <1>2, <1>3
    <3>2. QED
      BY <1>3, <3>1, SeqWiden
  <2>2. CASE Len(known) < KnownMax
    BY <2>1, <2>2 DEF SendAnswered, Remember
  <2>3. CASE ~(Len(known) < KnownMax)
    <3>1. known # <<>>
      BY <1>3, <2>3
    <3>2. Tail(known) \in Seq(1..lastExt')
      BY <2>1, <3>1
    <3>3. QED
      BY <2>1, <2>3, <3>2 DEF SendAnswered, Remember
  <2>4. QED
    BY <2>2, <2>3
<1>5. /\ owner' \in Seq(Item) /\ Len(owner') = lastExt'
      /\ \A i \in 1..lastExt : i \in 1..lastExt' /\ owner'[i] = owner[i]
      /\ owner'[lastExt + 1] = cur /\ lastExt + 1 \in 1..lastExt'
  BY <1>1, <1>2, <1>4, ArrivalKeeps
<1>6. ReaderTypes'
  BY <1>2, <1>3, <1>4, <1>5 DEF ReaderInv, ReaderTypes
<1>7. CopiesOwned'
  <2>1. \A m \in Item : ext[m] \in 0..lastExt
    BY <1>3 DEF ReaderInv, IInv, TypeOK, CopiesOwned
  <2>2. \A m \in Item : ext'[m] < got'
    BY <1>2, <1>3, <2>1
  <2>3. QED
    BY <1>2, <1>5, <2>2 DEF ReaderInv, CopiesOwned
<1>8. ReceiptsSeen' /\ MarkingSeen' /\ ReadSeen' /\ MarkingPrefix' /\ ReadPrefix'
  BY <1>2 DEF ReaderInv, ReceiptsSeen, MarkingSeen, ReadSeen, MarkingPrefix, ReadPrefix, ById, InDialog
<1>9. QED
  BY <1>1, <1>6, <1>7, <1>8 DEF ReaderInv

LEMMA StrayArrivesKeeps == ASSUME ReaderInv, NEW m \in Item, StrayArrives(m) PROVE ReaderInv'
<1>1. IInv'
  BY StrayAcceptedStep DEF StrayArrives, ReaderInv
<1>2. /\ lastExt' = lastExt + 1 /\ owner' = Append(owner, m)
      /\ UNCHANGED <<msg, ext, op, cur, got, kind, seen, known, receipts, marking>>
  BY DEF StrayArrives, StrayAccepted, Accepted, dbVars, taskVars, pumpVars
<1>3. lastExt \in Nat /\ known \in Seq(1..lastExt)
  BY DEF ReaderInv, IInv, TypeOK, ReaderTypes
<1>4. known' \in Seq(1..lastExt')
  <2>1. 1..lastExt \subseteq 1..lastExt'
    BY <1>2, <1>3
  <2>2. QED
    BY <1>2, <1>3, <2>1, SeqWiden
<1>5. /\ owner' \in Seq(Item) /\ Len(owner') = lastExt'
      /\ \A i \in 1..lastExt : i \in 1..lastExt' /\ owner'[i] = owner[i]
  BY <1>2, <1>4, ArrivalKeeps
<1>6. ReaderTypes'
  BY <1>2, <1>3, <1>4, <1>5 DEF ReaderInv, ReaderTypes
<1>7. CopiesOwned'
  BY <1>2, <1>5 DEF ReaderInv, CopiesOwned
<1>8. ReceiptsSeen' /\ MarkingSeen' /\ ReadSeen' /\ MarkingPrefix' /\ ReadPrefix'
  BY <1>2 DEF ReaderInv, ReceiptsSeen, MarkingSeen, ReadSeen, MarkingPrefix, ReadPrefix, ById, InDialog
<1>9. QED
  BY <1>1, <1>6, <1>7, <1>8 DEF ReaderInv

-----------------------------------------------------------------------------
(* The client, and the pump that applies a receipt.                        *)

LEMMA ClientReadsKeeps == ASSUME ReaderInv, ClientReads PROVE ReaderInv'
<1> USE DEF ById
<1>1. IInv'
  BY StutterStep DEF ReaderInv, ClientReads
<1>2. /\ UNCHANGED <<msg, ext, op, cur, got, lastExt, kind, owner, known, marking>>
      /\ lastExt > 0 /\ seen' = lastExt
  BY DEF ClientReads, outboxVars, dbVars, taskVars, chanVars
<1>3. /\ lastExt \in Nat /\ seen \in 0..lastExt /\ known \in Seq(1..lastExt) /\ receipts \in Seq(Nat)
      /\ kind \in {"cursor", "chat", "exact"}
  BY ReadMarkerAssumption DEF ReaderInv, IInv, TypeOK, ReaderTypes
<1>4. PICK p \in Pushed : receipts' = IF Line \in up THEN receipts \o p ELSE receipts
  BY DEF ClientReads
<1>5. p \in Seq(Nat) /\ (kind # "chat" => \A k \in 1..Len(p) : p[k] \in 1..lastExt)
  <2>1. CASE kind = "cursor"
    <3>1. p = <<lastExt>>
      BY <1>4, <2>1 DEF Pushed
    <3>2. Len(p) = 1 /\ p[1] = lastExt /\ p \in Seq(Nat) /\ lastExt \in 1..lastExt
      BY <1>2, <1>3, <3>1
    <3>3. QED
      BY <3>2
  <2>2. CASE kind = "chat"
    <3>1. p = <<0>>
      BY <1>4, <2>2 DEF Pushed
    <3>2. QED
      BY <2>2, <3>1
  <2>3. CASE kind = "exact"
    <3>1. PICK k \in 0..Len(known) : p = SubSeq(known, k + 1, Len(known))
      BY <1>4, <2>3 DEF Pushed, NewlyRead
    <3>2. p \in Seq(1..lastExt)
      BY SMTT(30), <1>3, <3>1, SubSeqProperties
    <3>3. QED
      BY <1>3, <3>2
  <2>4. QED
    BY <1>3, <2>1, <2>2, <2>3
<1>6. receipts' \in Seq(Nat)
  BY <1>3, <1>4, <1>5
<1>7. ReceiptsSeen'
  <2>1. ASSUME kind # "chat", NEW k \in 1..Len(receipts') PROVE receipts'[k] \in 1..lastExt
    <3>1. \A j \in 1..Len(receipts) : receipts[j] \in 1..lastExt
      BY <1>3, <2>1 DEF ReaderInv, ReceiptsSeen
    <3>2. CASE Line \notin up
      BY <1>4, <2>1, <3>1, <3>2
    <3>3. CASE Line \in up
      <4>1. receipts' = receipts \o p /\ Len(receipts') = Len(receipts) + Len(p)
        BY SMTT(30), <1>3, <1>4, <1>5, <3>3
      <4>2. QED
        BY <1>3, <1>5, <2>1, <3>1, <4>1, ConcatProperties
    <3>4. QED
      BY <3>2, <3>3
  <2>2. QED
    BY <1>2, <2>1 DEF ReceiptsSeen
<1>8. ReaderTypes' /\ CopiesOwned'
  BY <1>2, <1>3, <1>6 DEF ReaderInv, ReaderTypes, CopiesOwned
<1>9. 1..seen \subseteq 1..seen'
  BY <1>2, <1>3
<1>10. MarkingSeen' /\ ReadSeen' /\ MarkingPrefix' /\ ReadPrefix'
  BY <1>2, <1>9 DEF ReaderInv, MarkingSeen, ReadSeen, MarkingPrefix, ReadPrefix, InDialog
<1>11. QED
  BY <1>1, <1>7, <1>8, <1>10 DEF ReaderInv

LEMMA SelectKeeps == ASSUME ReaderInv, Select PROVE ReaderInv'
<1> USE DEF ById
<1>1. IInv'
  BY StutterStep DEF ReaderInv, Select
<1>2. /\ UNCHANGED <<msg, ext, op, cur, got, lastExt, kind, seen, owner, known>>
      /\ receipts # <<>> /\ receipts' = Tail(receipts) /\ marking' = Readable(Head(receipts))
  BY DEF Select, outboxVars, dbVars, taskVars, chanVars
<1>3. /\ lastExt \in Nat /\ seen \in 0..lastExt /\ receipts \in Seq(Nat) /\ ext \in [Item -> Nat]
      /\ kind \in {"cursor", "chat", "exact"}
  BY ReadMarkerAssumption DEF ReaderInv, IInv, TypeOK, ReaderTypes
<1>4. receipts' \in Seq(Nat) /\ Head(receipts) \in Nat /\ Head(receipts) = receipts[1] /\ 1 \in 1..Len(receipts)
  BY <1>2, <1>3
<1>5. kind # "chat" => Head(receipts) \in 1..seen
  BY <1>4 DEF ReaderInv, ReceiptsSeen
<1>6. ReaderTypes' /\ CopiesOwned'
  BY <1>2, <1>4 DEF ReaderInv, ReaderTypes, CopiesOwned, Readable
<1>7. ReceiptsSeen'
  <2>1. \A k \in 1..Len(receipts') : k + 1 \in 1..Len(receipts) /\ receipts'[k] = receipts[k + 1]
    BY <1>2, <1>3, HeadTailProperties
  <2>2. QED
    BY <1>2, <2>1 DEF ReaderInv, ReceiptsSeen
<1>8. MarkingSeen'
  <2>1. ASSUME NEW m \in marking'
        PROVE  m \in Item /\ msg[m] = "sent" /\ InDialog(m) /\ Matches(m, Head(receipts))
    BY <1>2 DEF Readable
  <2>2. ASSUME NEW m \in marking', kind # "chat"
        PROVE  ext[m] \in 1..seen
    <3>1. Head(receipts) \in 1..seen /\ ext[m] \in Nat /\ Matches(m, Head(receipts))
      BY <1>3, <1>5, <2>1, <2>2
    <3>2. CASE kind = "cursor"
      BY <1>3, <3>1, <3>2 DEF Matches
    <3>3. CASE kind = "exact"
      BY <3>1, <3>3 DEF Matches
    <3>4. QED
      BY <1>3, <2>2, <3>2, <3>3
  <2>3. QED
    BY <1>2, <2>1, <2>2 DEF MarkingSeen, InDialog
<1>9. MarkingPrefix'
  <2>1. ASSUME kind = "cursor", NEW m \in marking', NEW k \in Item \ marking', msg[k] = "sent", InDialog(k)
        PROVE  ext[m] < ext[k]
    <3>1. ext[m] <= Head(receipts) /\ m \in Item
      BY <1>2, <2>1 DEF Readable, Matches
    <3>2. ext[k] # 0
      BY <1>3, <2>1 DEF ReaderInv, IInv, SentWasAccepted
    <3>3. ~(ext[k] <= Head(receipts))
      BY <1>2, <2>1, <3>2 DEF Readable, Matches
    <3>4. QED
      BY <1>3, <1>4, <3>1, <3>3
  <2>2. QED
    BY <1>2, <2>1 DEF MarkingPrefix, InDialog
<1>10. ReadSeen' /\ ReadPrefix'
  BY <1>2 DEF ReaderInv, ReadSeen, ReadPrefix, InDialog
<1>11. QED
  BY <1>1, <1>6, <1>7, <1>8, <1>9, <1>10 DEF ReaderInv

LEMMA UpdateKeeps == ASSUME ReaderInv, Update PROVE ReaderInv'
<1>1. /\ UNCHANGED <<item, attempts, lastError, ready, aged, ext, crm, up, batch, cur, op, outcome, got,
                    copies, lastExt, stray, failures, strikes, faults, kind, seen, owner, known, receipts>>
      /\ marking' = {}
      /\ msg' = [m \in Item |-> IF m \in marking THEN "read" ELSE msg[m]]
  BY DEF Update, taskVars, chanVars, histVars
<1>2. \A m \in marking : m \in Item /\ msg[m] = "sent"
  BY DEF ReaderInv, MarkingSeen, ReaderTypes
<1>3. TypeOK'
  BY <1>1 DEF ReaderInv, IInv, TypeOK
<1>4. StatusAgreement'
  <2>1. ASSUME NEW m \in Item PROVE Agree(m)'
    <3>1. Agree(m)
      BY DEF ReaderInv, IInv, StatusAgreement
    <3>2. QED
      BY <1>1, <1>2, <3>1 DEF Agree
  <2>2. QED
    BY <2>1 DEF StatusAgreement
<1>5. SentWasAccepted'
  BY <1>1, <1>2 DEF ReaderInv, IInv, SentWasAccepted
<1>6. QueueShape' /\ HeldRowsAreOpen'
  BY <1>1 DEF ReaderInv, IInv, QueueShape, HeldRowsAreOpen, Held
<1>7. AttemptsCounted' /\ FailuresCounted' /\ CopiesCounted' /\ RecordIsTrue' /\ GiveUpIsEarned'
  BY <1>1 DEF ReaderInv, IInv, AttemptsCounted, FailuresCounted, FailedForReal, CopiesCounted, One,
     RecordIsTrue, GiveUpIsEarned
<1>8. IInv'
  BY <1>3, <1>4, <1>5, <1>6, <1>7 DEF IInv
<1>9. ReaderTypes' /\ CopiesOwned' /\ ReceiptsSeen' /\ MarkingSeen' /\ MarkingPrefix'
  BY <1>1 DEF ReaderInv, ReaderTypes, CopiesOwned, ReceiptsSeen, MarkingSeen, MarkingPrefix, ById
<1>10. ReadSeen'
  BY <1>1 DEF ReaderInv, ReadSeen, MarkingSeen, ById, InDialog
<1>11. ReadPrefix'
  BY <1>1 DEF ReaderInv, ReadPrefix, MarkingPrefix, InDialog
<1>12. QED
  BY <1>8, <1>9, <1>10, <1>11 DEF ReaderInv

LEMMA UpdateFailsKeeps == ASSUME ReaderInv, UpdateFails PROVE ReaderInv'
<1>1. /\ UNCHANGED <<dbVars, up, taskVars, chanVars, failures, kind, seen, owner, known, receipts>>
      /\ marking' = {} /\ faults' = faults + 1
  BY DEF UpdateFails, Fault
<1>2. strikes' = strikes
  BY DEF UpdateFails, Fault, ReaderInv, IInv, TypeOK
<1>3. TypeOK'
  BY <1>1, <1>2 DEF ReaderInv, IInv, TypeOK, dbVars, taskVars, chanVars
<1>4. StatusAgreement' /\ QueueShape' /\ HeldRowsAreOpen'
  BY <1>1 DEF ReaderInv, IInv, StatusAgreement, Agree, QueueShape, HeldRowsAreOpen, Held, dbVars, taskVars
<1>5. AttemptsCounted' /\ FailuresCounted' /\ CopiesCounted'
  BY <1>1, <1>2 DEF ReaderInv, IInv, AttemptsCounted, FailuresCounted, FailedForReal, CopiesCounted, One,
     dbVars, taskVars, chanVars
<1>6. RecordIsTrue' /\ SentWasAccepted' /\ GiveUpIsEarned'
  BY <1>1 DEF ReaderInv, IInv, RecordIsTrue, SentWasAccepted, GiveUpIsEarned, dbVars, taskVars, chanVars
<1>7. IInv'
  BY <1>3, <1>4, <1>5, <1>6 DEF IInv
<1>8. ReaderTypes' /\ CopiesOwned' /\ ReceiptsSeen' /\ MarkingSeen' /\ ReadSeen' /\ MarkingPrefix' /\ ReadPrefix'
  BY <1>1 DEF ReaderInv, ReaderTypes, CopiesOwned, ReceiptsSeen, MarkingSeen, ReadSeen, MarkingPrefix,
     ReadPrefix, ById, InDialog, dbVars, taskVars, chanVars
<1>9. QED
  BY <1>7, <1>8 DEF ReaderInv

LEMMA ReaderInitInvariant == ReaderInit => ReaderInv
<1> SUFFICES ASSUME ReaderInit PROVE ReaderInv
  OBVIOUS
<1>1. IInv
  BY InitInvariant DEF ReaderInit
<1>2. ReaderTypes
  BY DEF ReaderInit, ReaderTypes, Init
<1>3. CopiesOwned /\ ReceiptsSeen /\ MarkingSeen /\ ReadSeen /\ MarkingPrefix /\ ReadPrefix
  BY DEF ReaderInit, Init, CopiesOwned, ReceiptsSeen, MarkingSeen, ReadSeen, MarkingPrefix, ReadPrefix
<1>4. QED
  BY <1>1, <1>2, <1>3 DEF ReaderInv

LEMMA ReaderNextInvariant == ReaderInv /\ [ReaderNext]_allVars => ReaderInv'
<1> SUFFICES ASSUME ReaderInv, [ReaderNext]_allVars PROVE ReaderInv'
  OBVIOUS
<1>1. CASE UNCHANGED allVars
  <2>1. IInv'
    BY <1>1, StutterStep DEF allVars, ReaderInv
  <2>2. RowsKept /\ ResultKept /\ lastExt' = lastExt /\ UNCHANGED <<kind, seen, owner, pumpVars>>
    BY <1>1 DEF allVars, readerVars, outboxVars, dbVars, taskVars, chanVars, RowsKept, ResultKept
  <2>3. QED
    BY <2>1, <2>2, QueueStepKeeps
<1>2. QED
  BY <1>1, SendAnsweredKeeps, PumpGoneKeeps, OtherStepKeeps, StrayArrivesKeeps, ClientReadsKeeps, SelectKeeps,
     UpdateKeeps, UpdateFailsKeeps DEF ReaderNext

(* The inductive invariant of the read receipts and of the queue below     *)
(* them: what read_marker.apply selects and updates, against what the      *)
(* client has seen.                                                        *)
THEOREM ReaderInvariant == ReaderSpec => []ReaderInv
<1>1. QED
  BY ReaderInitInvariant, ReaderNextInvariant, PTL DEF ReaderSpec

(* A cursor receipt reads a prefix of the dialog, however receipts and     *)
(* recordings interleave.                                                  *)
THEOREM CursorReadsPrefix == ReaderSpec => []ReadPrefix
<1>1. ReaderInv => ReadPrefix
  BY DEF ReaderInv
<1>2. QED
  BY <1>1, ReaderInvariant, PTL

(* Where receipts carry message ids (Telegram, WhatsApp) a message is      *)
(* marked read only when the client has seen a copy of it.                 *)
THEOREM ReadIsHonest ==
  ASSUME "chat" \notin Kinds
  PROVE  ReaderSpec => []HonestRead
<1>1. ASSUME ReaderInv, NEW m \in Item, msg[m] = "read" PROVE \E i \in 1..seen : owner[i] = m
  <2>1. ById
    BY <1>1 DEF ReaderInv, ReaderTypes, ById
  <2>2. ext[m] \in 1..seen
    BY <1>1, <2>1 DEF ReaderInv, ReadSeen
  <2>3. owner[ext[m]] = m
    BY <1>1, <2>2 DEF ReaderInv, CopiesOwned, IInv, TypeOK
  <2>4. QED
    BY <2>2, <2>3
<1>2. ReaderInv => HonestRead
  BY <1>1 DEF HonestRead
<1>3. QED
  BY <1>2, ReaderInvariant, PTL

-----------------------------------------------------------------------------
(* The queue with its read receipts still implements Delivery.             *)

LEMMA ReaderStepImplements ==
  ASSUME ReaderInv, [ReaderNext]_allVars
  PROVE  [D!Next]_(D!deliveryVars)
<1>1. CASE SendAnswered \/ PumpGone \/ OtherStep \/ \E m \in Item : StrayArrives(m)
  <2>1. [Next]_outboxVars
    BY <1>1, ReadMarkerAssumption DEF SendAnswered, PumpGone, OtherStep, StrayArrives, Next, Answer
  <2>2. QED
    BY <2>1, StepImplements DEF ReaderInv
<1>2. CASE ClientReads \/ Select \/ UNCHANGED allVars
  <2>1. UNCHANGED outboxVars
    BY <1>2 DEF ClientReads, Select, allVars
  <2>2. QED
    BY <2>1, StepImplements DEF ReaderInv
<1>3. CASE Update
  <2>1. marking \in SUBSET Item /\ \A m \in marking : msg[m] = "sent"
    BY DEF ReaderInv, ReaderTypes, MarkingSeen
  <2>2. D!Read(marking)
    BY <1>3, <2>1 DEF Update, D!Read, chanVars, histVars
  <2>3. QED
    BY <2>1, <2>2 DEF D!Next
<1>4. CASE UpdateFails
  <2>1. strikes' = strikes
    BY <1>4 DEF UpdateFails, Fault, ReaderInv, IInv, TypeOK
  <2>2. UNCHANGED D!deliveryVars
    BY <1>4, <2>1 DEF UpdateFails, D!deliveryVars, dbVars, chanVars
  <2>3. QED
    BY <2>2
<1>5. QED
  BY <1>1, <1>2, <1>3, <1>4 DEF ReaderNext

(* With read receipts a message still only moves forward, and is read only *)
(* after it was sent: read_marker.apply marks a row it selected as sent,   *)
(* whatever the worker does between its SELECT and its UPDATE.             *)
THEOREM ReaderImplementsDelivery == ReaderSpec => DeliverySpec
<1>1. ReaderInit => D!Init
  BY InitImplements DEF ReaderInit
<1>2. ReaderInv /\ [ReaderNext]_allVars => [D!Next]_(D!deliveryVars)
  BY ReaderStepImplements
<1>3. QED
  BY <1>1, <1>2, ReaderInvariant, PTL DEF ReaderSpec, DeliverySpec, D!Spec
=============================================================================
