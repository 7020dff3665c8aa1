------------------------------ MODULE GuardProofs ------------------------------
(***************************************************************************)
(* Proofs about what stands before the requests of the bridge: the         *)
(* throttler before the messages it sends, the token manager before its    *)
(* calls of the portal.  The two share no state; each theorem is about the *)
(* specification it names.                                                 *)
(***************************************************************************)
EXTENDS Throttler, TokenRefresh, SequenceTheorems, TLAPS

-----------------------------------------------------------------------------
(***************************************************************************)
(* Proofs about Throttler, for every limit, window and interval, without a *)
(* use of the bounds on the clock and on restarts.                         *)
(***************************************************************************)

LEMMA LessOrNext == ASSUME NEW a \in Nat, NEW b \in Nat, a <= b + 1 PROVE a <= b \/ a = b + 1
OBVIOUS

(* What pruning leaves is a suffix whose lost entries have expired.        *)
LEMMA RecentIsSuffix ==
  ASSUME NEW q \in Seq(Nat), NEW width \in Nat, NEW w \in Recent(q, width)
  PROVE  \E k \in 0..Len(q) :
           /\ w \in Seq(Nat) /\ Len(w) = Len(q) - k
           /\ \A i \in 1..(Len(q) - k) : w[i] = q[k + i]
           /\ \A i \in 1..k : q[i] + width < now
<1>1. PICK k \in 0..Len(q) : w = Suffix(q, k) /\ Stale(q, k, width)
  BY DEF Recent
<1>2. /\ w \in Seq(Nat) /\ Len(w) = Len(q) - k
      /\ \A i \in 1..(Len(q) - k) : w[i] = q[k + i]
  BY <1>1, SubSeqProperties DEF Suffix
<1>3. QED
  BY <1>1, <1>2 DEF Stale

(* Pruning a window that tracks its log leaves one that does.              *)
LEMMA PruneTracks ==
  ASSUME NEW q \in Seq(Nat), NEW log \in Seq(Nat), NEW born \in 0..Len(log),
         NEW limit \in Nat, NEW width \in Nat, now \in Nat,
         Tracks(q, log, born, limit, width), NEW w \in Recent(q, width)
  PROVE  w \in Seq(Nat) /\ Tracks(w, log, born, limit, width)
<1>1. PICK k \in 0..Len(q) :
        /\ w \in Seq(Nat) /\ Len(w) = Len(q) - k
        /\ \A i \in 1..(Len(q) - k) : w[i] = q[k + i]
        /\ \A i \in 1..k : q[i] + width < now
  BY RecentIsSuffix
<1>2. Len(q) \in Nat /\ Len(log) \in Nat /\ k \in Nat
  OBVIOUS
<1>3. Len(w) <= limit /\ Len(w) <= Len(log) - born
  BY <1>1, <1>2 DEF Tracks
<1>4. ASSUME NEW i \in 1..Len(w) PROVE w[i] = log[Len(log) - Len(w) + i]
  <2>1. k + i \in 1..Len(q) /\ w[i] = q[k + i]
    BY <1>1, <1>2
  <2>2. q[k + i] = log[Len(log) - Len(q) + (k + i)]
    BY <2>1 DEF Tracks
  <2>3. Len(log) - Len(q) + (k + i) = Len(log) - Len(w) + i
    BY <1>1, <1>2
  <2>4. QED
    BY <2>1, <2>2, <2>3
<1>5. ASSUME NEW i \in 1..Len(log), i > born, i <= Len(log) - Len(w)
      PROVE  log[i] + width < now
  <2>1. CASE i <= Len(log) - Len(q)
    BY <2>1, <1>5 DEF Tracks
  <2>2. CASE i > Len(log) - Len(q)
    <3> DEFINE j == i - (Len(log) - Len(q))
    <3>1. j \in 1..k /\ j \in 1..Len(q) /\ Len(log) - Len(q) + j = i
      BY <2>2, <1>1, <1>2, <1>5
    <3>2. q[j] = log[i]
      BY <3>1 DEF Tracks
    <3>3. QED
      BY <3>1, <3>2, <1>1
  <2>3. QED
    BY <2>1, <2>2, <1>2
<1>6. QED
  BY <1>1, <1>3, <1>4, <1>5 DEF Tracks

(* A grant at the present moment, into a window that is not full.          *)
LEMMA GrantKeeps ==
  ASSUME NEW w \in Seq(Nat), NEW log \in Seq(Nat), NEW born \in 0..Len(log),
         NEW limit \in Nat \ {0}, NEW width \in Nat, now \in Nat,
         Ordered(log), Tracks(w, log, born, limit, width), Spread(log, born, limit, width),
         Len(w) < limit
  PROVE  /\ Append(w, now) \in Seq(Nat) /\ Append(log, now) \in Seq(Nat)
         /\ born \in 0..Len(Append(log, now))
         /\ Ordered(Append(log, now))
         /\ Tracks(Append(w, now), Append(log, now), born, limit, width)
         /\ Spread(Append(log, now), born, limit, width)
<1> DEFINE w2 == Append(w, now)
           log2 == Append(log, now)
<1>1. /\ w2 \in Seq(Nat) /\ Len(w2) = Len(w) + 1 /\ w2[Len(w) + 1] = now
      /\ \A i \in 1..Len(w) : w2[i] = w[i]
  BY AppendProperties
<1>2. /\ log2 \in Seq(Nat) /\ Len(log2) = Len(log) + 1 /\ log2[Len(log) + 1] = now
      /\ \A i \in 1..Len(log) : log2[i] = log[i]
  BY AppendProperties
<1>3. Len(w) \in Nat /\ Len(log) \in Nat
  OBVIOUS
<1> HIDE DEF w2, log2
<1>4. Ordered(log2)
  <2>1. ASSUME NEW i \in 1..Len(log2) PROVE log2[i] <= now
    <3>1. CASE i \in 1..Len(log)
      BY <3>1, <1>2 DEF Ordered
    <3>2. CASE i = Len(log) + 1
      BY <3>2, <1>2
    <3>3. QED
      BY <3>1, <3>2, <1>2, <1>3
  <2>2. ASSUME NEW i \in 1..Len(log2), NEW j \in 1..Len(log2), i <= j PROVE log2[i] <= log2[j]
    <3>1. CASE j <= Len(log)
      <4>1. i \in 1..Len(log) /\ j \in 1..Len(log)
        BY <3>1, <2>2, <1>2, <1>3
      <4>2. log[i] <= log[j]
        BY <4>1, <2>2 DEF Ordered
      <4>3. QED
        BY <4>1, <4>2, <1>2
    <3>2. CASE j = Len(log) + 1
      BY <3>2, <2>1, <1>2
    <3>3. QED
      BY <3>1, <3>2, <1>2, <1>3
  <2>3. QED
    BY <2>1, <2>2 DEF Ordered
<1>5. Tracks(w2, log2, born, limit, width)
  <2>1. Len(w2) <= limit /\ Len(w2) <= Len(log2) - born
    BY SMTT(30), <1>1, <1>2, <1>3 DEF Tracks
  <2>2. ASSUME NEW i \in 1..Len(w2) PROVE w2[i] = log2[Len(log2) - Len(w2) + i]
    <3>1. CASE i <= Len(w)
      <4>1. i \in 1..Len(w) /\ Len(log) - Len(w) + i \in 1..Len(log)
        BY <3>1, <1>1, <1>3 DEF Tracks
      <4>2. Len(log2) - Len(w2) + i = Len(log) - Len(w) + i
        BY <1>1, <1>2, <1>3
      <4>3. w[i] = log[Len(log) - Len(w) + i]
        BY <4>1 DEF Tracks
      <4>4. QED
        BY <4>1, <4>2, <4>3, <1>1, <1>2
    <3>2. CASE i = Len(w) + 1
      BY <3>2, <1>1, <1>2, <1>3
    <3>3. QED
      BY <3>1, <3>2, <1>1, <1>3
  <2>3. ASSUME NEW i \in 1..Len(log2), i > born, i <= Len(log2) - Len(w2)
        PROVE  log2[i] + width < now
    <3>1. i \in 1..Len(log) /\ i <= Len(log) - Len(w)
      <4>1. Len(log2) - Len(w2) = Len(log) - Len(w) /\ Len(log) - Len(w) <= Len(log)
        BY <1>1, <1>2, <1>3
      <4>2. i \in Nat /\ i >= 1 /\ i <= Len(log) - Len(w)
        BY <4>1, <2>3
      <4>3. i <= Len(log)
        BY <4>1, <4>2, <1>3
      <4>4. QED
        BY <4>2, <4>3, <1>3
    <3>2. QED
      BY <3>1, <2>3, <1>2 DEF Tracks
  <2>4. QED
    BY <2>1, <2>2, <2>3 DEF Tracks
<1>6. Spread(log2, born, limit, width)
  <2> SUFFICES ASSUME NEW i \in 1..Len(log2), i > born, i + limit <= Len(log2)
               PROVE  log2[i] + width < log2[i + limit]
    BY DEF Spread
  <2>1. CASE i + limit <= Len(log)
    <3>1. i \in 1..Len(log) /\ i + limit \in 1..Len(log)
      BY <2>1, <1>2, <1>3
    <3>2. log[i] + width < log[i + limit]
      BY <2>1, <3>1 DEF Spread
    <3>3. QED
      BY <3>1, <3>2, <1>2
  <2>2. CASE i + limit = Len(log) + 1
    <3>1. i \in 1..Len(log) /\ i <= Len(log) - Len(w)
      BY <2>2, <1>3
    <3>2. log[i] + width < now
      BY <3>1 DEF Tracks
    <3>3. QED
      BY <2>2, <3>1, <3>2, <1>2
  <2>3. i + limit <= Len(log) \/ i + limit = Len(log) + 1
    <3>1. i \in Nat /\ limit \in Nat /\ i + limit <= Len(log) + 1
      BY <1>2, <1>3
    <3>2. i + limit \in Nat
      BY <3>1
    <3>3. QED
      BY <3>1, <3>2, <1>3, LessOrNext
  <2>4. QED
    BY <2>1, <2>2, <2>3
<1>7. born \in 0..Len(log2)
  BY <1>2, <1>3
<1>8. QED
  BY <1>1, <1>2, <1>4, <1>5, <1>6, <1>7 DEF w2, log2

-----------------------------------------------------------------------------
(* Each step preserves the invariant.                                      *)

LEMMA TickStep == ASSUME IInv, Tick PROVE IInv'
<1>1. now \in Nat /\ now' = now + 1
      /\ UNCHANGED <<replies, inits, replyLog, initLog, replyBorn, initBorn, restarts>>
  BY DEF IInv, TypeOK, Tick
<1>2. TypeOK'
  BY <1>1 DEF IInv, TypeOK, Tick, Answers
<1>3. ASSUME NEW log \in Seq(Nat), Ordered(log)
      PROVE  /\ \A i \in 1..Len(log) : log[i] <= now'
             /\ \A i, j \in 1..Len(log) : i <= j => log[i] <= log[j]
  BY <1>1, <1>3 DEF Ordered
<1>4. ASSUME NEW q, NEW log \in Seq(Nat), NEW born, NEW limit, NEW width \in Nat,
             Tracks(q, log, born, limit, width)
      PROVE  \A i \in 1..Len(log) : i > born /\ i <= Len(log) - Len(q) => log[i] + width < now'
  <2> SUFFICES ASSUME NEW i \in 1..Len(log), i > born, i <= Len(log) - Len(q) PROVE log[i] + width < now'
    OBVIOUS
  <2>1. log[i] + width < now /\ log[i] + width \in Nat
    BY <1>4 DEF Tracks
  <2>2. QED
    BY <2>1, <1>1
<1>5. Ordered(replyLog)' /\ Ordered(initLog)'
  BY <1>1, <1>3 DEF IInv, TypeOK, Ordered
<1>6. Tracks(replies, replyLog, replyBorn, ReplyLimit, ReplyWindow)'
  <2>1. Tracks(replies, replyLog, replyBorn, ReplyLimit, ReplyWindow)
    BY DEF IInv
  <2>2. \A i \in 1..Len(replyLog) :
          i > replyBorn /\ i <= Len(replyLog) - Len(replies) => replyLog[i] + ReplyWindow < now'
    BY <2>1, <1>4, ThrottlerAssumption DEF IInv, TypeOK
  <2>3. QED
    BY <2>1, <2>2, <1>1 DEF Tracks
<1>7. Tracks(inits, initLog, initBorn, InitMax, InitWindow)'
  <2>1. Tracks(inits, initLog, initBorn, InitMax, InitWindow)
    BY DEF IInv
  <2>2. \A i \in 1..Len(initLog) :
          i > initBorn /\ i <= Len(initLog) - Len(inits) => initLog[i] + InitWindow < now'
    BY <2>1, <1>4, ThrottlerAssumption DEF IInv, TypeOK
  <2>3. QED
    BY <2>1, <2>2, <1>1 DEF Tracks
<1>8. ReplyRate' /\ InitRate' /\ InitSpacing' /\ LatestKept'
  BY <1>1 DEF IInv, ReplyRate, InitRate, InitSpacing, LatestKept, Spread
<1>9. QED
  BY <1>2, <1>5, <1>6, <1>7, <1>8 DEF IInv

(* The half of the invariant about one policy, for steps of the other.     *)
LEMMA RepliesUntouched ==
  ASSUME IInv, UNCHANGED <<now, replies, replyLog, replyBorn>>
  PROVE  /\ Ordered(replyLog)' /\ ReplyRate'
         /\ Tracks(replies, replyLog, replyBorn, ReplyLimit, ReplyWindow)'
BY DEF IInv, Ordered, ReplyRate, Spread, Tracks

LEMMA InitsUntouched ==
  ASSUME IInv, UNCHANGED <<now, inits, initLog, initBorn>>
  PROVE  /\ Ordered(initLog)' /\ InitRate' /\ InitSpacing' /\ LatestKept'
         /\ Tracks(inits, initLog, initBorn, InitMax, InitWindow)'
BY DEF IInv, Ordered, InitRate, InitSpacing, LatestKept, Spread, Tracks

LEMMA RefuseReplyStep == ASSUME IInv, RefuseReply PROVE IInv'
<1>1. UNCHANGED <<now, inits, replyLog, initLog, replyBorn, initBorn, restarts>>
  BY DEF RefuseReply
<1>2. replies' \in Seq(Nat) /\ Tracks(replies', replyLog, replyBorn, ReplyLimit, ReplyWindow)
  BY PruneTracks, ThrottlerAssumption DEF IInv, TypeOK, RefuseReply
<1>3. TypeOK'
  BY <1>1, <1>2 DEF IInv, TypeOK, RefuseReply, Answers
<1>4. Tracks(replies, replyLog, replyBorn, ReplyLimit, ReplyWindow)'
  BY <1>1, <1>2 DEF Tracks
<1>5. Ordered(replyLog)' /\ ReplyRate'
  BY <1>1 DEF IInv, Ordered, ReplyRate, Spread
<1>6. QED
  BY <1>1, <1>3, <1>4, <1>5, InitsUntouched DEF IInv

LEMMA GrantReplyStep == ASSUME IInv, GrantReply PROVE IInv'
<1>1. /\ UNCHANGED <<now, inits, initLog, replyBorn, initBorn, restarts>>
      /\ replyLog' = Append(replyLog, now) /\ answer' = "reply"
  BY DEF GrantReply
<1>2. PICK w \in Recent(replies, ReplyWindow) : Len(w) < ReplyLimit /\ replies' = Append(w, now)
  BY DEF GrantReply
<1>3. w \in Seq(Nat) /\ Tracks(w, replyLog, replyBorn, ReplyLimit, ReplyWindow)
  BY PruneTracks, ThrottlerAssumption DEF IInv, TypeOK
<1>4. /\ replies' \in Seq(Nat) /\ replyLog' \in Seq(Nat) /\ replyBorn \in 0..Len(replyLog')
      /\ Ordered(replyLog')
      /\ Tracks(replies', replyLog', replyBorn, ReplyLimit, ReplyWindow)
      /\ Spread(replyLog', replyBorn, ReplyLimit, ReplyWindow)
  BY <1>1, <1>2, <1>3, GrantKeeps, ThrottlerAssumption DEF IInv, TypeOK, ReplyRate
<1>5. TypeOK'
  BY <1>1, <1>4 DEF IInv, TypeOK, Answers
<1>6. Ordered(replyLog)' /\ ReplyRate' /\ Tracks(replies, replyLog, replyBorn, ReplyLimit, ReplyWindow)'
  BY <1>1, <1>4 DEF Ordered, ReplyRate, Spread, Tracks
<1>7. QED
  BY <1>1, <1>5, <1>6, InitsUntouched DEF IInv

LEMMA RefuseInitStep == ASSUME IInv, RefuseInit PROVE IInv'
<1>1. UNCHANGED <<now, replies, replyLog, initLog, replyBorn, initBorn, restarts>>
  BY DEF RefuseInit
<1>2. /\ inits' \in Seq(Nat) /\ Tracks(inits', initLog, initBorn, InitMax, InitWindow)
      /\ inits # <<>> => inits' # <<>>
  <2>1. CASE inits' = inits
    BY <2>1 DEF IInv, TypeOK
  <2>2. CASE \E w \in Recent(inits, InitWindow) : Len(w) >= InitMax /\ inits' = w
    <3>1. inits' \in Seq(Nat) /\ Tracks(inits', initLog, initBorn, InitMax, InitWindow)
      BY <2>2, PruneTracks, ThrottlerAssumption DEF IInv, TypeOK
    <3>2. inits' # <<>>
      BY <2>2, <3>1, ThrottlerAssumption
    <3>3. QED
      BY <3>1, <3>2
  <2>3. QED
    BY <2>1, <2>2 DEF RefuseInit
<1>3. TypeOK'
  BY <1>1, <1>2 DEF IInv, TypeOK, RefuseInit, Answers
<1>4. Tracks(inits, initLog, initBorn, InitMax, InitWindow)'
  BY <1>1, <1>2 DEF Tracks
<1>5. Ordered(initLog)' /\ InitRate' /\ InitSpacing' /\ LatestKept'
  BY <1>1, <1>2 DEF IInv, Ordered, InitRate, InitSpacing, LatestKept, Spread
<1>6. QED
  BY <1>1, <1>3, <1>4, <1>5, RepliesUntouched DEF IInv

LEMMA GrantInitStep == ASSUME IInv, GrantInit PROVE IInv'
<1>1. /\ UNCHANGED <<now, replies, replyLog, replyBorn, initBorn, restarts>>
      /\ initLog' = Append(initLog, now) /\ answer' = "init" /\ ~TooSoon
  BY DEF GrantInit
<1>2. PICK w \in Recent(inits, InitWindow) : Len(w) < InitMax /\ inits' = Append(w, now)
  BY DEF GrantInit
<1>3. w \in Seq(Nat) /\ Tracks(w, initLog, initBorn, InitMax, InitWindow)
  BY PruneTracks, ThrottlerAssumption DEF IInv, TypeOK
<1>4. /\ inits' \in Seq(Nat) /\ initLog' \in Seq(Nat) /\ initBorn \in 0..Len(initLog')
      /\ Ordered(initLog')
      /\ Tracks(inits', initLog', initBorn, InitMax, InitWindow)
      /\ Spread(initLog', initBorn, InitMax, InitWindow)
  BY <1>1, <1>2, <1>3, GrantKeeps, ThrottlerAssumption DEF IInv, TypeOK, InitRate
<1>5. /\ Len(initLog') = Len(initLog) + 1 /\ initLog'[Len(initLog) + 1] = now
      /\ \A i \in 1..Len(initLog) : initLog'[i] = initLog[i]
      /\ Len(initLog) \in Nat /\ now \in Nat /\ initBorn \in Nat
  BY <1>1, AppendProperties DEF IInv, TypeOK
<1>6. TypeOK'
  BY <1>1, <1>4 DEF IInv, TypeOK, Answers
<1>7. Ordered(initLog)' /\ InitRate' /\ Tracks(inits, initLog, initBorn, InitMax, InitWindow)'
  BY <1>1, <1>4 DEF Ordered, InitRate, Spread, Tracks
<1>8. LatestKept'
  <2>1. inits' # <<>>
    BY <1>2, <1>3, <1>5, AppendProperties
  <2>2. QED
    BY <2>1 DEF LatestKept
<1>9. InitSpacing'
  <2> SUFFICES ASSUME NEW i \in 1..Len(initLog'), i > initBorn, i < Len(initLog')
               PROVE  initLog'[i] + InitMinInterval <= initLog'[i + 1]
    BY <1>1 DEF InitSpacing
  <2>1. i \in 1..Len(initLog)
    BY <1>5
  <2>2. CASE i < Len(initLog)
    <3>1. initLog[i] + InitMinInterval <= initLog[i + 1] /\ i + 1 \in 1..Len(initLog)
      BY <2>1, <2>2 DEF IInv, InitSpacing
    <3>2. QED
      BY <3>1, <2>1, <1>5
  <2>3. CASE i = Len(initLog)
    <3>1. inits # <<>> /\ inits \in Seq(Nat)
      BY <2>3 DEF IInv, TypeOK, LatestKept
    <3>2. Len(inits) \in 1..Len(inits) /\ Len(inits) \in Nat
      BY <3>1, EmptySeq
    <3>3. inits[Len(inits)] = initLog[Len(initLog) - Len(inits) + Len(inits)]
      BY <3>2 DEF IInv, Tracks
    <3>4. inits[Len(inits)] = initLog[i] /\ inits[Len(inits)] \in Nat
      BY <3>1, <3>2, <3>3, <2>3, <1>5
    <3>5. inits[Len(inits)] + InitMinInterval <= now
      BY <3>1, <3>4, <1>1, <1>5, ThrottlerAssumption DEF TooSoon
    <3>6. QED
      BY <3>4, <3>5, <2>1, <2>3, <1>5
  <2>4. QED
    BY <2>1, <2>2, <2>3, <1>5
<1>10. QED
  BY <1>1, <1>6, <1>7, <1>8, <1>9, RepliesUntouched DEF IInv

LEMMA RestartStep == ASSUME IInv, Restart PROVE IInv'
<1>1. /\ UNCHANGED <<now, replyLog, initLog>>
      /\ replies' = <<>> /\ inits' = <<>> /\ answer' = "none" /\ restarts' = restarts + 1
      /\ replyBorn' = Len(replyLog) /\ initBorn' = Len(initLog)
  BY DEF Restart
<1>2. Len(<<>>) = 0 /\ <<>> \in Seq(Nat) /\ Len(replyLog) \in Nat /\ Len(initLog) \in Nat
  BY DEF IInv, TypeOK
<1>3. TypeOK'
  BY <1>1, <1>2 DEF IInv, TypeOK, Answers
<1>4. Ordered(replyLog)' /\ Ordered(initLog)'
  BY <1>1 DEF IInv, Ordered
<1>5. \A i \in 1..Len(replyLog) : ~(i > Len(replyLog))
  BY <1>2
<1>6. \A i \in 1..Len(initLog) : ~(i > Len(initLog))
  BY <1>2
<1>7. Tracks(replies, replyLog, replyBorn, ReplyLimit, ReplyWindow)' /\ ReplyRate'
  BY <1>1, <1>2, <1>5, ThrottlerAssumption DEF Tracks, ReplyRate, Spread
<1>8. Tracks(inits, initLog, initBorn, InitMax, InitWindow)' /\ InitRate' /\ InitSpacing'
  BY <1>1, <1>2, <1>6, ThrottlerAssumption DEF Tracks, InitRate, InitSpacing, Spread
<1>9. LatestKept'
  BY <1>1, <1>2 DEF LatestKept
<1>10. QED
  BY <1>3, <1>4, <1>7, <1>8, <1>9 DEF IInv

LEMMA InitInvariant == Init => IInv
<1> SUFFICES ASSUME Init PROVE IInv
  OBVIOUS
<1>1. Len(<<>>) = 0 /\ <<>> \in Seq(Nat) /\ 1..0 = {}
  OBVIOUS
<1>2. TypeOK
  BY <1>1 DEF Init, TypeOK, Answers
<1>3. QED
  BY <1>1, <1>2, ThrottlerAssumption
     DEF Init, IInv, Ordered, Tracks, ReplyRate, InitRate, InitSpacing, LatestKept, Spread

LEMMA NextInvariant == IInv /\ [Next]_throttlerVars => IInv'
<1> SUFFICES ASSUME IInv, [Next]_throttlerVars PROVE IInv'
  OBVIOUS
<1>1. CASE UNCHANGED throttlerVars
  <2>1. TypeOK'
    BY <1>1 DEF IInv, TypeOK, throttlerVars
  <2>2. QED
    BY <1>1, <2>1, RepliesUntouched, InitsUntouched DEF IInv, throttlerVars
<1>2. QED
  BY <1>1, TickStep, RefuseReplyStep, GrantReplyStep, RefuseInitStep, GrantInitStep, RestartStep DEF Next

(* The window deques of the throttler are exact summaries of its grants.   *)
THEOREM ThrottlerInvariant == Spec => []IInv
<1>1. QED
  BY InitInvariant, NextInvariant, PTL DEF Spec

(* No reply window ever sees more than ReplyLimit grants of one process.   *)
THEOREM ReplyLimitHolds == Spec => []ReplyRate
<1>1. IInv => ReplyRate
  BY DEF IInv
<1>2. QED
  BY <1>1, ThrottlerInvariant, PTL

(* No initiation window ever sees more than InitMax grants.                *)
THEOREM InitLimitHolds == Spec => []InitRate
<1>1. IInv => InitRate
  BY DEF IInv
<1>2. QED
  BY <1>1, ThrottlerInvariant, PTL

(* Two initiations are InitMinInterval apart, whatever the window.         *)
THEOREM InitIntervalHolds == Spec => []InitSpacing
<1>1. IInv => InitSpacing
  BY DEF IInv
<1>2. QED
  BY <1>1, ThrottlerInvariant, PTL

(* The rates the messenger sees of one process.                            *)
THEOREM RatesHold == Spec => []Rates
<1>1. IInv => Rates
  BY DEF IInv, Rates
<1>2. QED
  BY <1>1, ThrottlerInvariant, PTL
-----------------------------------------------------------------------------
(* Refusals.                                                               *)

LEMMA FullCounts ==
  ASSUME NEW l \in Nat, NEW limit \in Nat \ {0}, NEW m \in Nat, NEW k \in Nat, NEW n \in Nat,
         NEW born \in Nat, l <= limit, l >= limit, l = m - k, l <= n - born
  PROVE  l = limit /\ k < m /\ 1 \in 1..l /\ 1 \in 1..(m - k) /\ n - limit >= born
OBVIOUS

(* Where the pruned window is full, the last limit grants are in it.       *)
LEMMA FullWindow ==
  ASSUME NEW q \in Seq(Nat), NEW log \in Seq(Nat), NEW born \in 0..Len(log),
         NEW limit \in Nat \ {0}, NEW width \in Nat, now \in Nat,
         Tracks(q, log, born, limit, width), NEW w \in Recent(q, width), Len(w) >= limit
  PROVE  Full(log, born, limit, width)
<1>1. w \in Seq(Nat) /\ Tracks(w, log, born, limit, width)
  BY PruneTracks
<1>2. PICK k \in 0..Len(q) : w = Suffix(q, k) /\ Stale(q, k, width)
  BY DEF Recent
<1>3. /\ w \in Seq(Nat) /\ Len(w) = Len(q) - k
      /\ \A i \in 1..(Len(q) - k) : w[i] = q[k + i]
  BY SMTT(30), <1>2, SubSeqProperties DEF Suffix
<1>4. /\ Len(w) <= limit /\ Len(w) <= Len(log) - born
      /\ \A i \in 1..Len(w) : w[i] = log[Len(log) - Len(w) + i]
  BY <1>1 DEF Tracks
<1>5. /\ Len(w) \in Nat /\ Len(q) \in Nat /\ Len(log) \in Nat /\ k \in Nat /\ limit \in Nat
      /\ limit > 0 /\ born \in Nat
  BY SMTT(30), <1>3
<1>6. Len(w) = limit /\ k < Len(q) /\ 1 \in 1..Len(w) /\ 1 \in 1..(Len(q) - k) /\ Len(log) - limit >= born
  BY <1>3, <1>4, <1>5, FullCounts
<1>7. w[1] + width >= now
  <2>1. w[1] = q[k + 1]
    BY <1>3, <1>6
  <2>2. q[k + 1] + width >= now
    BY <1>2, <1>6 DEF Stale
  <2>3. QED
    BY <2>1, <2>2
<1>8. w[1] = log[Len(log) - limit + 1]
  BY <1>4, <1>6
<1>9. QED
  BY <1>6, <1>7, <1>8 DEF Full

LEMMA RefusalStep == ASSUME IInv, RefusalIsDue, [Next]_throttlerVars PROVE RefusalIsDue'
<1>1. CASE RefuseReply
  <2>1. PICK w \in Recent(replies, ReplyWindow) : Len(w) >= ReplyLimit
    BY <1>1 DEF RefuseReply
  <2>2. Full(replyLog, replyBorn, ReplyLimit, ReplyWindow)
    BY <2>1, FullWindow, ThrottlerAssumption DEF IInv, TypeOK
  <2>3. QED
    BY <1>1, <2>2 DEF RefuseReply, RefusalIsDue, Full
<1>2. CASE RefuseInit
  <2>1. CASE TooSoon
    <3>1. inits \in Seq(Nat) /\ inits # <<>> /\ now < inits[Len(inits)] + InitMinInterval
      BY <2>1 DEF TooSoon, IInv, TypeOK
    <3>2. Len(inits) \in 1..Len(inits) /\ Len(inits) \in Nat /\ Len(initLog) \in Nat
      BY <3>1, EmptySeq DEF IInv, TypeOK
    <3>3. /\ Len(inits) <= Len(initLog) - initBorn /\ initBorn \in Nat
          /\ inits[Len(inits)] = initLog[Len(initLog) - Len(inits) + Len(inits)]
      BY <3>2 DEF IInv, TypeOK, Tracks
    <3>4. initLog[Len(initLog)] + InitMinInterval > now /\ Len(initLog) > initBorn
      <4>1. inits[Len(inits)] \in Nat /\ Len(initLog) - Len(inits) + Len(inits) = Len(initLog)
        BY <3>1, <3>2
      <4>2. now \in Nat
        BY DEF IInv, TypeOK
      <4>3. InitMinInterval \in Nat
        BY ThrottlerAssumption
      <4>4. QED
        BY <3>1, <3>2, <3>3, <4>1, <4>2, <4>3
    <3>5. QED
      BY <1>2, <3>4 DEF RefuseInit, RefusalIsDue
  <2>2. CASE ~TooSoon
    <3>1. PICK w \in Recent(inits, InitWindow) : Len(w) >= InitMax
      BY <1>2, <2>2 DEF RefuseInit
    <3>2. Full(initLog, initBorn, InitMax, InitWindow)
      BY <3>1, FullWindow, ThrottlerAssumption DEF IInv, TypeOK
    <3>3. QED
      BY <1>2, <3>2 DEF RefuseInit, RefusalIsDue, Full
  <2>3. QED
    BY <2>1, <2>2
<1>3. CASE Tick \/ GrantReply \/ GrantInit \/ Restart
  BY <1>3 DEF Tick, GrantReply, GrantInit, Restart, RefusalIsDue
<1>4. CASE UNCHANGED throttlerVars
  BY <1>4 DEF throttlerVars, RefusalIsDue, Full
<1>5. QED
  BY <1>1, <1>2, <1>3, <1>4 DEF Next

(* The limits are not stricter than they say: whatever was pruned when,    *)
(* acquire() refuses only where a grant would exceed a limit.              *)
THEOREM RefusalsAreDue == Spec => []RefusalIsDue
<1>1. Init => RefusalIsDue
  BY DEF Init, RefusalIsDue
<1>2. IInv /\ RefusalIsDue /\ [Next]_throttlerVars => RefusalIsDue'
  BY RefusalStep
<1>3. QED
  BY <1>1, <1>2, ThrottlerInvariant, PTL DEF Spec
-----------------------------------------------------------------------------
(***************************************************************************)
(* For any number of tasks of one TokenManager: one refresh at a time, and *)
(* a rotation is lost only to a fault or to an installation, which takes   *)
(* no lock.  The argument is the lock: whoever is past Reload holds it, the*)
(* lock has one holder, so no other task rotates or saves meanwhile.       *)
(***************************************************************************)

(* The bridge builds one manager (main.py:134).                            *)
OneManager == \A t, u \in Task : ManagerOf[t] = ManagerOf[u]

(* The lock excludes: two tasks past Lock are the same task.               *)
LEMMA Exclusion ==
  ASSUME OneManager, LockHeld, NEW t \in Task, NEW u \in Task,
         pc[t] \in {"locked", "request", "save"}, pc[u] \in {"locked", "request", "save"}
  PROVE  t = u
BY DEF OneManager, LockHeld

(* The invariant holds after the installation.                             *)
LEMMA TokenStart == TokenInit => TokenInv
<1> SUFFICES ASSUME TokenInit PROVE TokenInv
  OBVIOUS
<1>1. TokenTypes
  BY TokenAssumption DEF TokenInit, TokenTypes
<1> QED
  BY <1>1 DEF TokenInit, TokenInv, LockHeld, FetchedIsValid, TokenNotLost

(* A step keeps the types.                                                 *)
LEMMA StepTokenTypes == TokenTypes /\ [TokenNext]_tokenVars => TokenTypes'
<1> SUFFICES ASSUME TokenTypes, [TokenNext]_tokenVars PROVE TokenTypes'
  OBVIOUS
<1> USE TokenAssumption
<1>1. CASE \E p \in Portal : Expire(p)
  BY <1>1 DEF Expire, TokenTypes, taskVars, servVars, histVars
<1>2. ASSUME NEW t \in Task, GetToken(t) PROVE TokenTypes'
  <2>1. CASE Ask(t)
    BY <2>1 DEF Ask, Goto, TokenTypes, dbVars, servVars, histVars
  <2>2. CASE Lock(t)
    BY <2>2 DEF Lock, Goto, TokenTypes, dbVars, servVars, histVars
  <2>3. CASE Reload(t)
    BY <2>3 DEF Reload, Goto, Unlock, TokenTypes, dbVars, servVars, histVars
  <2>4. CASE Refresh(t)
    BY <2>4 DEF Refresh, Rotate, Goto, TokenTypes, dbVars, histVars
  <2>5. CASE Refused(t)
    BY <2>5 DEF Refused, Goto, Unlock, TokenTypes, dbVars, servVars, histVars
  <2>6. CASE AnswerLost(t)
    BY <2>6 DEF AnswerLost, Rotate, Goto, Unlock, TokenTypes, dbVars
  <2>7. CASE Save(t)
    BY <2>7 DEF Save, Store, Goto, Unlock, TokenTypes, servVars, histVars
  <2>8. CASE SaveFails(t)
    BY <2>8 DEF SaveFails, Goto, Unlock, TokenTypes, dbVars, servVars
  <2> QED
    BY <1>2, <2>1, <2>2, <2>3, <2>4, <2>5, <2>6, <2>7, <2>8 DEF GetToken
<1>3. ASSUME NEW m \in Manager, Crash(m) PROVE TokenTypes'
  BY <1>3 DEF Crash, TokenTypes, dbVars, servVars
<1>4. CASE UNCHANGED tokenVars
  BY <1>4 DEF tokenVars, TokenTypes
<1>5. ASSUME NEW p \in Portal, Install(p) PROVE TokenTypes'
  BY <1>5 DEF Install, Rotate, TokenTypes, taskVars
<1> QED
  BY <1>1, <1>2, <1>3, <1>4, <1>5 DEF TokenNext, Step

(* A step leaves the lock with whoever is past Lock.                       *)
LEMMA StepLockHeld ==
  TokenTypes /\ LockHeld /\ OneManager /\ [TokenNext]_tokenVars => LockHeld'
<1> SUFFICES ASSUME TokenTypes, LockHeld, OneManager, [TokenNext]_tokenVars PROVE LockHeld'
  OBVIOUS
<1> USE TokenAssumption DEF LockHeld, OneManager, TokenTypes
<1>1. CASE \E p \in Portal : Expire(p)
  BY <1>1 DEF Expire, taskVars
<1>2. ASSUME NEW t \in Task, GetToken(t) PROVE LockHeld'
  <2>1. CASE Ask(t)
    BY <2>1 DEF Ask, Goto
  <2>2. CASE Lock(t)
    BY <2>2 DEF Lock, Goto
  <2>3. CASE Reload(t)
    BY <2>3 DEF Reload, Goto, Unlock
  <2>4. CASE Refresh(t)
    BY <2>4 DEF Refresh, Goto
  <2>5. CASE Refused(t)
    BY <2>5 DEF Refused, Goto, Unlock
  <2>6. CASE AnswerLost(t)
    BY <2>6 DEF AnswerLost, Goto, Unlock
  <2>7. CASE Save(t)
    BY <2>7 DEF Save, Goto, Unlock
  <2>8. CASE SaveFails(t)
    BY <2>8 DEF SaveFails, Goto, Unlock
  <2> QED
    BY <1>2, <2>1, <2>2, <2>3, <2>4, <2>5, <2>6, <2>7, <2>8 DEF GetToken
<1>3. ASSUME NEW m \in Manager, Crash(m) PROVE LockHeld'
  BY <1>3 DEF Crash
<1>4. CASE UNCHANGED tokenVars
  BY <1>4 DEF tokenVars
<1>5. ASSUME NEW p \in Portal, Install(p) PROVE LockHeld'
  BY <1>5 DEF Install, taskVars
<1> QED
  BY <1>1, <1>2, <1>3, <1>4, <1>5 DEF TokenNext, Step

(* The facts about the token, as one formula.                              *)
TokenFacts == FetchedIsValid /\ TokenNotLost

(* A step of a task keeps them: the only one past Lock is the task itself. *)
LEMMA TaskTokenFacts ==
  ASSUME OneManager, TokenInv, NEW t \in Task, GetToken(t)
  PROVE  TokenFacts'
<1> USE TokenAssumption DEF TokenInv, TokenTypes
<1>0. \A u \in Task :
        pc[t] \in {"locked", "request", "save"} /\ pc[u] \in {"locked", "request", "save"} => u = t
  BY Exclusion DEF TokenInv
<1>1. CASE Ask(t)
  BY <1>1 DEF Ask, Goto, dbVars, servVars, histVars, TokenFacts, FetchedIsValid, TokenNotLost
<1>2. CASE Lock(t)
  BY <1>2 DEF Lock, Goto, dbVars, servVars, histVars, TokenFacts, FetchedIsValid, TokenNotLost
<1>3. CASE Reload(t)
  BY <1>0, <1>3 DEF Reload, Goto, dbVars, servVars, histVars,
     TokenFacts, FetchedIsValid, TokenNotLost
<1>4. CASE Refresh(t)
  <2>1. \A u \in Task : pc'[u] = "save" => u = t
    BY <1>0, <1>4 DEF Refresh, Goto
  <2>2. token'[t] = valid'[portal[t]] /\ portal' = portal
    BY <1>4 DEF Refresh, Rotate
  <2>3. FetchedIsValid'
    BY <2>1, <2>2 DEF FetchedIsValid
  <2>4. TokenNotLost'
    BY <1>0, <1>4 DEF Refresh, Rotate, Goto, dbVars, histVars, TokenNotLost
  <2> QED
    BY <2>3, <2>4 DEF TokenFacts
<1>5. CASE Refused(t)
  BY <1>5 DEF Refused, Goto, dbVars, servVars, histVars, TokenFacts, FetchedIsValid, TokenNotLost
<1>6. CASE AnswerLost(t)
  BY <1>0, <1>6 DEF AnswerLost, Rotate, Goto, dbVars, TokenFacts, FetchedIsValid, TokenNotLost
<1>7. CASE Save(t)
  <2>1. FetchedIsValid'
    BY <1>0, <1>7 DEF Save, Store, Goto, servVars, FetchedIsValid
  <2>2. TokenNotLost'
    BY <1>0, <1>7 DEF Save, Store, Goto, servVars, histVars, FetchedIsValid, TokenNotLost
  <2> QED
    BY <2>1, <2>2 DEF TokenFacts
<1>8. CASE SaveFails(t)
  BY <1>0, <1>8 DEF SaveFails, Goto, dbVars, servVars, TokenFacts, FetchedIsValid, TokenNotLost
<1> QED
  BY <1>1, <1>2, <1>3, <1>4, <1>5, <1>6, <1>7, <1>8 DEF GetToken

(* An installation keeps them: what a refresh under way may yet overwrite  *)
(* is accounted for as lost.                                               *)
LEMMA InstallTokenFacts ==
  ASSUME TokenInv, NEW p \in Portal, Install(p)
  PROVE  TokenFacts'
<1> USE DEF TokenInv, TokenTypes
<1>1. FetchedIsValid'
  <2> SUFFICES ASSUME NEW t \in Task, pc[t] = "save"
               PROVE  token[t] = valid'[portal[t]] \/ portal[t] \in lost'
    BY DEF Install, taskVars, FetchedIsValid
  <2>1. lost' = lost \union {p}
    BY DEF Install
  <2>2. CASE portal[t] = p
    BY <2>1, <2>2
  <2>3. CASE portal[t] # p
    BY <2>1, <2>3 DEF Install, Rotate, FetchedIsValid
  <2>4. QED
    BY <2>2, <2>3
<1>2. TokenNotLost'
  BY DEF Install, Rotate, TokenNotLost
<1>3. QED
  BY <1>1, <1>2 DEF TokenFacts

(* A step keeps the invariant.                                             *)
LEMMA TokenStep == OneManager /\ TokenInv /\ [TokenNext]_tokenVars => TokenInv'
<1> SUFFICES ASSUME OneManager, TokenInv, [TokenNext]_tokenVars PROVE TokenInv'
  OBVIOUS
<1>1. TokenTypes' /\ LockHeld'
  BY StepTokenTypes, StepLockHeld DEF TokenInv
<1>2. TokenFacts'
  <2>1. CASE \E p \in Portal : Expire(p)
    BY <2>1 DEF Expire, taskVars, servVars, histVars,
       TokenInv, TokenFacts, FetchedIsValid, TokenNotLost
  <2>2. CASE \E t \in Task : GetToken(t)
    BY <2>2, TaskTokenFacts
  <2>3. ASSUME NEW m \in Manager, Crash(m) PROVE TokenFacts'
    BY <2>3 DEF Crash, dbVars, servVars,
       TokenInv, TokenTypes, TokenFacts, FetchedIsValid, TokenNotLost
  <2>4. CASE \E p \in Portal : Install(p)
    BY <2>4, InstallTokenFacts
  <2>5. CASE UNCHANGED tokenVars
    BY <2>5 DEF tokenVars, TokenInv, TokenFacts, FetchedIsValid, TokenNotLost
  <2> QED
    BY <2>1, <2>2, <2>3, <2>4, <2>5 DEF TokenNext, Step
<1> QED
  BY <1>1, <1>2 DEF TokenInv, TokenFacts

(* The inductive invariant of get_token under one lock, with installations *)
(* of any portal at any time.                                              *)
THEOREM TokenInvariant ==
  ASSUME OneManager
  PROVE  InstallSpec => []TokenInv
<1>1. TokenInv /\ [TokenNext]_tokenVars => TokenInv'
  BY TokenStep
<1> QED
  BY <1>1, TokenStart, PTL DEF InstallSpec

(* The lock of token_manager.py:28-29 does guarantee a single refresh, as  *)
(* long as every caller uses the same TokenManager.                        *)
THEOREM OneRefreshAtATime ==
  ASSUME OneManager
  PROVE  InstallSpec => []SingleRefresh
<1>1. TokenInv => SingleRefresh
  BY Exclusion DEF TokenInv, SingleRefresh, Refreshing
<1>2. InstallSpec => []TokenInv
  BY TokenInvariant
<1> QED
  BY <1>1, <1>2, PTL

(* The stored token is the valid one unless a fault hit between the        *)
(* rotation and the commit, or the portal was installed anew while a       *)
(* refresh was under way.                                                  *)
THEOREM RotationIsSaved ==
  ASSUME OneManager
  PROVE  InstallSpec => []TokenNotLost
<1>1. TokenInv => TokenNotLost
  BY DEF TokenInv
<1>2. InstallSpec => []TokenInv
  BY TokenInvariant
<1> QED
  BY <1>1, <1>2, PTL

(* In the life of one installation a task that is past the reload refreshes *)
(* the stored token, and that token is still due.                          *)
LEMMA TaskNeedsRefresh ==
  ASSUME OneManager, TokenInv, NoNeedlessRefresh, NEW t \in Task, GetToken(t)
  PROVE  NoNeedlessRefresh'
<1> USE TokenAssumption DEF TokenInv, TokenTypes, NoNeedlessRefresh
<1>0. \A u \in Task :
        pc[t] \in {"locked", "request", "save"} /\ pc[u] \in {"locked", "request", "save"} => u = t
  BY Exclusion DEF TokenInv
<1>1. CASE Ask(t) \/ Lock(t) \/ Refused(t)
  BY <1>1 DEF Ask, Lock, Refused, Goto, dbVars
<1>2. CASE Reload(t)
  BY <1>2 DEF Reload, Goto, dbVars
<1>3. CASE Refresh(t)
  BY <1>0, <1>3 DEF Refresh, Goto, dbVars
<1>4. CASE AnswerLost(t) \/ SaveFails(t)
  BY <1>4 DEF AnswerLost, SaveFails, Goto, dbVars
<1>5. CASE Save(t)
  BY <1>0, <1>5 DEF Save, Store, Goto
<1> QED
  BY <1>1, <1>2, <1>3, <1>4, <1>5 DEF GetToken

(* A caller that waited for the lock never sends a used refresh token.     *)
THEOREM RefreshIsNeeded ==
  ASSUME OneManager
  PROVE  TokenSpec => []NoNeedlessRefresh
<1>1. TokenInit => NoNeedlessRefresh
  BY DEF TokenInit, NoNeedlessRefresh
<1>2. TokenInv /\ NoNeedlessRefresh /\ [Step]_tokenVars => NoNeedlessRefresh'
  <2> SUFFICES ASSUME TokenInv, NoNeedlessRefresh, [Step]_tokenVars PROVE NoNeedlessRefresh'
    OBVIOUS
  <2>1. CASE \E p \in Portal : Expire(p)
    BY <2>1 DEF Expire, taskVars, NoNeedlessRefresh
  <2>2. CASE \E t \in Task : GetToken(t)
    BY <2>2, TaskNeedsRefresh
  <2>3. ASSUME NEW m \in Manager, Crash(m) PROVE NoNeedlessRefresh'
    BY <2>3 DEF Crash, dbVars, TokenInv, TokenTypes, NoNeedlessRefresh
  <2>4. CASE UNCHANGED tokenVars
    BY <2>4 DEF tokenVars, NoNeedlessRefresh
  <2> QED
    BY <2>1, <2>2, <2>3, <2>4 DEF Step
<1>3. TokenInv /\ [Step]_tokenVars => TokenInv'
  BY TokenStep DEF TokenNext
<1> QED
  BY <1>1, <1>2, <1>3, TokenStart, PTL DEF TokenSpec
=============================================================================
