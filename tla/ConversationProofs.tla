-------------------------- MODULE ConversationProofs --------------------------
(***************************************************************************)
(* Proofs about Conversation, for any number of messages, faults, ticks    *)
(* and attempts.                                                           *)
(***************************************************************************)
EXTENDS Conversation, Integers, FiniteSetTheorems, SequenceTheorems, WellFoundedInduction, TLAPS

MessageType == [from : {"client", "phone", "us"}, ts : Nat]
RowType ==
  [ext : Nat, dir : {"in", "out"}, auto : BOOLEAN, ts : Nat,
   out : {"none", "pending", "sent"}, state : {"open", "row", "void"}]
Stages ==
  {"idle", "contact", "addContact", "dialog", "addDialog", "insert", "commit", "enqueue", "reply"}
WriterType == [at : Stages, id : Nat, row : Nat]
SenderType == [at : {"idle", "asked", "answered"}, row : Nat, ext : Nat]
CmdType == [status : {"none", "pending", "linked", "failed"}, attempts : Nat, ts : Nat]
KeyType == {"free", "row"} \union Writers

ConversationTypes ==
  /\ clock \in Nat /\ written \in Seq(MessageType)
  /\ pushes \in Seq(Nat) /\ worker \in Nat /\ incoming \in Seq(Nat)
  /\ up \in BOOLEAN
  /\ contact \in KeyType /\ dialog \in KeyType /\ rows \in Seq(RowType) /\ tasks \subseteq Nat
  /\ writer \in [Writers -> WriterType]
  /\ cmd \in CmdType /\ again \in BOOLEAN
  /\ sender \in SenderType /\ hit \subseteq Nat /\ faults \in Nat

(* What is on its way is a message of the messenger, written before now.   *)
Delivered ==
  /\ \A m \in DOMAIN written : written[m].ts <= clock
  /\ \A i \in DOMAIN pushes : pushes[i] \in DOMAIN written
  /\ \A i \in DOMAIN incoming : incoming[i] \in DOMAIN written
  /\ worker = 0 \/ worker \in DOMAIN written
  /\ At("pump") # "idle" => writer["pump"].id \in DOMAIN written

(* The row the pump is at, once there is one.                              *)
PumpRow ==
  LET t == writer["pump"] IN
  /\ t.at \in {"commit", "enqueue", "reply"} =>
       /\ t.row \in DOMAIN rows
       /\ rows[t.row].dir = IF FromClient(t.id) THEN "in" ELSE "out"
       /\ \A j \in DOMAIN rows : rows[j].auto => j < t.row
  /\ t.at \in {"enqueue", "reply"} => IsRow(t.row)
  /\ t.at = "reply" => FromClient(t.id)

(* An automatic reply follows a message of the client, and is of the past. *)
RepliesFollow ==
  \A j \in DOMAIN rows : rows[j].auto =>
    /\ IsRow(j) /\ rows[j].ts <= clock
    /\ \E i \in DOMAIN rows : i < j /\ IsRow(i) /\ rows[i].dir = "in"

ConversationInv == ConversationTypes /\ Delivered /\ PumpRow /\ RepliesFollow /\ RepliesApart

LEMMA SeqFacts ==
  ASSUME NEW S, NEW s \in Seq(S)
  PROVE  /\ DOMAIN s = 1..Len(s) /\ Len(s) \in Nat
         /\ \A i \in DOMAIN s : s[i] \in S /\ i \in Nat /\ i # 0
OBVIOUS

LEMMA AppendFacts ==
  ASSUME NEW S, NEW s \in Seq(S), NEW x \in S
  PROVE  /\ Append(s, x) \in Seq(S) /\ Len(Append(s, x)) = Len(s) + 1
         /\ Append(s, x)[Len(s) + 1] = x
         /\ \A i \in DOMAIN s : i \in DOMAIN Append(s, x) /\ Append(s, x)[i] = s[i]
         /\ \A i \in DOMAIN Append(s, x) : i \in DOMAIN s \/ i = Len(s) + 1
         /\ Len(s) + 1 \in DOMAIN Append(s, x) /\ Len(s) + 1 \notin DOMAIN s
BY AppendProperties

LEMMA TailFacts ==
  ASSUME NEW S, NEW s \in Seq(S), s # <<>>
  PROVE  /\ Tail(s) \in Seq(S) /\ Head(s) \in S /\ 1 \in DOMAIN s /\ Head(s) = s[1]
         /\ DOMAIN Tail(s) = 1..(Len(s) - 1) /\ Len(s) \in Nat \ {0} /\ DOMAIN s = 1..Len(s)
         /\ \A i \in DOMAIN Tail(s) : i + 1 \in DOMAIN s /\ Tail(s)[i] = s[i + 1]
<1>1. /\ Tail(s) \in Seq(S) /\ Head(s) \in S /\ Head(s) = s[1] /\ Len(Tail(s)) = Len(s) - 1
      /\ \A i \in 1..Len(Tail(s)) : Tail(s)[i] = s[i + 1]
  BY HeadTailProperties
<1>2. Len(s) \in Nat \ {0} /\ DOMAIN s = 1..Len(s)
  BY EmptySeq, SeqFacts
<1>3. DOMAIN Tail(s) = 1..(Len(s) - 1)
  BY <1>1, SeqFacts
<1>4. QED
  BY <1>1, <1>2, <1>3

LEMMA TypesNow ==
  ASSUME ConversationInv
  PROVE  /\ clock \in Nat /\ written \in Seq(MessageType)
         /\ pushes \in Seq(Nat) /\ worker \in Nat /\ incoming \in Seq(Nat) /\ up \in BOOLEAN
         /\ contact \in KeyType /\ dialog \in KeyType /\ rows \in Seq(RowType) /\ tasks \subseteq Nat
         /\ writer \in [Writers -> WriterType] /\ cmd \in CmdType /\ again \in BOOLEAN
         /\ sender \in SenderType /\ hit \subseteq Nat /\ faults \in Nat
         /\ DOMAIN rows = 1..Len(rows) /\ Len(rows) \in Nat
         /\ \A i \in DOMAIN rows : rows[i] \in RowType /\ i \in Nat /\ i # 0
         /\ DOMAIN written = 1..Len(written) /\ Len(written) \in Nat
         /\ \A m \in DOMAIN written : written[m] \in MessageType /\ m \in Nat /\ m # 0
<1>1. /\ clock \in Nat /\ written \in Seq(MessageType)
      /\ pushes \in Seq(Nat) /\ worker \in Nat /\ incoming \in Seq(Nat) /\ up \in BOOLEAN
      /\ contact \in KeyType /\ dialog \in KeyType /\ rows \in Seq(RowType) /\ tasks \subseteq Nat
      /\ writer \in [Writers -> WriterType] /\ cmd \in CmdType /\ again \in BOOLEAN
      /\ sender \in SenderType /\ hit \subseteq Nat /\ faults \in Nat
  BY DEF ConversationInv, ConversationTypes
<1>2. QED
  BY <1>1, SeqFacts

LEMMA WriterNow ==
  ASSUME ConversationInv, NEW w \in Writers
  PROVE  /\ writer[w] \in WriterType /\ writer[w].at \in Stages
         /\ writer[w].id \in Nat /\ writer[w].row \in Nat
BY TypesNow DEF WriterType

LEMMA IdleTyped == Idle \in WriterType /\ Resting \in SenderType
BY DEF Idle, WriterType, Stages, Resting, SenderType

-----------------------------------------------------------------------------
(* The rows: what each step leaves of them.                                *)

(* They keep their direction and their time, and what is visible stays so. *)
RowsKept ==
  /\ rows' \in Seq(RowType)
  /\ \A i \in DOMAIN rows :
       /\ i \in DOMAIN rows'
       /\ rows'[i].dir = rows[i].dir /\ rows'[i].auto = rows[i].auto /\ rows'[i].ts = rows[i].ts
       /\ IsRow(i) => IsRow(i)'

NoReply == \A i \in DOMAIN rows' : i \in DOMAIN rows \/ ~rows'[i].auto

LEMMA RowsSame == ASSUME ConversationInv, rows' = rows PROVE RowsKept /\ NoReply
BY TypesNow DEF RowsKept, NoReply, IsRow

LEMMA RowAppended ==
  ASSUME ConversationInv, NEW x \in RowType, rows' = Append(rows, x)
  PROVE  /\ RowsKept /\ (~x.auto => NoReply)
         /\ Len(rows) + 1 \in DOMAIN rows' /\ rows'[Len(rows) + 1] = x
         /\ \A i \in DOMAIN rows : i < Len(rows) + 1 /\ rows'[i] = rows[i]
         /\ \A i \in DOMAIN rows' : i \in DOMAIN rows \/ i = Len(rows) + 1
<1>1. /\ rows' \in Seq(RowType) /\ Len(rows) + 1 \in DOMAIN rows' /\ rows'[Len(rows) + 1] = x
      /\ \A i \in DOMAIN rows : i \in DOMAIN rows' /\ rows'[i] = rows[i]
      /\ \A i \in DOMAIN rows' : i \in DOMAIN rows \/ i = Len(rows) + 1
  BY TypesNow, AppendFacts
<1>2. \A i \in DOMAIN rows : i < Len(rows) + 1
  BY TypesNow
<1>3. RowsKept
  BY <1>1 DEF RowsKept, IsRow
<1>4. ~x.auto => NoReply
  BY <1>1 DEF NoReply
<1>5. QED
  BY <1>1, <1>2, <1>3, <1>4

LEMMA RowChanged ==
  ASSUME ConversationInv, NEW k, NEW r, NEW x \in RowType,
         k \in DOMAIN rows => r = rows[k] /\ x.dir = r.dir /\ x.auto = r.auto /\ x.ts = r.ts
                              /\ (r.state = "row" => x.state = "row"),
         rows' = [rows EXCEPT ![k] = x]
  PROVE  RowsKept /\ NoReply
<1>1. CASE k \in DOMAIN rows
  <2>1. rows' \in Seq(RowType)
    BY <1>1, TypesNow
  <2>2. DOMAIN rows' = DOMAIN rows /\ \A i \in DOMAIN rows : rows'[i] = IF i = k THEN x ELSE rows[i]
    BY <1>1
  <2>3. QED
    BY <1>1, <2>1, <2>2 DEF RowsKept, NoReply, IsRow
<1>2. CASE k \notin DOMAIN rows
  <2>1. rows' = [i \in DOMAIN rows |-> rows[i]]
    BY <1>2
  <2>2. rows = [i \in DOMAIN rows |-> rows[i]]
    BY TypesNow
  <2>3. QED
    BY <2>1, <2>2, RowsSame
<1>3. QED
  BY <1>1, <1>2

(* Rows that are not visible go when their transaction is rolled back.     *)
LEMMA RowsVoided ==
  ASSUME ConversationInv, NEW V,
         rows' = [i \in DOMAIN rows |->
                   IF i \in V /\ ~IsRow(i) THEN [rows[i] EXCEPT !.state = "void"] ELSE rows[i]]
  PROVE  RowsKept /\ NoReply
<1>1. DOMAIN rows' = DOMAIN rows
  OBVIOUS
<1>2. \A i \in DOMAIN rows :
        rows'[i] = IF i \in V /\ ~IsRow(i) THEN [rows[i] EXCEPT !.state = "void"] ELSE rows[i]
  OBVIOUS
<1>3. ASSUME NEW i \in DOMAIN rows
      PROVE  /\ rows'[i] \in RowType /\ rows'[i].dir = rows[i].dir /\ rows'[i].auto = rows[i].auto
             /\ rows'[i].ts = rows[i].ts /\ (IsRow(i) => rows'[i].state = "row")
  <2>1. rows[i] \in RowType
    BY TypesNow
  <2>2. CASE i \in V /\ ~IsRow(i)
    <3>1. rows'[i] = [rows[i] EXCEPT !.state = "void"]
      BY <1>2, <2>2
    <3>2. QED
      BY <2>1, <2>2, <3>1 DEF RowType
  <2>3. CASE ~(i \in V /\ ~IsRow(i))
    <3>1. rows'[i] = rows[i]
      BY <1>2, <2>3
    <3>2. QED
      BY <2>1, <3>1 DEF IsRow
  <2>4. QED
    BY <2>2, <2>3
<1>4. rows' \in Seq(RowType)
  BY <1>1, <1>3, TypesNow
<1>5. QED
  BY <1>1, <1>3, <1>4 DEF RowsKept, NoReply, IsRow
LEMMA RollBackKeeps ==
  ASSUME ConversationInv, NEW w \in Writers, RollBack(w)
  PROVE  RowsKept /\ NoReply /\ contact' \in KeyType /\ dialog' \in KeyType
<1> DEFINE V == IF w = "pump" THEN DOMAIN rows ELSE {}
<1>1. \A i \in DOMAIN rows : w = "pump" <=> i \in V
  OBVIOUS
<1>2. rows' = [i \in DOMAIN rows |->
                IF i \in V /\ ~IsRow(i) THEN [rows[i] EXCEPT !.state = "void"] ELSE rows[i]]
  BY <1>1 DEF RollBack
<1> HIDE DEF V
<1>3. contact' \in KeyType /\ dialog' \in KeyType
  BY TypesNow DEF RollBack, Released, KeyType
<1>4. QED
  BY <1>2, <1>3, RowsVoided

LEMMA CommitKeys ==
  ASSUME ConversationInv, NEW w \in Writers, Commit(w)
  PROVE  contact' \in KeyType /\ dialog' \in KeyType
BY TypesNow DEF Commit, Released, KeyType

-----------------------------------------------------------------------------
(* A step that neither writes an automatic reply nor takes back what is    *)
(* visible, a message or the time.                                         *)

WrittenKept == \A m \in DOMAIN written : m \in DOMAIN written' /\ written'[m] = written[m]

LEMMA RepliesStay ==
  ASSUME ConversationInv, RowsKept, NoReply, clock' \in Nat, clock <= clock'
  PROVE  RepliesFollow' /\ RepliesApart'
<1>1. ASSUME NEW j \in DOMAIN rows', rows'[j].auto
      PROVE  j \in DOMAIN rows /\ rows[j].auto /\ rows'[j].ts = rows[j].ts /\ IsRow(j)
  <2>1. j \in DOMAIN rows
    BY <1>1 DEF NoReply
  <2>2. rows[j].auto /\ rows'[j].ts = rows[j].ts
    BY <1>1, <2>1 DEF RowsKept
  <2>3. QED
    BY <2>1, <2>2 DEF ConversationInv, RepliesFollow
<1>2. RepliesFollow'
  <2>1. SUFFICES ASSUME NEW j \in DOMAIN rows', rows'[j].auto
                 PROVE  /\ IsRow(j)' /\ rows'[j].ts <= clock'
                        /\ \E i \in DOMAIN rows' : i < j /\ IsRow(i)' /\ rows'[i].dir = "in"
    BY DEF RepliesFollow
  <2>2. j \in DOMAIN rows /\ rows[j].auto /\ rows'[j].ts = rows[j].ts /\ IsRow(j)
    BY <1>1, <2>1
  <2>3. rows[j].ts <= clock /\ rows[j].ts \in Nat
    BY <2>2, TypesNow DEF ConversationInv, RepliesFollow, RowType
  <2>4. PICK i \in DOMAIN rows : i < j /\ IsRow(i) /\ rows[i].dir = "in"
    BY <2>2 DEF ConversationInv, RepliesFollow
  <2>5. i \in DOMAIN rows' /\ IsRow(i)' /\ IsRow(j)' /\ rows'[i].dir = "in"
    BY <2>2, <2>4 DEF RowsKept
  <2>6. rows'[j].ts <= clock'
    BY <2>2, <2>3, TypesNow
  <2>7. QED
    BY <2>4, <2>5, <2>6
<1>3. RepliesApart'
  BY <1>1 DEF ConversationInv, RepliesApart
<1>4. QED
  BY <1>2, <1>3

(* Where the pump has no row yet there is nothing to say of it.            *)
LEMMA PumpAtNoRow ==
  ASSUME writer'["pump"].at \notin {"commit", "enqueue", "reply"}
  PROVE  PumpRow'
BY DEF PumpRow

LEMMA PumpStays ==
  ASSUME ConversationInv, RowsKept, NoReply, WrittenKept, writer'["pump"] = writer["pump"]
  PROVE  PumpRow'
<1> DEFINE t == writer["pump"]
<1>1. CASE t.at \notin {"commit", "enqueue", "reply"}
  BY <1>1, PumpAtNoRow
<1>2. CASE t.at \in {"commit", "enqueue", "reply"}
  <2>1. /\ t.row \in DOMAIN rows
        /\ rows[t.row].dir = IF FromClient(t.id) THEN "in" ELSE "out"
        /\ \A j \in DOMAIN rows : rows[j].auto => j < t.row
        /\ t.at \in {"enqueue", "reply"} => IsRow(t.row)
        /\ t.at = "reply" => FromClient(t.id)
    BY <1>2 DEF ConversationInv, PumpRow
  <2>2. t.id \in DOMAIN written
    BY <1>2 DEF ConversationInv, Delivered, At
  <2>3. written'[t.id] = written[t.id]
    BY <2>2 DEF WrittenKept
  <2>4. /\ t.row \in DOMAIN rows' /\ rows'[t.row].dir = rows[t.row].dir
        /\ rows[t.row].state = "row" => rows'[t.row].state = "row"
        /\ \A j \in DOMAIN rows' : rows'[j].auto => j \in DOMAIN rows /\ rows[j].auto
    BY <2>1 DEF RowsKept, NoReply, IsRow
  <2>5. QED
    BY <2>1, <2>3, <2>4 DEF PumpRow, IsRow, FromClient
<1>3. QED
  BY <1>1, <1>2

LEMMA DeliveredStays ==
  ASSUME ConversationInv, UNCHANGED <<clock, written, pushes, worker, incoming>>,
         \/ writer'["pump"].at = "idle"
         \/ At("pump") # "idle" /\ writer'["pump"].id = writer["pump"].id
  PROVE  Delivered'
BY DEF ConversationInv, Delivered, At
LEMMA CalmStep ==
  ASSUME ConversationInv, ConversationTypes', Delivered', RowsKept, NoReply, WrittenKept, clock <= clock',
         \/ writer'["pump"] = writer["pump"]
         \/ writer'["pump"].at \notin {"commit", "enqueue", "reply"}
  PROVE  ConversationInv'
<1>1. clock' \in Nat
  BY DEF ConversationTypes
<1>2. RepliesFollow' /\ RepliesApart'
  BY <1>1, RepliesStay
<1>3. PumpRow'
  BY PumpAtNoRow, PumpStays
<1>4. QED
  BY <1>2, <1>3 DEF ConversationInv

LEMMA NothingWritten == ASSUME written' = written PROVE WrittenKept
BY DEF WrittenKept

LEMMA TimeStands == ASSUME ConversationInv, clock' = clock PROVE clock <= clock'
BY TypesNow

LEMMA WriteKeeps ==
  ASSUME ConversationInv, NEW from \in {"client", "phone", "us"}, Write(from)
  PROVE  /\ written' \in Seq(MessageType) /\ pushes' \in Seq(Nat) /\ WrittenKept
         /\ \A m \in DOMAIN written' : written'[m].ts <= clock
         /\ \A i \in DOMAIN pushes' : pushes'[i] \in DOMAIN written'
         /\ Len(written) + 1 \in DOMAIN written' /\ Len(written) + 1 \in Nat
         /\ \A m \in DOMAIN written : m \in DOMAIN written'
<1> DEFINE n == Len(written) + 1
<1> DEFINE x == [from |-> from, ts |-> clock]
<1>1. x \in MessageType /\ n \in Nat
  BY TypesNow DEF MessageType
<1>2. written' = Append(written, x) /\ pushes' = Append(pushes, n)
  BY DEF Write
<1>3. x.ts = clock
  OBVIOUS
<1> HIDE DEF n, x
<1>4. /\ written' \in Seq(MessageType) /\ written'[n] = x /\ n \in DOMAIN written'
      /\ \A m \in DOMAIN written : m \in DOMAIN written' /\ written'[m] = written[m]
      /\ \A m \in DOMAIN written' : m \in DOMAIN written \/ m = n
  BY <1>1, <1>2, TypesNow, AppendFacts DEF n
<1>5. /\ pushes' \in Seq(Nat)
      /\ \A i \in DOMAIN pushes' : (i \in DOMAIN pushes /\ pushes'[i] = pushes[i]) \/ pushes'[i] = n
  BY SMTT(30), <1>1, <1>2, TypesNow, AppendFacts
<1>6. \A i \in DOMAIN pushes' : pushes'[i] \in DOMAIN written'
  BY <1>4, <1>5 DEF ConversationInv, Delivered
<1>7. \A m \in DOMAIN written' : written'[m].ts <= clock
  <2>1. clock <= clock /\ \A m \in DOMAIN written : written[m].ts <= clock
    BY TypesNow DEF ConversationInv, Delivered
  <2>2. QED
    BY <1>3, <1>4, <2>1
<1>8. QED
  BY <1>1, <1>4, <1>5, <1>6, <1>7 DEF n, WrittenKept

-----------------------------------------------------------------------------
(* The messenger and the provider.                                         *)

LEMMA WritesStep == ASSUME ConversationInv, ClientOrPhoneWrites PROVE ConversationInv'
<1>1. PICK from \in {"client", "phone"} : Write(from)
  BY DEF ClientOrPhoneWrites
<1>2. UNCHANGED <<clock, worker, known, incoming, up, dbVars, writer, initVars, sender, histVars>>
  BY DEF ClientOrPhoneWrites
<1>3. /\ written' \in Seq(MessageType) /\ pushes' \in Seq(Nat) /\ WrittenKept
      /\ \A m \in DOMAIN written' : written'[m].ts <= clock
      /\ \A i \in DOMAIN pushes' : pushes'[i] \in DOMAIN written'
      /\ \A m \in DOMAIN written : m \in DOMAIN written'
  BY <1>1, WriteKeeps
<1>4. ConversationTypes'
  BY <1>2, <1>3, TypesNow DEF ConversationTypes, dbVars, initVars, histVars
<1>5. Delivered'
  BY <1>2, <1>3 DEF ConversationInv, Delivered, At
<1>6. RowsKept /\ NoReply /\ clock <= clock' /\ writer' = writer
  BY <1>2, RowsSame, TimeStands DEF dbVars
<1>7. QED
  BY <1>3, <1>4, <1>5, <1>6, CalmStep

LEMMA RedeliverStep == ASSUME ConversationInv, Redeliver PROVE ConversationInv'
<1>1. PICK m \in DOMAIN written : pushes' = Append(pushes, m)
  BY DEF Redeliver
<1>2. /\ UNCHANGED <<clock, written, worker, known, incoming, up, dbVars, writer, initVars, sender>>
      /\ faults' = faults + 1 /\ hit' = hit \union {}
  BY DEF Redeliver, Fault
<1>3. /\ pushes' \in Seq(Nat)
      /\ \A i \in DOMAIN pushes' : (i \in DOMAIN pushes /\ pushes'[i] = pushes[i]) \/ pushes'[i] = m
  BY <1>1, TypesNow, AppendFacts
<1>4. ConversationTypes'
  BY <1>2, <1>3, TypesNow DEF ConversationTypes, dbVars, initVars
<1>5. Delivered'
  BY <1>2, <1>3 DEF ConversationInv, Delivered, At
<1>6. RowsKept /\ NoReply /\ clock <= clock' /\ writer' = writer /\ WrittenKept
  BY <1>2, RowsSame, TimeStands, NothingWritten DEF dbVars
<1>7. QED
  BY <1>4, <1>5, <1>6, CalmStep

LEMMA TickStep == ASSUME ConversationInv, Tick PROVE ConversationInv'
<1>1. /\ clock' = clock + 1 /\ UNCHANGED <<written, provVars, dbVars, writer, initVars, sender, histVars>>
  BY DEF Tick
<1>2. ConversationTypes'
  BY <1>1, TypesNow DEF ConversationTypes, provVars, dbVars, initVars, histVars
<1>3. \A m \in DOMAIN written : written[m].ts <= clock + 1
  BY TypesNow DEF ConversationInv, Delivered, MessageType
<1>4. Delivered'
  BY <1>1, <1>3 DEF ConversationInv, Delivered, At, provVars
<1>5. RowsKept /\ NoReply /\ clock <= clock' /\ writer' = writer /\ WrittenKept
  BY <1>1, RowsSame, NothingWritten, TypesNow DEF dbVars
<1>6. QED
  BY <1>2, <1>4, <1>5, CalmStep

(* Steps of the provider that leave the database and the writers alone.    *)
LEMMA ProviderStep ==
  ASSUME ConversationInv, UNCHANGED <<clock, written, dbVars, writer, initVars, sender>>,
         pushes' \in Seq(Nat), incoming' \in Seq(Nat), worker' \in Nat, up' \in BOOLEAN,
         hit' \subseteq Nat, faults' \in Nat,
         \A i \in DOMAIN pushes' : pushes'[i] \in DOMAIN written,
         \A i \in DOMAIN incoming' : incoming'[i] \in DOMAIN written,
         worker' = 0 \/ worker' \in DOMAIN written
  PROVE  ConversationInv'
<1>1. ConversationTypes'
  BY TypesNow DEF ConversationTypes, dbVars, initVars
<1>2. Delivered'
  BY DEF ConversationInv, Delivered, At
<1>3. RowsKept /\ NoReply /\ clock <= clock' /\ writer' = writer /\ WrittenKept
  BY RowsSame, TimeStands, NothingWritten DEF dbVars
<1>4. QED
  BY <1>1, <1>2, <1>3, CalmStep

LEMMA DeliveredNow ==
  ASSUME ConversationInv
  PROVE  /\ \A i \in DOMAIN pushes : pushes[i] \in DOMAIN written
         /\ \A i \in DOMAIN incoming : incoming[i] \in DOMAIN written
         /\ worker = 0 \/ worker \in DOMAIN written
         /\ 0 \in Nat /\ \A m \in DOMAIN written : m \in Nat
BY TypesNow DEF ConversationInv, Delivered

LEMMA PushTaken ==
  ASSUME ConversationInv, pushes # <<>>
  PROVE  /\ Tail(pushes) \in Seq(Nat) /\ Head(pushes) \in DOMAIN written /\ Head(pushes) \in Nat
         /\ \A i \in DOMAIN Tail(pushes) : Tail(pushes)[i] \in DOMAIN written
BY TailFacts, TypesNow, DeliveredNow

LEMMA IncomingGrows ==
  ASSUME ConversationInv, NEW m \in DOMAIN written
  PROVE  /\ Append(incoming, m) \in Seq(Nat)
         /\ \A i \in DOMAIN Append(incoming, m) : Append(incoming, m)[i] \in DOMAIN written
<1>1. m \in Nat /\ incoming \in Seq(Nat)
  BY TypesNow
<1>2. /\ Append(incoming, m) \in Seq(Nat)
      /\ \A i \in DOMAIN Append(incoming, m) :
           (i \in DOMAIN incoming /\ Append(incoming, m)[i] = incoming[i]) \/ Append(incoming, m)[i] = m
  BY <1>1, AppendFacts
<1>3. QED
  BY <1>2, DeliveredNow

LEMMA TakePushStep == ASSUME ConversationInv, TakePush PROVE ConversationInv'
<1> DEFINE m == Head(pushes)
<1>1. /\ pushes # <<>> /\ pushes' = Tail(pushes)
      /\ UNCHANGED <<clock, written, up, dbVars, writer, initVars, sender, hit, faults>>
      /\ \/ incoming' = Append(incoming, m) /\ worker' = worker
         \/ incoming' = incoming /\ worker' \in {0, m}
  BY DEF TakePush, histVars
<1>2. /\ pushes' \in Seq(Nat) /\ m \in DOMAIN written
      /\ \A i \in DOMAIN pushes' : pushes'[i] \in DOMAIN written
  BY <1>1, PushTaken
<1> HIDE DEF m
<1>3. incoming' \in Seq(Nat) /\ \A i \in DOMAIN incoming' : incoming'[i] \in DOMAIN written
  BY <1>1, <1>2, IncomingGrows, DeliveredNow, TypesNow
<1>4. worker' \in Nat /\ (worker' = 0 \/ worker' \in DOMAIN written)
  BY <1>1, <1>2, DeliveredNow, TypesNow
<1>5. QED
  BY <1>1, <1>2, <1>3, <1>4, ProviderStep, TypesNow

LEMMA GraceOverStep == ASSUME ConversationInv, GraceOver PROVE ConversationInv'
<1>1. /\ worker # 0 /\ worker' = 0
      /\ UNCHANGED <<clock, written, pushes, up, dbVars, writer, initVars, sender, hit, faults>>
      /\ incoming' = incoming \/ incoming' = Append(incoming, worker)
  BY DEF GraceOver, histVars
<1>2. incoming' \in Seq(Nat) /\ \A i \in DOMAIN incoming' : incoming'[i] \in DOMAIN written
  BY <1>1, IncomingGrows, DeliveredNow, TypesNow
<1>3. QED
  BY <1>1, <1>2, ProviderStep, TypesNow, DeliveredNow

LEMMA PushFailsStep == ASSUME ConversationInv, PushFails PROVE ConversationInv'
<1>1. /\ pushes # <<>> /\ pushes' = Tail(pushes)
      /\ UNCHANGED <<clock, written, worker, incoming, up, dbVars, writer, initVars, sender>>
      /\ faults' = faults + 1 /\ hit' = hit \union {Head(pushes)}
  BY DEF PushFails, Fault
<1>2. /\ pushes' \in Seq(Nat) /\ Head(pushes) \in Nat
      /\ \A i \in DOMAIN pushes' : pushes'[i] \in DOMAIN written
  BY <1>1, PushTaken
<1>3. hit' \subseteq Nat /\ faults' \in Nat
  BY <1>1, <1>2, TypesNow
<1>4. QED
  BY <1>1, <1>2, <1>3, ProviderStep, TypesNow, DeliveredNow

LEMMA LinkChangesStep == ASSUME ConversationInv, LinkChanges PROVE ConversationInv'
<1>1. /\ UNCHANGED <<clock, written, pushes, worker, incoming, dbVars, writer, initVars, sender>>
      /\ up' = ~up
  BY DEF LinkChanges
<1>2. hit' \subseteq Nat /\ faults' \in Nat
  BY TypesNow DEF LinkChanges, Fault, histVars
<1>3. up' \in BOOLEAN
  BY <1>1
<1>4. QED
  BY <1>1, <1>2, <1>3, ProviderStep, TypesNow, DeliveredNow
-----------------------------------------------------------------------------
(* Transactions.                                                           *)

LEMMA GotoFacts ==
  ASSUME ConversationInv, NEW w \in Writers, NEW at \in Stages, Goto(w, at)
  PROVE  /\ writer' \in [Writers -> WriterType]
         /\ writer'[w].at = at /\ writer'[w].id = writer[w].id /\ writer'[w].row = writer[w].row
         /\ \A v \in Writers : v # w => writer'[v] = writer[v]
<1>1. writer' = [writer EXCEPT ![w] = [writer[w] EXCEPT !.at = at]]
  BY DEF Goto
<1>2. [writer[w] EXCEPT !.at = at] \in WriterType
  BY WriterNow DEF WriterType
<1>3. QED
  BY <1>1, <1>2, WriterNow, TypesNow DEF WriterType

LEMMA RestFacts ==
  ASSUME ConversationInv, NEW w \in Writers, Rest(w)
  PROVE  /\ writer' \in [Writers -> WriterType] /\ writer'[w] = Idle /\ writer'[w].at = "idle"
         /\ \A v \in Writers : v # w => writer'[v] = writer[v]
BY TypesNow, IdleTyped DEF Rest, Idle

(* The writer of initiations leaves the pump alone.                        *)
LEMMA TwoWriters == "pump" \in Writers /\ "init" \in Writers /\ \A w \in Writers : w = "pump" \/ w = "init"
BY DEF Writers

Holding == {"contact", "addContact", "dialog", "addDialog", "insert"}

(* What a writer does about its keys.                                      *)
LEMMA KeysFacts ==
  ASSUME ConversationInv, NEW w \in Writers, Keys(w)
  PROVE  /\ RowsKept /\ NoReply /\ contact' \in KeyType /\ dialog' \in KeyType /\ again' \in BOOLEAN
         /\ tasks' = tasks /\ writer' \in [Writers -> WriterType]
         /\ \A v \in Writers : v # w => writer'[v] = writer[v]
         /\ At(w) # "idle"
         /\ w = "pump" => writer'[w].at \in Holding /\ writer'[w].id = writer[w].id
<1> DEFINE Result ==
      /\ RowsKept /\ NoReply /\ contact' \in KeyType /\ dialog' \in KeyType /\ again' \in BOOLEAN
      /\ tasks' = tasks /\ writer' \in [Writers -> WriterType]
      /\ \A v \in Writers : v # w => writer'[v] = writer[v]
      /\ At(w) # "idle"
      /\ w = "pump" => writer'[w].at \in Holding /\ writer'[w].id = writer[w].id
<1>1. Holding \subseteq Stages
  BY DEF Holding, Stages
<1>2. ASSUME NEW at \in Holding, Goto(w, at)
      PROVE  /\ writer' \in [Writers -> WriterType]
             /\ \A v \in Writers : v # w => writer'[v] = writer[v]
             /\ writer'[w].at \in Holding /\ writer'[w].id = writer[w].id
  BY <1>1, <1>2, GotoFacts
<1>3. CASE FindContact(w)
  <2>1. PICK at \in Holding : Goto(w, at)
    BY <1>3 DEF FindContact, Holding
  <2>2. At(w) # "idle" /\ UNCHANGED <<dbVars, again>>
    BY <1>3 DEF FindContact
  <2>3. QED
    BY <1>2, <2>1, <2>2, RowsSame, TypesNow DEF dbVars
<1>4. CASE FindDialog(w)
  <2>1. PICK at \in Holding : Goto(w, at)
    BY <1>4 DEF FindDialog, Holding
  <2>2. At(w) # "idle" /\ UNCHANGED <<dbVars, again>>
    BY <1>4 DEF FindDialog
  <2>3. QED
    BY <1>2, <2>1, <2>2, RowsSame, TypesNow DEF dbVars
<1>5. CASE AddContact(w)
  <2>1. PICK at \in Holding : Goto(w, at)
    BY <1>5 DEF AddContact, Holding
  <2>2. At(w) # "idle" /\ UNCHANGED <<dialog, rows, tasks, again>> /\ contact' = w
    BY <1>5 DEF AddContact
  <2>3. contact' \in KeyType
    BY <2>2 DEF KeyType
  <2>4. QED
    BY <1>2, <2>1, <2>2, <2>3, RowsSame, TypesNow
<1>6. CASE AddDialog(w)
  <2>1. PICK at \in Holding : Goto(w, at)
    BY <1>6 DEF AddDialog, Holding
  <2>2. At(w) # "idle" /\ UNCHANGED <<contact, rows, tasks, again>> /\ dialog' = w
    BY <1>6 DEF AddDialog
  <2>3. dialog' \in KeyType
    BY <2>2 DEF KeyType
  <2>4. QED
    BY <1>2, <2>1, <2>2, <2>3, RowsSame, TypesNow
<1>7. CASE Conflict(w)
  <2>1. RollBack(w) /\ tasks' = tasks /\ At(w) # "idle"
    BY <1>7 DEF Conflict
  <2>2. RowsKept /\ NoReply /\ contact' \in KeyType /\ dialog' \in KeyType
    BY <2>1, RollBackKeeps
  <2>3. CASE w = "pump"
    <3>1. PICK at \in Holding : Goto(w, at)
      BY <1>7, <2>3 DEF Conflict, Holding
    <3>2. again' = again
      BY <1>7, <2>3 DEF Conflict
    <3>3. QED
      BY <1>2, <2>1, <2>2, <3>1, <3>2, TypesNow
  <2>4. CASE w # "pump"
    <3>1. again' = ~again /\ (Rest(w) \/ Goto(w, "contact"))
      BY <1>7, <2>4 DEF Conflict
    <3>2. "contact" \in Holding
      BY DEF Holding
    <3>3. /\ writer' \in [Writers -> WriterType]
          /\ \A v \in Writers : v # w => writer'[v] = writer[v]
      BY <1>2, <3>1, <3>2, RestFacts
    <3>4. again' \in BOOLEAN
      BY <3>1
    <3>5. QED
      BY <2>1, <2>2, <2>4, <3>3, <3>4
  <2>5. QED
    BY <2>3, <2>4
<1>8. QED
  BY <1>3, <1>4, <1>5, <1>6, <1>7 DEF Keys

LEMMA KeysStep == ASSUME ConversationInv, NEW w \in Writers, Keys(w) PROVE ConversationInv'
<1>1. /\ RowsKept /\ NoReply /\ contact' \in KeyType /\ dialog' \in KeyType /\ again' \in BOOLEAN
      /\ tasks' = tasks /\ writer' \in [Writers -> WriterType]
      /\ \A v \in Writers : v # w => writer'[v] = writer[v]
      /\ At(w) # "idle"
      /\ w = "pump" => writer'[w].at \in Holding /\ writer'[w].id = writer[w].id
  BY KeysFacts
<1>2. UNCHANGED <<clock, written, provVars, cmd, sender, histVars>>
  BY DEF Keys
<1>3. ConversationTypes'
  BY <1>1, <1>2, TypesNow DEF ConversationTypes, RowsKept, provVars, histVars
<1>4. WrittenKept /\ clock <= clock'
  BY <1>2, NothingWritten, TimeStands
<1>5. \/ writer'["pump"] = writer["pump"]
      \/ writer'["pump"].at \in Holding /\ writer'["pump"].id = writer["pump"].id /\ At("pump") # "idle"
  BY <1>1, TwoWriters
<1>6. Delivered'
  BY <1>2, <1>5 DEF ConversationInv, Delivered, At, provVars
<1>7. \/ writer'["pump"] = writer["pump"]
      \/ writer'["pump"].at \notin {"commit", "enqueue", "reply"}
  BY <1>5 DEF Holding
<1>8. QED
  BY <1>1, <1>3, <1>4, <1>6, <1>7, CalmStep
-----------------------------------------------------------------------------
(* The pump.                                                               *)

LEMMA HandleStep == ASSUME ConversationInv, Handle PROVE ConversationInv'
<1> DEFINE m == Head(incoming)
<1>1. /\ incoming # <<>> /\ incoming' = Tail(incoming)
      /\ UNCHANGED <<clock, written, pushes, worker, known, up, dbVars, initVars, sender, histVars>>
  BY DEF Handle
<1>2. /\ incoming' \in Seq(Nat) /\ m \in DOMAIN written /\ m \in Nat
      /\ \A i \in DOMAIN incoming' : incoming'[i] \in DOMAIN written
  BY <1>1, TailFacts, TypesNow, DeliveredNow
<1>3. PICK at \in {"contact", "insert", "idle"} :
        writer' = [writer EXCEPT !["pump"] = IF at = "idle" THEN Idle ELSE [at |-> at, id |-> m, row |-> 0]]
  BY DEF Handle
<1> HIDE DEF m
<1>4. /\ writer' \in [Writers -> WriterType]
      /\ writer'["pump"] = IF at = "idle" THEN Idle ELSE [at |-> at, id |-> m, row |-> 0]
  <2>1. (IF at = "idle" THEN Idle ELSE [at |-> at, id |-> m, row |-> 0]) \in WriterType
    BY <1>2, IdleTyped DEF WriterType, Stages
  <2>2. QED
    BY <1>3, <2>1, TypesNow, TwoWriters
<1>5. /\ writer'["pump"].at \in {"contact", "insert", "idle"}
      /\ writer'["pump"].at # "idle" => writer'["pump"].id = m
  BY <1>4 DEF Idle
<1>6. ConversationTypes'
  BY <1>1, <1>2, <1>4, TypesNow DEF ConversationTypes, dbVars, initVars, histVars
<1>7. Delivered'
  BY <1>1, <1>2, <1>5 DEF ConversationInv, Delivered, At
<1>8. RowsKept /\ NoReply /\ WrittenKept /\ clock <= clock'
  BY <1>1, RowsSame, NothingWritten, TimeStands DEF dbVars
<1>9. QED
  BY <1>5, <1>6, <1>7, <1>8, CalmStep

(* Where the pump holds a row, the row comes after every reply.            *)
LEMMA PumpNow ==
  ASSUME ConversationInv
  PROVE  /\ At("pump") \in {"commit", "enqueue", "reply"} =>
              /\ writer["pump"].row \in DOMAIN rows
              /\ rows[writer["pump"].row].dir = IF FromClient(writer["pump"].id) THEN "in" ELSE "out"
              /\ \A j \in DOMAIN rows : rows[j].auto => j < writer["pump"].row
         /\ At("pump") \in {"enqueue", "reply"} => IsRow(writer["pump"].row)
         /\ At("pump") = "reply" => FromClient(writer["pump"].id)
         /\ At("pump") # "idle" => writer["pump"].id \in DOMAIN written
BY DEF ConversationInv, PumpRow, Delivered, At

LEMMA PersistStep == ASSUME ConversationInv, Persist PROVE ConversationInv'
<1> DEFINE m == writer["pump"].id
<1>1. /\ At("pump") = "insert" /\ m \in DOMAIN written /\ m \in Nat
      /\ UNCHANGED <<clock, written, provVars, tasks, initVars, sender, histVars>>
  BY PumpNow, TypesNow DEF Persist
<1>2. CASE Exists(m)
  <2>1. Rest("pump") /\ Commit("pump") /\ rows' = rows
    BY <1>2 DEF Persist
  <2>2. /\ writer' \in [Writers -> WriterType] /\ writer'["pump"].at = "idle"
        /\ contact' \in KeyType /\ dialog' \in KeyType
    BY <2>1, RestFacts, TwoWriters, CommitKeys
  <2>3. ConversationTypes'
    BY <1>1, <2>1, <2>2, TypesNow DEF ConversationTypes, provVars, initVars, histVars
  <2>4. Delivered'
    BY <1>1, <2>2, DeliveredStays DEF provVars
  <2>5. RowsKept /\ NoReply /\ WrittenKept /\ clock <= clock'
    BY <1>1, <2>1, RowsSame, NothingWritten, TimeStands
  <2>6. QED
    BY <2>2, <2>3, <2>4, <2>5, CalmStep
<1>3. CASE ~Exists(m)
  <2> DEFINE n == Len(rows) + 1
  <2>1. /\ rows' = Append(rows, Open(m)) /\ UNCHANGED <<contact, dialog>>
        /\ writer' = [writer EXCEPT !["pump"].at = "commit", !["pump"].row = n]
    BY <1>3 DEF Persist
  <2>2. /\ Open(m) \in RowType /\ ~Open(m).auto
        /\ Open(m).dir = IF FromClient(m) THEN "in" ELSE "out"
    BY <1>1 DEF Open, RowType
  <2>3. n \in Nat
    BY TypesNow
  <2>4. /\ writer' \in [Writers -> WriterType] /\ writer'["pump"].at = "commit"
        /\ writer'["pump"].row = n /\ writer'["pump"].id = m
    BY ZenonT(40), <2>1, <2>3, TypesNow, WriterNow, TwoWriters DEF WriterType, Stages
  <2>5. /\ RowsKept /\ NoReply /\ n \in DOMAIN rows' /\ rows'[n] = Open(m)
        /\ \A i \in DOMAIN rows : i < n /\ rows'[i] = rows[i]
        /\ \A i \in DOMAIN rows' : i \in DOMAIN rows \/ i = n
    BY <2>1, <2>2, RowAppended
  <2> HIDE DEF n, m
  <2>6. ConversationTypes'
    BY <1>1, <2>1, <2>4, <2>5, TypesNow DEF ConversationTypes, RowsKept, provVars, initVars, histVars
  <2>7. Delivered'
    BY <1>1, <2>4 DEF ConversationInv, Delivered, At, provVars
  <2>8. PumpRow'
    <3>1. rows'[n].dir = IF FromClient(m)' THEN "in" ELSE "out"
      BY <1>1, <2>2, <2>4, <2>5 DEF FromClient, m
    <3>2. \A j \in DOMAIN rows' : rows'[j].auto => j < n
      BY <2>2, <2>5
    <3>3. QED
      BY <1>1, <2>2, <2>4, <2>5, <3>2 DEF PumpRow, FromClient
  <2>9. RepliesFollow' /\ RepliesApart'
    BY <1>1, <2>5, TimeStands, TypesNow, RepliesStay
  <2>10. QED
    BY <2>6, <2>7, <2>8, <2>9 DEF ConversationInv
<1>4. QED
  BY <1>2, <1>3

LEMMA PersistedStep == ASSUME ConversationInv, Persisted PROVE ConversationInv'
<1> DEFINE k == writer["pump"].row
<1> DEFINE x == [rows[k] EXCEPT !.state = "row"]
<1>1. /\ At("pump") = "commit" /\ Commit("pump") /\ Goto("pump", "enqueue")
      /\ rows' = [rows EXCEPT ![k] = x]
      /\ UNCHANGED <<clock, written, provVars, tasks, initVars, sender, histVars>>
  BY DEF Persisted
<1>2. /\ k \in DOMAIN rows /\ rows[k] \in RowType
      /\ rows[k].dir = IF FromClient(writer["pump"].id) THEN "in" ELSE "out"
      /\ \A j \in DOMAIN rows : rows[j].auto => j < k
  BY <1>1, PumpNow, TypesNow
<1>3. /\ x \in RowType /\ x.dir = rows[k].dir /\ x.auto = rows[k].auto /\ x.ts = rows[k].ts /\ x.state = "row"
  BY <1>2 DEF RowType
<1> HIDE DEF x
<1>4. RowsKept /\ NoReply
  BY <1>1, <1>2, <1>3, RowChanged
<1>5. "enqueue" \in Stages
  BY DEF Stages
<1>6. /\ writer' \in [Writers -> WriterType] /\ writer'["pump"].at = "enqueue"
      /\ writer'["pump"].id = writer["pump"].id /\ writer'["pump"].row = k
      /\ contact' \in KeyType /\ dialog' \in KeyType
  BY <1>1, <1>5, GotoFacts, TwoWriters, CommitKeys
<1>7. ConversationTypes'
  BY <1>1, <1>4, <1>6, TypesNow DEF ConversationTypes, RowsKept, provVars, initVars, histVars
<1>8. Delivered'
  BY <1>1, <1>6, DeliveredStays DEF provVars
<1>9. PumpRow'
  <2>1. k \in DOMAIN rows' /\ rows'[k] = x /\ DOMAIN rows' = DOMAIN rows
    BY <1>1, <1>2
  <2>2. \A j \in DOMAIN rows' : rows'[j].auto => j < k
    BY <1>2, <1>4, <2>1 DEF RowsKept
  <2> HIDE DEF k
  <2>3. QED
    BY <1>1, <1>2, <1>3, <1>6, <2>1, <2>2 DEF PumpRow, IsRow, FromClient
<1>10. RepliesFollow' /\ RepliesApart'
  BY <1>1, <1>4, TimeStands, TypesNow, RepliesStay
<1>11. QED
  BY <1>7, <1>8, <1>9, <1>10 DEF ConversationInv

LEMMA EnqueueTaskStep == ASSUME ConversationInv, EnqueueTask PROVE ConversationInv'
<1> DEFINE t == writer["pump"]
<1>1. /\ At("pump") = "enqueue" /\ UNCHANGED <<clock, written, provVars, contact, dialog, rows, initVars, sender>>
      /\ IF FromClient(t.id) THEN Goto("pump", "reply") ELSE Rest("pump")
  BY DEF EnqueueTask
<1>2. t.row \in Nat /\ t.id \in Nat
  BY WriterNow, TwoWriters
<1>3. tasks' \subseteq Nat /\ hit' \subseteq Nat /\ faults' \in Nat
  BY SMTT(30), <1>2, TypesNow DEF EnqueueTask, Fault, histVars
<1>4. "reply" \in Stages
  BY DEF Stages
<1>5. /\ writer' \in [Writers -> WriterType]
      /\ \/ writer'["pump"].at = "idle"
         \/ /\ FromClient(t.id) /\ writer'["pump"].at = "reply"
            /\ writer'["pump"].id = t.id /\ writer'["pump"].row = t.row
  BY <1>1, <1>4, GotoFacts, RestFacts, TwoWriters
<1>6. ConversationTypes'
  BY <1>1, <1>3, <1>5, TypesNow DEF ConversationTypes, provVars, initVars
<1>7. Delivered'
  BY <1>1, <1>5, DeliveredStays DEF provVars
<1>8. PumpRow'
  <2>1. CASE writer'["pump"].at = "idle"
    BY <2>1, PumpAtNoRow
  <2>2. CASE writer'["pump"].at # "idle"
    BY <1>1, <1>5, <2>2, PumpNow DEF PumpRow, IsRow, FromClient
  <2>3. QED
    BY <2>1, <2>2
<1>9. RepliesFollow' /\ RepliesApart'
  BY <1>1, RowsSame, TimeStands, TypesNow, RepliesStay
<1>10. QED
  BY <1>6, <1>7, <1>8, <1>9 DEF ConversationInv

LEMMA HandlerFailsStep == ASSUME ConversationInv, HandlerFails PROVE ConversationInv'
<1>1. /\ RollBack("pump") /\ Rest("pump")
      /\ UNCHANGED <<clock, written, provVars, tasks, initVars, sender>>
  BY DEF HandlerFails
<1>2. hit' \subseteq Nat /\ faults' \in Nat
  BY TypesNow, WriterNow, TwoWriters DEF HandlerFails, Fault
<1>3. RowsKept /\ NoReply /\ contact' \in KeyType /\ dialog' \in KeyType
  BY <1>1, RollBackKeeps, TwoWriters
<1>4. writer' \in [Writers -> WriterType] /\ writer'["pump"].at = "idle"
  BY <1>1, RestFacts, TwoWriters
<1>5. ConversationTypes'
  BY <1>1, <1>2, <1>3, <1>4, TypesNow DEF ConversationTypes, RowsKept, provVars, initVars
<1>6. Delivered'
  BY <1>1, <1>4, DeliveredStays DEF provVars
<1>7. WrittenKept /\ clock <= clock'
  BY <1>1, NothingWritten, TimeStands
<1>8. QED
  BY <1>3, <1>4, <1>5, <1>6, <1>7, CalmStep
-----------------------------------------------------------------------------
(* AutoReplier.                                                            *)

Below == {ss \in Nat \X Nat : ss[1] < ss[2]}

LEMMA BelowWellFounded == IsWellFoundedOn(Below, Nat)
BY NatLessThanWellFounded DEF OpToRel, Below

(* The greatest is the one that is least far from the end.                 *)
LEMMA GreatestOf ==
  ASSUME NEW n \in Nat, NEW S \in SUBSET (1..n), S # {}
  PROVE  \E c \in S : \A d \in S : d <= c
<1> DEFINE T == {k \in Nat : k <= n /\ n - k \in S}
<1>1. PICK c \in S : TRUE
  OBVIOUS
<1>2. n - c \in T /\ T \subseteq Nat
  OBVIOUS
<1> HIDE DEF T
<1>3. PICK m \in T : \A k \in T : ~(<<k, m>> \in Below)
  BY <1>2, BelowWellFounded, WFMin
<1>4. m \in Nat /\ m <= n /\ n - m \in S
  BY <1>3 DEF T
<1>5. ASSUME NEW d \in S PROVE d <= n - m
  <2>1. n - d \in T /\ n - d \in Nat /\ d \in 1..n
    BY DEF T
  <2>2. ~(n - d < m)
    BY <1>3, <1>4, <2>1 DEF Below
  <2>3. QED
    BY <1>4, <2>1, <2>2
<1>6. QED
  BY <1>4, <1>5

LEMMA LastRowIsLast ==
  ASSUME ConversationInv, NEW S \in SUBSET DOMAIN rows, S # {}
  PROVE  /\ LastRow(S) \in S /\ LastRow(S) \in Nat /\ LastRow(S) # 0
         /\ \A i \in S : i <= LastRow(S)
<1>1. \E c \in S : \A d \in S : d <= c
  BY TypesNow, GreatestOf
<1>2. LastRow(S) \in S /\ \A i \in S : i <= LastRow(S)
  BY <1>1 DEF LastRow
<1>3. QED
  BY <1>2, TypesNow

(* What pick_reply has looked at keeps the replies apart.                  *)
LEMMA PickedIsDue ==
  ASSUME ConversationInv, At("pump") = "reply",
         Picked(writer["pump"].row, written[writer["pump"].id].ts),
         NEW i \in DOMAIN rows, rows[i].auto
  PROVE  clock >= rows[i].ts + DedupTicks
<1> DEFINE r == writer["pump"].row
<1> DEFINE ts == written[writer["pump"].id].ts
<1>1. ts \in Nat /\ ts <= clock /\ i < r /\ r \in DOMAIN rows /\ r \in Nat
  BY PumpNow, TypesNow DEF MessageType, ConversationInv, Delivered
<1>2. IsRow(i) /\ rows[i].ts \in Nat /\ i \in Nat /\ clock \in Nat /\ DedupTicks \in Nat
  BY TypesNow, ConversationAssumption DEF ConversationInv, RepliesFollow, RowType
<1>3. CASE ts \notin WorkTicks
  <2> DEFINE S == {j \in Visible : rows[j].auto}
  <2> DEFINE l == LastAutoreply
  <2>1. S \in SUBSET DOMAIN rows /\ i \in S
    BY <1>2 DEF Visible
  <2>2. l \in S /\ l \in Nat /\ l # 0 /\ i <= l
    BY <2>1, LastRowIsLast DEF LastAutoreply
  <2>3. rows[l].auto /\ IsRow(l) /\ l \in DOMAIN rows /\ rows[l].ts \in Nat
    BY <2>2, TypesNow DEF Visible, RowType
  <2> HIDE DEF S, l
  <2>4. rows[l].ts >= rows[i].ts
    BY <1>2, <2>2, <2>3 DEF ConversationInv, RepliesApart
  <2>5. ~Recent(ts)
    BY <1>3 DEF Picked
  <2>6. ~(ts < rows[l].ts + DedupTicks)
    BY <2>2, <2>5 DEF Recent, l
  <2> HIDE DEF ts
  <2>7. QED
    BY <1>1, <1>2, <2>3, <2>4, <2>6
<1>4. CASE ts \in WorkTicks
  <2> DEFINE S == {j \in Visible : rows[j].dir = "in" /\ j < r}
  <2>1. PrevInbound(r) = 0
    BY <1>4 DEF Picked
  <2>2. PICK k \in DOMAIN rows : k < i /\ IsRow(k) /\ rows[k].dir = "in"
    BY DEF ConversationInv, RepliesFollow
  <2>3. k < r
    BY <1>1, <1>2, <2>2, TypesNow
  <2>4. S \in SUBSET DOMAIN rows /\ k \in S
    BY <2>2, <2>3 DEF Visible
  <2>5. LastRow(S) # 0
    BY <2>4, LastRowIsLast
  <2>6. QED
    BY <2>1, <2>5 DEF PrevInbound
<1>5. QED
  BY <1>3, <1>4

LEMMA AutoreplyStep == ASSUME ConversationInv, Autoreply PROVE ConversationInv'
<1> DEFINE t == writer["pump"]
<1>1. /\ At("pump") = "reply" /\ Rest("pump")
      /\ UNCHANGED <<clock, written, provVars, contact, dialog, tasks, initVars, sender, histVars>>
  BY DEF Autoreply
<1>2. writer' \in [Writers -> WriterType] /\ writer'["pump"].at = "idle"
  BY <1>1, RestFacts, TwoWriters
<1>3. Delivered' /\ PumpRow' /\ WrittenKept /\ clock <= clock'
  BY <1>1, <1>2, DeliveredStays, PumpAtNoRow, NothingWritten, TimeStands DEF provVars
<1>4. CASE ~Picked(t.row, written[t.id].ts)
  <2>1. rows' = rows
    BY <1>4 DEF Autoreply
  <2>2. ConversationTypes'
    BY <1>1, <1>2, <2>1, TypesNow DEF ConversationTypes, provVars, initVars, histVars
  <2>3. QED
    BY <1>2, <1>3, <2>1, <2>2, RowsSame, CalmStep
<1>5. CASE Picked(t.row, written[t.id].ts)
  <2> DEFINE x == Stored(0, TRUE, "pending")
  <2> DEFINE n == Len(rows) + 1
  <2>1. rows' = Append(rows, x)
    BY <1>5 DEF Autoreply
  <2>2. x \in RowType /\ x.auto /\ x.ts = clock /\ x.state = "row"
    BY TypesNow DEF Stored, RowType
  <2> HIDE DEF x
  <2>3. /\ RowsKept /\ n \in DOMAIN rows' /\ rows'[n] = x
        /\ \A i \in DOMAIN rows : i < n /\ rows'[i] = rows[i]
        /\ \A i \in DOMAIN rows' : i \in DOMAIN rows \/ i = n
    BY <2>1, <2>2, RowAppended
  <2> HIDE DEF n
  <2>4. ConversationTypes'
    BY <1>1, <1>2, <2>3, TypesNow DEF ConversationTypes, RowsKept, provVars, initVars, histVars
  <2>5. t.row \in DOMAIN rows /\ IsRow(t.row) /\ rows[t.row].dir = "in"
    BY <1>1, PumpNow
  <2>6. RepliesFollow'
    <3>1. SUFFICES ASSUME NEW j \in DOMAIN rows', rows'[j].auto
                   PROVE  /\ rows'[j].state = "row" /\ rows'[j].ts <= clock
                          /\ \E i \in DOMAIN rows' : i < j /\ rows'[i].state = "row" /\ rows'[i].dir = "in"
      BY <1>1 DEF RepliesFollow, IsRow
    <3>2. CASE j = n
      <4>1. t.row \in DOMAIN rows' /\ t.row < n /\ rows'[t.row] = rows[t.row] /\ clock <= clock
        BY <2>3, <2>5, TypesNow DEF RowsKept
      <4>2. QED
        BY <2>2, <2>3, <2>5, <3>2, <4>1 DEF IsRow
    <3>3. CASE j # n
      <4>1. j \in DOMAIN rows /\ rows'[j] = rows[j]
        BY <2>3, <3>3
      <4>2. /\ rows[j].state = "row" /\ rows[j].ts <= clock
            /\ \E i \in DOMAIN rows : i < j /\ rows[i].state = "row" /\ rows[i].dir = "in"
        BY <3>1, <4>1 DEF ConversationInv, RepliesFollow, IsRow
      <4>3. QED
        BY <2>3, <4>1, <4>2 DEF RowsKept
    <3>4. QED
      BY <3>2, <3>3
  <2>7. RepliesApart'
    <3>1. SUFFICES ASSUME NEW i \in DOMAIN rows', NEW j \in DOMAIN rows', i < j,
                          rows'[i].state = "row", rows'[j].state = "row", rows'[i].auto, rows'[j].auto
                   PROVE  rows'[j].ts >= rows'[i].ts + DedupTicks
      BY DEF RepliesApart, IsRow
    <3>2. i \in DOMAIN rows /\ rows'[i] = rows[i]
      <4>1. j \in Nat /\ n \in Nat /\ i \in Nat /\ j <= n
        BY <2>3, TypesNow DEF n
      <4>2. QED
        BY <2>3, <3>1, <4>1
    <3>3. CASE j = n
      BY <1>1, <1>5, <2>2, <2>3, <3>1, <3>2, <3>3, PickedIsDue
    <3>4. CASE j # n
      <4>1. j \in DOMAIN rows /\ rows'[j] = rows[j]
        BY <2>3, <3>4
      <4>2. QED
        BY <3>1, <3>2, <4>1 DEF ConversationInv, RepliesApart, IsRow
    <3>5. QED
      BY <3>3, <3>4
  <2>8. QED
    BY <1>3, <2>4, <2>6, <2>7 DEF ConversationInv
<1>6. QED
  BY <1>4, <1>5
-----------------------------------------------------------------------------
(* Initiations, the panel and the outbox.                                  *)

(* Steps that leave what is on its way, and the pump, alone.               *)
LEMMA BesideThePump ==
  ASSUME ConversationInv, UNCHANGED <<clock, written, provVars, tasks>>, RowsKept, NoReply,
         contact' \in KeyType, dialog' \in KeyType, writer' \in [Writers -> WriterType],
         writer'["pump"] = writer["pump"],
         cmd' \in CmdType, again' \in BOOLEAN, sender' \in SenderType,
         hit' \subseteq Nat, faults' \in Nat
  PROVE  ConversationInv'
<1>1. ConversationTypes'
  BY TypesNow DEF ConversationTypes, RowsKept, provVars
<1>2. Delivered'
  BY DEF ConversationInv, Delivered, At, provVars
<1>3. WrittenKept /\ clock <= clock'
  BY NothingWritten, TimeStands
<1>4. QED
  BY <1>1, <1>2, <1>3, CalmStep

(* A fault that touches none of the messages, or the one of a send.        *)
LEMMA FaultTyped ==
  ASSUME ConversationInv, NEW S, S \subseteq Nat, Fault(S)
  PROVE  hit' \subseteq Nat /\ faults' \in Nat
<1>1. hit' = hit \union S /\ faults' = faults + 1
  BY DEF Fault
<1>2. hit \subseteq Nat /\ faults \in Nat
  BY TypesNow
<1>3. QED
  BY <1>1, <1>2

LEMMA CommandStep ==
  ASSUME ConversationInv,
         Initiate \/ OfflineTooLong \/ Resolve \/ NotFound \/ ResolveFails
  PROVE  ConversationInv'
<1>1. UNCHANGED <<clock, written, provVars, dbVars, sender>>
  BY DEF Initiate, OfflineTooLong, Resolve, NotFound, ResolveFails
<1>2. writer' \in [Writers -> WriterType] /\ writer'["pump"] = writer["pump"]
  <2>1. CASE Resolve
    <3>1. "contact" \in Stages /\ Goto("init", "contact") /\ "init" # "pump"
      BY <2>1 DEF Stages, Resolve
    <3>2. QED
      BY <3>1, GotoFacts, TwoWriters
  <2>2. CASE ~Resolve
    BY <2>2, TypesNow DEF Initiate, OfflineTooLong, NotFound, ResolveFails
  <2>3. QED
    BY <2>1, <2>2
<1>3. cmd' \in CmdType /\ again' \in BOOLEAN
  <2>1. clock \in Nat /\ cmd \in CmdType /\ again \in BOOLEAN
    BY TypesNow
  <2>2. CASE Initiate
    BY <2>1, <2>2 DEF CmdType, Initiate
  <2>3. CASE OfflineTooLong \/ NotFound
    BY <2>1, <2>3 DEF CmdType, OfflineTooLong, NotFound
  <2>4. CASE Resolve
    BY <2>1, <2>4 DEF Resolve
  <2>5. CASE ResolveFails
    <3>1. again' = again
      BY <2>5 DEF ResolveFails
    <3>2. cmd' = [cmd EXCEPT !.status = "failed"] \/ cmd' = [cmd EXCEPT !.attempts = cmd.attempts + 1]
      BY <2>5 DEF ResolveFails
    <3>3. QED
      BY <2>1, <3>1, <3>2 DEF CmdType
  <2>6. QED
    BY <2>2, <2>3, <2>4, <2>5
<1>4. hit' \subseteq Nat /\ faults' \in Nat
  <2>1. CASE ResolveFails
    <3>1. Fault({})
      BY <2>1 DEF ResolveFails
    <3>2. QED
      BY <3>1, FaultTyped
  <2>2. CASE ~ResolveFails
    BY <2>2, TypesNow DEF Initiate, OfflineTooLong, Resolve, NotFound, histVars
  <2>3. QED
    BY <2>1, <2>2
<1>5. RowsKept /\ NoReply
  BY <1>1, RowsSame DEF dbVars
<1>6. QED
  BY <1>1, <1>2, <1>3, <1>4, <1>5, TypesNow, BesideThePump DEF dbVars

LEMMA OwnRow ==
  ASSUME ConversationInv, rows' = Append(rows, Stored(0, FALSE, "pending"))
  PROVE  RowsKept /\ NoReply
<1> DEFINE x == Stored(0, FALSE, "pending")
<1>1. x \in RowType /\ ~x.auto /\ rows' = Append(rows, x)
  BY DEF Stored, RowType
<1> HIDE DEF x
<1>2. QED
  BY <1>1, RowAppended

LEMMA LinkedStep == ASSUME ConversationInv, Linked PROVE ConversationInv'
<1>1. /\ Rest("init") /\ Commit("init") /\ rows' = Append(rows, Stored(0, FALSE, "pending"))
      /\ cmd' = [cmd EXCEPT !.status = "linked"]
      /\ UNCHANGED <<clock, written, provVars, tasks, again, sender, histVars>>
  BY DEF Linked
<1>2. /\ writer' \in [Writers -> WriterType] /\ writer'["pump"] = writer["pump"]
      /\ contact' \in KeyType /\ dialog' \in KeyType
  BY <1>1, RestFacts, CommitKeys, TwoWriters
<1>3. cmd' \in CmdType
  BY <1>1, TypesNow DEF CmdType
<1>4. QED
  BY <1>1, <1>2, <1>3, OwnRow, TypesNow, BesideThePump DEF histVars

LEMMA ApplyFailsStep == ASSUME ConversationInv, ApplyFails PROVE ConversationInv'
<1>1. /\ Fault({}) /\ RollBack("init") /\ Rest("init")
      /\ UNCHANGED <<clock, written, provVars, tasks, initVars, sender>>
  BY DEF ApplyFails
<1>2. writer' \in [Writers -> WriterType] /\ writer'["pump"] = writer["pump"]
  BY <1>1, RestFacts, TwoWriters
<1>3. RowsKept /\ NoReply /\ contact' \in KeyType /\ dialog' \in KeyType
  BY <1>1, RollBackKeeps, TwoWriters
<1>4. hit' \subseteq Nat /\ faults' \in Nat
  BY <1>1, FaultTyped
<1>5. QED
  BY <1>1, <1>2, <1>3, <1>4, TypesNow, BesideThePump DEF initVars

LEMMA PanelSendsStep == ASSUME ConversationInv, PanelSends PROVE ConversationInv'
<1>1. /\ rows' = Append(rows, Stored(0, FALSE, "pending"))
      /\ UNCHANGED <<clock, written, provVars, contact, dialog, tasks, writer, initVars, sender, histVars>>
  BY DEF PanelSends
<1>2. QED
  BY <1>1, OwnRow, TypesNow, BesideThePump DEF initVars, histVars

LEMMA SendStep == ASSUME ConversationInv, Send PROVE ConversationInv'
<1>1. /\ Write("us") /\ UNCHANGED <<clock, worker, known, incoming, up, dbVars, writer, initVars, histVars>>
      /\ \E i \in DOMAIN rows : sender' = [at |-> "asked", row |-> i, ext |-> Len(written) + 1]
  BY DEF Send
<1>2. /\ written' \in Seq(MessageType) /\ pushes' \in Seq(Nat) /\ WrittenKept
      /\ \A m \in DOMAIN written' : written'[m].ts <= clock
      /\ \A i \in DOMAIN pushes' : pushes'[i] \in DOMAIN written'
      /\ Len(written) + 1 \in Nat /\ \A m \in DOMAIN written : m \in DOMAIN written'
  BY <1>1, WriteKeeps
<1>3. sender' \in SenderType
  BY <1>1, <1>2, TypesNow DEF SenderType
<1>4. ConversationTypes'
  BY <1>1, <1>2, <1>3, TypesNow DEF ConversationTypes, dbVars, initVars, histVars
<1>5. Delivered'
  BY <1>1, <1>2 DEF ConversationInv, Delivered, At
<1>6. RowsKept /\ NoReply /\ clock <= clock' /\ writer' = writer
  BY <1>1, RowsSame, TimeStands DEF dbVars
<1>7. QED
  BY <1>2, <1>4, <1>5, <1>6, CalmStep

LEMMA AnswerStep == ASSUME ConversationInv, Answer PROVE ConversationInv'
<1>1. /\ sender' = [sender EXCEPT !.at = "answered"]
      /\ UNCHANGED <<clock, written, pushes, worker, incoming, up, dbVars, writer, initVars, histVars>>
  BY DEF Answer
<1>2. sender' \in SenderType
  BY <1>1, TypesNow DEF SenderType
<1>3. ConversationTypes'
  BY <1>1, <1>2, TypesNow DEF ConversationTypes, dbVars, initVars, histVars
<1>4. Delivered'
  BY <1>1 DEF ConversationInv, Delivered, At
<1>5. RowsKept /\ NoReply /\ clock <= clock' /\ writer' = writer /\ WrittenKept
  BY <1>1, RowsSame, TimeStands, NothingWritten DEF dbVars
<1>6. QED
  BY <1>3, <1>4, <1>5, CalmStep

LEMMA MarkSentStep == ASSUME ConversationInv, MarkSent PROVE ConversationInv'
<1> DEFINE k == sender.row
<1>1. /\ rows' = [rows EXCEPT ![k] = [[@ EXCEPT !.out = "sent"] EXCEPT !.ext = sender.ext]]
      /\ sender' = Resting
      /\ UNCHANGED <<clock, written, provVars, contact, dialog, tasks, writer, initVars, histVars>>
  BY DEF MarkSent
<1>2. RowsKept /\ NoReply
  <2>1. CASE k \in DOMAIN rows
    <3> DEFINE x == [[rows[k] EXCEPT !.out = "sent"] EXCEPT !.ext = sender.ext]
    <3>1. rows[k] \in RowType /\ sender.ext \in Nat
      BY <2>1, TypesNow DEF SenderType
    <3>2. /\ x \in RowType /\ x.dir = rows[k].dir /\ x.auto = rows[k].auto /\ x.ts = rows[k].ts
          /\ x.state = rows[k].state
      BY <3>1 DEF RowType
    <3>3. rows' = [rows EXCEPT ![k] = x]
      BY <1>1
    <3> HIDE DEF x
    <3>4. QED
      BY <3>2, <3>3, RowChanged
  <2>2. CASE k \notin DOMAIN rows
    <3> DEFINE x == [[rows[k] EXCEPT !.out = "sent"] EXCEPT !.ext = sender.ext]
    <3>1. rows' = [rows EXCEPT ![k] = x]
      BY <1>1
    <3> HIDE DEF x
    <3>2. rows' = [i \in DOMAIN rows |-> rows[i]]
      BY <2>2, <3>1
    <3>3. rows = [i \in DOMAIN rows |-> rows[i]]
      BY TypesNow
    <3>4. QED
      BY <3>2, <3>3, RowsSame
  <2>3. QED
    BY <2>1, <2>2
<1>3. QED
  BY <1>1, <1>2, TypesNow, IdleTyped, BesideThePump DEF initVars, histVars

LEMMA AnswerLostStep == ASSUME ConversationInv, AnswerLost PROVE ConversationInv'
<1>1. /\ Fault({sender.ext}) /\ sender' = Resting
      /\ UNCHANGED <<clock, written, provVars, dbVars, writer, initVars>>
  BY DEF AnswerLost
<1>2. {sender.ext} \subseteq Nat
  BY TypesNow DEF SenderType
<1>3. hit' \subseteq Nat /\ faults' \in Nat
  BY <1>1, <1>2, FaultTyped
<1>4. QED
  BY <1>1, <1>3, RowsSame, TypesNow, IdleTyped, BesideThePump DEF dbVars, initVars

-----------------------------------------------------------------------------
(* The process dies.                                                       *)

LEMMA CrashStep == ASSUME ConversationInv, Crash PROVE ConversationInv'
<1>1. /\ Fault(InFlight)
      /\ pushes' = <<>> /\ worker' = 0 /\ known' = <<>> /\ incoming' = <<>>
      /\ rows' = [i \in DOMAIN rows |->
                   IF ~IsRow(i) THEN [rows[i] EXCEPT !.state = "void"] ELSE rows[i]]
      /\ contact' = IF contact = "row" THEN contact ELSE "free"
      /\ dialog' = IF dialog = "row" THEN dialog ELSE "free"
      /\ writer' = [w \in Writers |-> Idle]
      /\ sender' = Resting
      /\ UNCHANGED <<clock, written, up, tasks, initVars>>
  BY DEF Crash
<1>2. InFlight \subseteq Nat
  <2>1. \A i \in DOMAIN pushes : pushes[i] \in Nat
    BY TypesNow, SeqFacts
  <2>2. \A i \in DOMAIN incoming : incoming[i] \in Nat
    BY TypesNow, SeqFacts
  <2>3. worker \in Nat /\ writer["pump"].id \in Nat /\ sender.ext \in Nat
    BY TypesNow, WriterNow, TwoWriters DEF SenderType
  <2>4. QED
    BY <2>1, <2>2, <2>3 DEF InFlight
<1>3. hit' \subseteq Nat /\ faults' \in Nat
  BY <1>1, <1>2, FaultTyped
<1>4. RowsKept /\ NoReply
  <2> DEFINE V == DOMAIN rows
  <2>1. rows' = [i \in DOMAIN rows |->
                  IF i \in V /\ ~IsRow(i) THEN [rows[i] EXCEPT !.state = "void"] ELSE rows[i]]
    BY <1>1
  <2>2. QED
    BY <2>1, RowsVoided
<1>5. contact' \in KeyType /\ dialog' \in KeyType
  BY <1>1 DEF KeyType
<1>6. writer' \in [Writers -> WriterType] /\ writer'["pump"].at = "idle"
  BY <1>1, IdleTyped, TwoWriters DEF Idle
<1>7. pushes' \in Seq(Nat) /\ incoming' \in Seq(Nat) /\ DOMAIN pushes' = {} /\ DOMAIN incoming' = {}
  BY <1>1
<1>8. ConversationTypes'
  BY <1>1, <1>3, <1>4, <1>5, <1>6, <1>7, IdleTyped, TypesNow DEF ConversationTypes, RowsKept, initVars
<1>9. Delivered'
  BY <1>1, <1>6, <1>7 DEF ConversationInv, Delivered, At
<1>10. WrittenKept /\ clock <= clock'
  BY <1>1, NothingWritten, TimeStands
<1>11. QED
  BY <1>4, <1>6, <1>8, <1>9, <1>10, CalmStep

-----------------------------------------------------------------------------
(* The invariant.                                                          *)

LEMMA InitInv == Init => ConversationInv
<1> SUFFICES ASSUME Init PROVE ConversationInv
  OBVIOUS
<1>1. /\ writer["pump"] = Idle /\ writer \in [Writers -> WriterType]
  BY TwoWriters, IdleTyped DEF Init
<1>2. ConversationTypes
  <2>1. clock \in Nat /\ written \in Seq(MessageType) /\ worker \in Nat /\ up \in BOOLEAN
    BY DEF Init
  <2>2. pushes \in Seq(Nat) /\ incoming \in Seq(Nat) /\ rows \in Seq(RowType)
    BY DEF Init
  <2>3. contact \in KeyType /\ dialog \in KeyType /\ cmd \in CmdType /\ again \in BOOLEAN
    BY DEF Init, KeyType, CmdType
  <2>4. tasks \subseteq Nat /\ hit \subseteq Nat /\ faults \in Nat /\ sender \in SenderType
    BY IdleTyped DEF Init
  <2>5. QED
    BY <1>1, <2>1, <2>2, <2>3, <2>4 DEF ConversationTypes
<1>3. /\ DOMAIN written = {} /\ DOMAIN pushes = {} /\ DOMAIN incoming = {} /\ DOMAIN rows = {}
      /\ worker = 0 /\ writer["pump"].at = "idle"
  BY <1>1 DEF Init, Idle
<1>4. Delivered /\ PumpRow /\ RepliesFollow /\ RepliesApart
  BY <1>3 DEF Delivered, PumpRow, RepliesFollow, RepliesApart, At
<1>5. QED
  BY <1>2, <1>4 DEF ConversationInv

LEMMA StutterStep == ASSUME ConversationInv, UNCHANGED vars PROVE ConversationInv'
BY DEF ConversationInv, ConversationTypes, Delivered, PumpRow, RepliesFollow, RepliesApart, At, IsRow,
       FromClient, vars, provVars, dbVars, initVars, histVars

LEMMA NextInv == ASSUME ConversationInv, [Next]_vars PROVE ConversationInv'
<1>1. CASE ClientOrPhoneWrites
  BY <1>1, WritesStep
<1>2. CASE Redeliver \/ Tick \/ LinkChanges
  BY <1>2, RedeliverStep, TickStep, LinkChangesStep
<1>3. CASE Provider \/ PushFails
  BY <1>3, TakePushStep, GraceOverStep, PushFailsStep DEF Provider
<1>4. CASE Keys("pump") \/ Keys("init")
  BY <1>4, KeysStep, TwoWriters
<1>5. CASE Handle \/ Persist \/ Persisted
  BY <1>5, HandleStep, PersistStep, PersistedStep
<1>6. CASE EnqueueTask \/ Autoreply \/ HandlerFails
  BY <1>6, EnqueueTaskStep, AutoreplyStep, HandlerFailsStep
<1>7. CASE Initiate \/ OfflineTooLong \/ Resolve \/ NotFound \/ ResolveFails
  BY <1>7, CommandStep
<1>8. CASE Linked \/ ApplyFails \/ PanelSends
  BY <1>8, LinkedStep, ApplyFailsStep, PanelSendsStep
<1>9. CASE Send \/ Answer \/ MarkSent \/ AnswerLost
  BY <1>9, SendStep, AnswerStep, MarkSentStep, AnswerLostStep
<1>10. CASE Crash
  BY <1>10, CrashStep
<1>11. CASE UNCHANGED vars
  BY <1>11, StutterStep
<1>12. QED
  BY <1>1, <1>2, <1>3, <1>4, <1>5, <1>6, <1>7, <1>8, <1>9, <1>10, <1>11 DEF Next, Pump, Apply

(* Automatic replies to a client are DEDUP apart by their stored times,    *)
(* and each follows a visible message of his, however the handler, the     *)
(* panel, initiations, faults and crashes come in between.                 *)
THEOREM ConversationInvariant == Spec => []ConversationInv
<1>1. Init => ConversationInv
  BY InitInv
<1>2. ConversationInv /\ [Next]_vars => ConversationInv'
  BY NextInv
<1>3. QED
  BY <1>1, <1>2, PTL DEF Spec

(* OFFHOURS_DEDUP_SEC: two automatic replies of a dialog are at least that *)
(* far apart, also when the clock passes into the working hours and back.  *)
THEOREM AutorepliesAreApart == Spec => []RepliesApart
<1>1. ConversationInv => RepliesApart
  BY DEF ConversationInv
<1>2. QED
  BY <1>1, ConversationInvariant, PTL
-----------------------------------------------------------------------------
(* Where a message of the messenger is, in the order of its way.           *)

Live(i)   == rows[i].state # "void"
Has(m)    == \E i \in DOMAIN rows : Live(i) /\ rows[i].ext = m
InPump(m) == At("pump") \in Holding /\ writer["pump"].id = m
Waits(m)  == \E k \in DOMAIN incoming : incoming[k] = m
Pushed(m) == \E k \in DOMAIN pushes : pushes[k] = m
Ours(m)   == written[m].from = "us"

RowsHold ==
  /\ \A i \in DOMAIN rows :
       /\ rows[i].ext # 0 => rows[i].ext \in DOMAIN written
       /\ rows[i].dir = "in" => rows[i].ext # 0 /\ FromClient(rows[i].ext)
       /\ rows[i].out = "pending" => rows[i].ext = 0
       /\ rows[i].state = "open" => At("pump") = "commit" /\ writer["pump"].row = i
  /\ At("pump") = "commit" =>
       rows[writer["pump"].row].ext = writer["pump"].id /\ rows[writer["pump"].row].state = "open"

(* The outbox worker sends a row that has no id yet.  Nothing has been     *)
(* stored under the id that it waits for, but the echo, behind that row,   *)
(* when its grace was over too early.                                      *)
SenderHolds ==
  /\ Len(written) <= MaxWritten
  /\ \A e \in late : e \in DOMAIN written /\ Ours(e)
  /\ sender.at # "idle" =>
       /\ sender.row \in DOMAIN rows /\ IsRow(sender.row) /\ rows[sender.row].out = "pending"
       /\ sender.ext \in DOMAIN written /\ Ours(sender.ext)
       /\ \A i \in DOMAIN rows : Live(i) /\ rows[i].ext = sender.ext =>
            sender.row < i /\ rows[i].out = "none" /\ sender.ext \in hit \union late

KnownOnce ==
  /\ known \in Seq(Nat)
  /\ \A i \in DOMAIN known : known[i] \in DOMAIN written
  /\ \A i, j \in DOMAIN known : known[i] = known[j] => i = j
  /\ worker # 0 => ~FromClient(worker)

(* Until a message of our own has its row, its echo cannot get past the    *)
(* provider, unless the answer is late: it is awaited, or the id is known. *)
EchoesAreKnown ==
  \A e \in DOMAIN written : Ours(e) /\ e \notin hit \union late =>
    \/ Exists(e)
    \/ /\ sender.at # "idle" /\ sender.ext = e /\ (sender.at = "answered" => Knows(e))
       /\ ~Waits(e) /\ (At("pump") # "idle" => writer["pump"].id # e)

(* Wherever a message of the client is, his earlier ones are ahead of it.  *)
RowsInOrder(m, n) ==
  \A j \in DOMAIN rows : Live(j) /\ rows[j].ext = n =>
    \E i \in DOMAIN rows : i < j /\ Live(i) /\ rows[i].ext = m
IncomingInOrder(m, n) ==
  \A k \in DOMAIN incoming : incoming[k] = n =>
    Has(m) \/ InPump(m) \/ \E l \in DOMAIN incoming : l < k /\ incoming[l] = m
PushesInOrder(m, n) ==
  \A k \in DOMAIN pushes : pushes[k] = n =>
    Has(m) \/ InPump(m) \/ Waits(m) \/ \E l \in DOMAIN pushes : l < k /\ pushes[l] = m
InOrder ==
  \A m, n \in DOMAIN written : (m < n /\ FromClient(m) /\ FromClient(n) /\ m \notin hit) =>
    /\ RowsInOrder(m, n) /\ (InPump(n) => Has(m))
    /\ IncomingInOrder(m, n) /\ PushesInOrder(m, n)

NoneLost ==
  \A m \in DOMAIN written : FromClient(m) /\ m \notin hit =>
    Has(m) \/ InPump(m) \/ Waits(m) \/ Pushed(m)

Once ==
  \A i, j \in DOMAIN rows :
    (i < j /\ Live(i) /\ Live(j) /\ rows[i].ext # 0 /\ rows[i].ext \notin hit
       /\ rows[i].ext = rows[j].ext)
      => rows[i].ext \in late /\ rows[i].out = "sent" /\ rows[j].out = "none"

StoreInv == RowsHold /\ SenderHolds /\ KnownOnce /\ EchoesAreKnown /\ InOrder /\ NoneLost /\ Once

(* The property is what the invariant says of two rows.                    *)
LEMMA StoreInvImplies == ConversationInv /\ StoreInv => StoredOnceInOrder
<1> SUFFICES ASSUME ConversationInv, StoreInv, NEW i \in DOMAIN rows, NEW j \in DOMAIN rows,
                    i < j, Live(i), Live(j), rows[i].ext # 0, rows[j].ext # 0,
                    rows[i].ext \notin hit, rows[j].ext \notin hit
             PROVE  /\ rows[i].ext = rows[j].ext =>
                         rows[i].ext \in late /\ rows[i].out = "sent" /\ rows[j].out = "none"
                    /\ (rows[i].dir = "in" /\ rows[j].dir = "in") => rows[i].ext < rows[j].ext
  BY DEF StoredOnceInOrder, Live
<1> DEFINE n == rows[i].ext
<1> DEFINE m == rows[j].ext
<1>1. n = m => n \in late /\ rows[i].out = "sent" /\ rows[j].out = "none"
  BY DEF StoreInv, Once
<1>2. ASSUME rows[i].dir = "in", rows[j].dir = "in"
      PROVE  n < m
  <2>1. n \in DOMAIN written /\ m \in DOMAIN written /\ FromClient(n) /\ FromClient(m)
    BY <1>2 DEF StoreInv, RowsHold
  <2>2. n \in Nat /\ m \in Nat /\ i \in Nat /\ j \in Nat
    BY <2>1, TypesNow
  <2>3. SUFFICES ASSUME m < n PROVE FALSE
    <3>1. n \notin late
      BY <2>1 DEF StoreInv, SenderHolds, Ours, FromClient
    <3>2. QED
      BY <1>1, <2>2, <3>1
  <2>4. RowsInOrder(m, n)
    BY <2>1, <2>3 DEF StoreInv, InOrder
  <2>5. PICK k \in DOMAIN rows : k < i /\ Live(k) /\ rows[k].ext = m
    BY <2>4 DEF RowsInOrder
  <2>6. k < j
    BY <2>2, <2>5, TypesNow
  <2>7. m \notin late
    BY <2>1 DEF StoreInv, SenderHolds, Ours, FromClient
  <2>8. QED
    BY <2>5, <2>6, <2>7 DEF StoreInv, Once
<1>3. QED
  BY <1>1, <1>2

-----------------------------------------------------------------------------
(* Steps that leave the rows of messages, and what is on its way, alone.   *)

(* Rows stay where they are under their id; what is new is a row of our    *)
(* own without an id; a row is only given up with the fault that strikes   *)
(* its message.                                                            *)
RowsStand ==
  /\ \A i \in DOMAIN rows :
       /\ i \in DOMAIN rows' /\ rows'[i].ext = rows[i].ext /\ rows'[i].dir = rows[i].dir
       /\ rows'[i].out = rows[i].out
       /\ rows[i].state = "row" => rows'[i].state = "row"
       /\ rows'[i].state = "open" => rows[i].state = "open"
       /\ rows'[i].state # "void" => rows[i].state # "void"
       /\ (rows[i].state # "void" /\ rows'[i].state = "void") => rows[i].ext \in hit'
  /\ \A i \in DOMAIN rows' \ DOMAIN rows :
       rows'[i].ext = 0 /\ rows'[i].dir = "out" /\ rows'[i].state = "row"

LEMMA RowsUnmoved == ASSUME rows' = rows PROVE RowsStand
BY DEF RowsStand

LEMMA HasStands ==
  ASSUME RowsStand, NEW m, m # 0
  PROVE  /\ Has(m)' => Has(m)
         /\ (Has(m) /\ m \notin hit') => Has(m)'
         /\ Exists(m) => Exists(m)'
BY DEF RowsStand, Has, Live, Exists, IsRow

(* What such a step may do to the pump.                                    *)
PumpStands ==
  /\ At("pump")' = "commit" =>
       /\ writer'["pump"] = writer["pump"]
       /\ \A i \in DOMAIN rows : rows'[i].state = rows[i].state
  /\ \A i \in DOMAIN rows' : rows'[i].state = "open" => At("pump")' = "commit"
  /\ At("pump")' # "idle" => At("pump") # "idle" /\ writer'["pump"].id = writer["pump"].id
  /\ \A m \in DOMAIN written : InPump(m)' => InPump(m)
  /\ \A m \in DOMAIN written : InPump(m) /\ m \notin hit' => InPump(m)' \/ Has(m)'

LEMMA SameOrder ==
  ASSUME ConversationInv, StoreInv, RowsStand, PumpStands, written' = written, hit \subseteq hit',
         late' = late,
         pushes' = pushes, incoming' = incoming
  PROVE  InOrder' /\ NoneLost' /\ Once'
<1>1. \A m \in DOMAIN written : m # 0
  BY TypesNow
<1>2. ASSUME NEW m \in DOMAIN written, m \notin hit'
      PROVE  /\ Has(m) => Has(m)'
             /\ Has(m) \/ InPump(m) => Has(m)' \/ InPump(m)'
             /\ Waits(m)' = Waits(m) /\ Pushed(m)' = Pushed(m)
  BY <1>1, <1>2, HasStands DEF PumpStands, Waits, Pushed
<1>3. InOrder'
  <2> SUFFICES ASSUME NEW m \in DOMAIN written, NEW n \in DOMAIN written,
                      m < n, FromClient(m), FromClient(n), m \notin hit'
               PROVE  /\ RowsInOrder(m, n)' /\ (InPump(n)' => Has(m)')
                      /\ IncomingInOrder(m, n)' /\ PushesInOrder(m, n)'
    BY DEF InOrder, FromClient
  <2>1. /\ RowsInOrder(m, n) /\ (InPump(n) => Has(m))
        /\ IncomingInOrder(m, n) /\ PushesInOrder(m, n)
    BY DEF StoreInv, InOrder
  <2>2. RowsInOrder(m, n)'
    BY <1>1, <2>1 DEF RowsStand, RowsInOrder, Live
  <2>3. InPump(n)' => Has(m)'
    BY <1>2, <2>1 DEF PumpStands
  <2>4. IncomingInOrder(m, n)'
    BY <1>2, <2>1 DEF IncomingInOrder
  <2>5. PushesInOrder(m, n)'
    BY <1>2, <2>1 DEF PushesInOrder
  <2>6. QED
    BY <2>2, <2>3, <2>4, <2>5
<1>4. NoneLost'
  BY <1>2 DEF StoreInv, NoneLost, FromClient
<1>5. Once'
  BY DEF StoreInv, Once, RowsStand, Live
<1>6. QED
  BY <1>3, <1>4, <1>5

LEMMA SameRows ==
  ASSUME ConversationInv, StoreInv, RowsStand, PumpStands, written' = written
  PROVE  RowsHold'
<1>1. ASSUME NEW i \in DOMAIN rows'
      PROVE  /\ rows'[i].ext # 0 => rows'[i].ext \in DOMAIN written
             /\ rows'[i].dir = "in" => rows'[i].ext # 0 /\ written[rows'[i].ext].from = "client"
             /\ rows'[i].out = "pending" => rows'[i].ext = 0
             /\ rows'[i].state = "open" => i \in DOMAIN rows /\ rows[i].state = "open"
  BY DEF StoreInv, RowsHold, RowsStand, FromClient
<1>2. ASSUME NEW i \in DOMAIN rows', rows'[i].state = "open"
      PROVE  writer'["pump"].at = "commit" /\ writer'["pump"].row = i
  <2>1. writer'["pump"].at = "commit" /\ writer'["pump"] = writer["pump"]
    BY <1>2 DEF PumpStands, At
  <2>2. i \in DOMAIN rows /\ rows[i].state = "open"
    BY <1>1, <1>2
  <2>3. QED
    BY <2>1, <2>2 DEF StoreInv, RowsHold
<1>3. ASSUME writer'["pump"].at = "commit"
      PROVE  /\ rows'[writer'["pump"].row].ext = writer'["pump"].id
             /\ rows'[writer'["pump"].row].state = "open"
  <2>1. writer'["pump"] = writer["pump"]
    BY <1>3 DEF PumpStands, At
  <2>2. /\ writer["pump"].row \in DOMAIN rows /\ rows[writer["pump"].row].ext = writer["pump"].id
        /\ rows[writer["pump"].row].state = "open"
    BY <1>3, <2>1, PumpNow DEF StoreInv, RowsHold, At
  <2>3. rows'[writer["pump"].row].state = "open"
    BY <1>3, <2>2 DEF PumpStands, At
  <2>4. QED
    BY <2>1, <2>2, <2>3 DEF RowsStand
<1>4. QED
  BY <1>1, <1>2, <1>3 DEF RowsHold, At, FromClient

LEMMA SameEchoes ==
  ASSUME ConversationInv, StoreInv, RowsStand, PumpStands, written' = written, hit \subseteq hit',
         late' = late,
         incoming' = incoming, known' = known, sender' = sender
  PROVE  EchoesAreKnown'
<1> SUFFICES ASSUME NEW e \in DOMAIN written, Ours(e), e \notin hit' \union late'
             PROVE  \/ Exists(e)'
                    \/ /\ sender.at # "idle" /\ sender.ext = e /\ (sender.at = "answered" => Knows(e))
                       /\ ~Waits(e) /\ (At("pump")' # "idle" => writer'["pump"].id # e)
  BY DEF EchoesAreKnown, Ours, Knows, Waits
<1>1. e # 0 /\ e \notin hit \union late
  BY TypesNow
<1>2. CASE Exists(e)
  BY <1>1, <1>2, HasStands
<1>3. CASE ~Exists(e)
  BY <1>1, <1>3 DEF StoreInv, EchoesAreKnown, PumpStands
<1>4. QED
  BY <1>2, <1>3

LEMMA SameSender ==
  ASSUME ConversationInv, StoreInv, RowsStand, written' = written, hit \subseteq hit', late' = late,
         known' = known, sender' = sender
  PROVE  SenderHolds'
<1>1. sender.at # "idle" =>
        /\ sender.row \in DOMAIN rows' /\ rows'[sender.row].state = "row"
        /\ rows'[sender.row].out = "pending"
        /\ sender.ext \in DOMAIN written' /\ Ours(sender.ext)'
  BY DEF StoreInv, SenderHolds, RowsStand, IsRow, Ours
<1>2. ASSUME sender.at # "idle", NEW i \in DOMAIN rows', rows'[i].state # "void",
             rows'[i].ext = sender.ext
      PROVE  sender.row < i /\ rows'[i].out = "none" /\ sender.ext \in hit' \union late'
  <2>1. sender.ext # 0
    BY <1>2, TypesNow DEF StoreInv, SenderHolds
  <2>2. i \in DOMAIN rows /\ rows[i].state # "void" /\ rows[i].ext = sender.ext /\ rows'[i].out = rows[i].out
    BY <1>2, <2>1 DEF RowsStand
  <2>3. QED
    BY <1>2, <2>2 DEF StoreInv, SenderHolds, Live
<1>3. \A e \in late' : e \in DOMAIN written /\ Ours(e)
  BY DEF StoreInv, SenderHolds
<1>4. QED
  BY <1>1, <1>2, <1>3 DEF StoreInv, SenderHolds, IsRow, Live, Ours

(* The frame of the steps of the database.                                 *)
LEMMA StandingStep ==
  ASSUME ConversationInv, StoreInv, RowsStand, PumpStands, hit \subseteq hit', late' = late,
         UNCHANGED <<written, pushes, incoming, known, worker, sender>>
  PROVE  StoreInv'
<1>1. KnownOnce'
  BY DEF StoreInv, KnownOnce, FromClient
<1>2. QED
  BY <1>1, SameOrder, SameRows, SameEchoes, SameSender DEF StoreInv
LEMMA VoidedStands ==
  ASSUME ConversationInv, StoreInv, NEW V, V \subseteq DOMAIN rows,
         rows' = [i \in DOMAIN rows |->
                   IF i \in V /\ ~IsRow(i) THEN [rows[i] EXCEPT !.state = "void"] ELSE rows[i]],
         V # {} /\ At("pump") = "commit" => writer["pump"].id \in hit'
  PROVE  /\ RowsStand
         /\ \A i \in V : rows'[i].state # "open"
         /\ DOMAIN rows' = DOMAIN rows
<1>1. DOMAIN rows' = DOMAIN rows
  OBVIOUS
<1>2. ASSUME NEW i \in DOMAIN rows
      PROVE  /\ i \in DOMAIN rows' /\ rows'[i].ext = rows[i].ext /\ rows'[i].dir = rows[i].dir
             /\ rows'[i].out = rows[i].out
             /\ rows[i].state = "row" => rows'[i].state = "row"
             /\ rows'[i].state = "open" => rows[i].state = "open"
             /\ rows'[i].state # "void" => rows[i].state # "void"
             /\ (rows[i].state # "void" /\ rows'[i].state = "void") => rows[i].ext \in hit'
             /\ i \in V => rows'[i].state # "open"
  <2>1. rows[i] \in RowType
    BY TypesNow
  <2>2. CASE i \in V /\ ~IsRow(i)
    <3>1. rows'[i] = [rows[i] EXCEPT !.state = "void"]
      BY <2>2
    <3>2. /\ rows'[i].ext = rows[i].ext /\ rows'[i].dir = rows[i].dir
          /\ rows'[i].out = rows[i].out /\ rows'[i].state = "void"
      BY <2>1, <3>1 DEF RowType
    <3>3. rows[i].state # "row"
      BY <2>2 DEF IsRow
    <3>4. rows[i].state # "void" => rows[i].ext \in hit'
      <4>1. rows[i].state # "void" => rows[i].state = "open"
        BY <2>1, <3>3 DEF RowType
      <4>2. QED
        BY <2>2, <4>1 DEF StoreInv, RowsHold
    <3>5. QED
      BY <1>1, <3>2, <3>3, <3>4
  <2>3. CASE ~(i \in V /\ ~IsRow(i))
    <3>1. rows'[i] = rows[i]
      BY <2>3
    <3>2. i \in V => rows[i].state = "row"
      BY <2>3 DEF IsRow
    <3>3. QED
      BY <1>1, <3>1, <3>2
  <2>4. QED
    BY <2>2, <2>3
<1>3. RowsStand
  BY <1>1, <1>2 DEF RowsStand
<1>4. QED
  BY <1>1, <1>2, <1>3

LEMMA RollBackStands ==
  ASSUME ConversationInv, StoreInv, NEW w \in Writers, RollBack(w),
         w = "pump" /\ At("pump") = "commit" => writer["pump"].id \in hit'
  PROVE  /\ RowsStand
         /\ w = "pump" => \A i \in DOMAIN rows' : rows'[i].state # "open"
         /\ w # "pump" => rows' = rows
<1> DEFINE V == IF w = "pump" THEN DOMAIN rows ELSE {}
<1>1. \A i \in DOMAIN rows : w = "pump" <=> i \in V
  OBVIOUS
<1>2. rows' = [i \in DOMAIN rows |->
                IF i \in V /\ ~IsRow(i) THEN [rows[i] EXCEPT !.state = "void"] ELSE rows[i]]
  BY <1>1 DEF RollBack
<1>3. V \subseteq DOMAIN rows /\ (V # {} => w = "pump") /\ (w = "pump" => V = DOMAIN rows)
  OBVIOUS
<1>4. ASSUME w # "pump" PROVE rows' = rows
  <2>1. rows' = [i \in DOMAIN rows |-> rows[i]]
    BY <1>4 DEF RollBack
  <2>2. rows = [i \in DOMAIN rows |-> rows[i]]
    BY TypesNow
  <2>3. QED
    BY <2>1, <2>2
<1> HIDE DEF V
<1>5. /\ RowsStand /\ DOMAIN rows' = DOMAIN rows
      /\ \A i \in V : rows'[i].state # "open"
  BY <1>2, <1>3, VoidedStands
<1>6. QED
  BY <1>3, <1>4, <1>5

LEMMA OwnRowStands ==
  ASSUME ConversationInv, NEW auto \in BOOLEAN, rows' = Append(rows, Stored(0, auto, "pending"))
  PROVE  RowsStand /\ \A i \in DOMAIN rows : rows'[i] = rows[i]
<1> DEFINE x == Stored(0, auto, "pending")
<1>1. x \in RowType /\ x.ext = 0 /\ x.dir = "out" /\ x.state = "row" /\ rows' = Append(rows, x)
  BY TypesNow DEF Stored, RowType
<1> HIDE DEF x
<1>2. /\ \A i \in DOMAIN rows : i \in DOMAIN rows' /\ rows'[i] = rows[i]
      /\ \A i \in DOMAIN rows' : i \in DOMAIN rows \/ rows'[i] = x
  BY <1>1, TypesNow, AppendFacts
<1>3. QED
  BY <1>1, <1>2 DEF RowsStand

LEMMA PumpUntouched ==
  ASSUME ConversationInv, StoreInv, RowsStand, writer'["pump"] = writer["pump"],
         \A i \in DOMAIN rows : rows'[i] = rows[i]
  PROVE  PumpStands
<1>1. \A i \in DOMAIN rows' : rows'[i].state = "open" => At("pump") = "commit"
  BY DEF StoreInv, RowsHold, RowsStand
<1>2. QED
  BY <1>1 DEF PumpStands, At, InPump

(* The pump has finished, or given up, its message.                        *)
LEMMA PumpRests ==
  ASSUME writer'["pump"].at = "idle", \A i \in DOMAIN rows' : rows'[i].state # "open",
         \A m \in DOMAIN written : InPump(m) /\ m \notin hit' => Has(m)'
  PROVE  PumpStands
BY DEF PumpStands, At, InPump, Holding

(* No transaction of the pump is open where it has no row.                 *)
LEMMA NoneOpen ==
  ASSUME ConversationInv, StoreInv, At("pump") # "commit"
  PROVE  \A i \in DOMAIN rows : rows[i].state # "open"
BY DEF StoreInv, RowsHold

LEMMA HitGrows == ASSUME NEW S, Fault(S) PROVE hit \subseteq hit' /\ late' = late /\ S \subseteq hit'
BY DEF Fault

LEMMA BesideStores ==
  ASSUME ConversationInv, StoreInv,
         Tick \/ LinkChanges \/ Initiate \/ OfflineTooLong \/ Resolve \/ NotFound \/ ResolveFails
  PROVE  StoreInv'
<1>1. UNCHANGED <<written, pushes, incoming, known, worker, sender, rows>>
  BY DEF Tick, LinkChanges, Initiate, OfflineTooLong, Resolve, NotFound, ResolveFails, provVars, dbVars
<1>2. writer'["pump"] = writer["pump"]
  <2>1. CASE Resolve
    BY <2>1, TypesNow DEF Resolve, Goto, Writers
  <2>2. CASE ~Resolve
    BY <2>2 DEF Tick, LinkChanges, Initiate, OfflineTooLong, NotFound, ResolveFails
  <2>3. QED
    BY <2>1, <2>2
<1>3. hit \subseteq hit' /\ late' = late
  <2>1. UNCHANGED <<hit, late>> \/ Fault({})
    BY DEF Tick, LinkChanges, Initiate, OfflineTooLong, Resolve, NotFound, ResolveFails, histVars
  <2>2. QED
    BY <2>1, HitGrows
<1>4. QED
  BY <1>1, <1>2, <1>3, RowsUnmoved, PumpUntouched, StandingStep

LEMMA InitKeysStore == ASSUME ConversationInv, StoreInv, Keys("init") PROVE StoreInv'
<1>1. UNCHANGED <<written, pushes, incoming, known, worker, sender, hit, late>>
  BY DEF Keys, provVars, histVars
<1>2. writer'["pump"] = writer["pump"]
  BY KeysFacts, TwoWriters
<1>3. RowsStand /\ \A i \in DOMAIN rows : rows'[i] = rows[i]
  <2>1. rows' = rows \/ RollBack("init")
    BY DEF Keys, FindContact, FindDialog, AddContact, AddDialog, Conflict, dbVars
  <2>2. QED
    BY <2>1, RowsUnmoved, RollBackStands, TwoWriters
<1>4. QED
  BY <1>1, <1>2, <1>3, PumpUntouched, StandingStep

LEMMA InitEndsStore ==
  ASSUME ConversationInv, StoreInv, Linked \/ ApplyFails \/ PanelSends PROVE StoreInv'
<1>1. UNCHANGED <<written, pushes, incoming, known, worker, sender>>
  BY DEF Linked, ApplyFails, PanelSends, provVars
<1>2. writer'["pump"] = writer["pump"]
  BY RestFacts, TwoWriters DEF Linked, ApplyFails, PanelSends
<1>3. hit \subseteq hit' /\ late' = late
  <2>1. UNCHANGED <<hit, late>> \/ Fault({})
    BY DEF Linked, ApplyFails, PanelSends, histVars
  <2>2. QED
    BY <2>1, HitGrows
<1>4. RowsStand /\ \A i \in DOMAIN rows : rows'[i] = rows[i]
  <2>1. rows' = Append(rows, Stored(0, FALSE, "pending")) \/ RollBack("init")
    BY DEF Linked, ApplyFails, PanelSends
  <2>2. QED
    BY <2>1, OwnRowStands, RollBackStands, TwoWriters
<1>5. QED
  BY <1>1, <1>2, <1>3, <1>4, PumpUntouched, StandingStep

LEMMA PumpKeysStore == ASSUME ConversationInv, StoreInv, Keys("pump") PROVE StoreInv'
<1>1. UNCHANGED <<written, pushes, incoming, known, worker, sender, hit, late>>
  BY DEF Keys, provVars, histVars
<1>2. /\ At("pump") # "idle" /\ writer'["pump"].at \in Holding
      /\ writer'["pump"].id = writer["pump"].id
  BY KeysFacts, TwoWriters
<1>3. At("pump") \in Holding /\ At("pump") # "commit"
  BY DEF Keys, FindContact, FindDialog, AddContact, AddDialog, Conflict, Holding
<1>4. RowsStand
  <2>1. rows' = rows \/ RollBack("pump")
    BY DEF Keys, FindContact, FindDialog, AddContact, AddDialog, Conflict, dbVars
  <2>2. QED
    BY <1>3, <2>1, RowsUnmoved, RollBackStands, TwoWriters
<1>5. PumpStands
  <2>1. \A i \in DOMAIN rows' : rows'[i].state # "open"
    BY <1>3, <1>4, NoneOpen DEF RowsStand
  <2>2. At("pump")' # "commit"
    BY <1>2 DEF At, Holding
  <2>3. QED
    BY <1>2, <1>3, <2>1, <2>2 DEF PumpStands, InPump, At
<1>6. QED
  BY <1>1, <1>4, <1>5, StandingStep

LEMMA PersistedStore == ASSUME ConversationInv, StoreInv, Persisted PROVE StoreInv'
<1> DEFINE k == writer["pump"].row
<1> DEFINE x == [rows[k] EXCEPT !.state = "row"]
<1>1. /\ At("pump") = "commit" /\ Goto("pump", "enqueue") /\ rows' = [rows EXCEPT ![k] = x]
      /\ UNCHANGED <<written, pushes, incoming, known, worker, sender, hit, late>>
  BY DEF Persisted, provVars, histVars
<1>2. k \in DOMAIN rows /\ rows[k] \in RowType
  BY <1>1, PumpNow, TypesNow
<1>3. /\ x.ext = rows[k].ext /\ x.dir = rows[k].dir /\ x.out = rows[k].out /\ x.state = "row"
  BY <1>2 DEF RowType
<1>4. rows[k].state # "void"
  BY <1>1 DEF StoreInv, RowsHold
<1>5. RowsStand
  BY <1>1, <1>2, <1>3, <1>4 DEF RowsStand
<1>6. \A i \in DOMAIN rows' : rows'[i].state # "open"
  BY <1>1, <1>2, <1>3 DEF StoreInv, RowsHold
<1>7. writer'["pump"].at = "enqueue" /\ writer'["pump"].id = writer["pump"].id
  BY <1>1, TypesNow, WriterNow, TwoWriters DEF Goto, WriterType
<1>8. PumpStands
  BY <1>1, <1>6, <1>7 DEF PumpStands, At, InPump, Holding
<1>9. QED
  BY <1>1, <1>5, <1>8, StandingStep

LEMMA EnqueueTaskStore == ASSUME ConversationInv, StoreInv, EnqueueTask PROVE StoreInv'
<1>1. /\ At("pump") = "enqueue"
      /\ UNCHANGED <<written, pushes, incoming, known, worker, sender, rows>>
      /\ IF FromClient(writer["pump"].id) THEN Goto("pump", "reply") ELSE Rest("pump")
  BY DEF EnqueueTask, provVars
<1>2. hit \subseteq hit' /\ late' = late
  BY HitGrows DEF EnqueueTask, histVars
<1>3. "reply" \in Stages
  BY DEF Stages
<1>4. \/ writer'["pump"].at = "idle"
      \/ writer'["pump"].at = "reply" /\ writer'["pump"].id = writer["pump"].id
  BY <1>1, <1>3, GotoFacts, RestFacts, TwoWriters
<1>5. PumpStands
  BY <1>1, <1>4, NoneOpen DEF PumpStands, At, InPump, Holding
<1>6. QED
  BY <1>1, <1>2, <1>5, RowsUnmoved, StandingStep

LEMMA AutoreplyStore == ASSUME ConversationInv, StoreInv, Autoreply PROVE StoreInv'
<1>1. /\ At("pump") = "reply" /\ Rest("pump")
      /\ UNCHANGED <<written, pushes, incoming, known, worker, sender, hit, late>>
      /\ rows' = rows \/ rows' = Append(rows, Stored(0, TRUE, "pending"))
  BY DEF Autoreply, provVars, histVars
<1>2. RowsStand
  BY <1>1, RowsUnmoved, OwnRowStands
<1>3. \A i \in DOMAIN rows' : rows'[i].state # "open"
  BY <1>1, <1>2, NoneOpen DEF RowsStand
<1>4. PumpStands
  BY <1>1, <1>3, RestFacts, TwoWriters, PumpRests DEF InPump, Holding
<1>5. QED
  BY <1>1, <1>2, <1>4, StandingStep

LEMMA HandlerFailsStore == ASSUME ConversationInv, StoreInv, HandlerFails PROVE StoreInv'
<1>1. /\ RollBack("pump") /\ Rest("pump")
      /\ UNCHANGED <<written, pushes, incoming, known, worker, sender>>
      /\ Fault(IF At("pump") = "reply" THEN {} ELSE {writer["pump"].id})
  BY DEF HandlerFails, provVars
<1>2. hit \subseteq hit' /\ late' = late /\ (At("pump") # "reply" => writer["pump"].id \in hit')
  BY <1>1, HitGrows
<1>3. RowsStand /\ \A i \in DOMAIN rows' : rows'[i].state # "open"
  BY <1>1, <1>2, RollBackStands, TwoWriters
<1>4. PumpStands
  BY <1>1, <1>2, <1>3, RestFacts, TwoWriters, PumpRests DEF InPump, Holding
<1>5. QED
  BY <1>1, <1>2, <1>3, <1>4, StandingStep
-----------------------------------------------------------------------------
(* The messenger and the provider: the order on the way.                   *)

LEMMA WriteOrders ==
  ASSUME ConversationInv, StoreInv, NEW from \in {"client", "phone", "us"}, Write(from),
         UNCHANGED <<rows, writer, hit, late, incoming, known, worker>>
  PROVE  /\ RowsHold' /\ KnownOnce' /\ InOrder' /\ NoneLost' /\ Once'
         /\ Len(written') <= MaxWritten
         /\ Len(written) + 1 \in DOMAIN written' /\ Len(written) + 1 \notin DOMAIN written
         /\ written'[Len(written) + 1].from = from
         /\ \A m \in DOMAIN written : m \in DOMAIN written' /\ written'[m] = written[m]
         /\ \A m \in DOMAIN written' : m \in DOMAIN written \/ m = Len(written) + 1
<1> DEFINE N == Len(written) + 1
<1> DEFINE x == [from |-> from, ts |-> clock]
<1> DEFINE p == Len(pushes) + 1
<1>1. x \in MessageType /\ x.from = from /\ N \in Nat /\ Len(written) < MaxWritten
  BY TypesNow DEF MessageType, Write
<1>2. written' = Append(written, x) /\ pushes' = Append(pushes, N)
  BY DEF Write
<1> HIDE DEF x
<1>3. /\ written' \in Seq(MessageType) /\ Len(written') = N
      /\ written'[N] = x /\ N \in DOMAIN written' /\ N \notin DOMAIN written
      /\ \A m \in DOMAIN written : m \in DOMAIN written' /\ written'[m] = written[m]
      /\ \A m \in DOMAIN written' : m \in DOMAIN written \/ m = N
  BY <1>1, <1>2, TypesNow, AppendFacts
<1>4. /\ pushes' \in Seq(Nat) /\ pushes'[p] = N /\ p \in DOMAIN pushes'
      /\ \A i \in DOMAIN pushes : i \in DOMAIN pushes' /\ pushes'[i] = pushes[i]
      /\ \A i \in DOMAIN pushes' : i \in DOMAIN pushes \/ i = p
      /\ \A i \in DOMAIN pushes : i < p
  <2>1. \A i \in DOMAIN pushes : i < p
    BY TypesNow, SeqFacts
  <2>2. QED
    BY SMTT(30), <1>1, <1>2, <2>1, TypesNow, AppendFacts
<1>5. Len(written') <= MaxWritten
  BY <1>1, <1>3, TypesNow, ConversationAssumption
<1>6. \A m \in DOMAIN written : m # 0 /\ m < N /\ m # N
  BY TypesNow
<1> HIDE DEF N, p
<1>7. /\ \A i \in DOMAIN rows : rows[i].ext # N
      /\ \A i \in DOMAIN incoming : incoming[i] # N
      /\ \A i \in DOMAIN pushes : pushes[i] # N
      /\ ~InPump(N)
  <2>1. N # 0
    BY <1>1, TypesNow DEF N
  <2>2. \A i \in DOMAIN rows : rows[i].ext = 0 \/ rows[i].ext \in DOMAIN written
    BY DEF StoreInv, RowsHold
  <2>3. InPump(N) => N \in DOMAIN written
    BY PumpNow DEF InPump, Holding
  <2>4. QED
    BY <1>3, <2>1, <2>2, <2>3, DeliveredNow
<1>8. \A m \in DOMAIN written : FromClient(m)' = FromClient(m)
  BY <1>3 DEF FromClient
<1>9. RowsHold'
  BY <1>3 DEF StoreInv, RowsHold, FromClient, At
<1>10. KnownOnce'
  BY <1>3, DeliveredNow DEF StoreInv, KnownOnce, FromClient
<1>11. Once'
  BY DEF StoreInv, Once, Live
<1>12. ASSUME NEW m \in DOMAIN written
       PROVE  /\ Has(m)' = Has(m) /\ InPump(m)' = InPump(m) /\ Waits(m)' = Waits(m)
              /\ Pushed(m) => Pushed(m)'
              /\ Pushed(m) => \E l \in DOMAIN pushes' : l < p /\ pushes'[l] = m
  BY <1>4 DEF Has, Live, InPump, At, Waits, Pushed
<1>13. NoneLost'
  <2> SUFFICES ASSUME NEW m \in DOMAIN written', FromClient(m)', m \notin hit
               PROVE  Has(m)' \/ InPump(m)' \/ Waits(m)' \/ Pushed(m)'
    BY DEF NoneLost
  <2>1. CASE m = N
    BY <1>4, <2>1 DEF Pushed
  <2>2. CASE m # N
    BY <1>3, <1>8, <1>12, <2>2 DEF StoreInv, NoneLost
  <2>3. QED
    BY <2>1, <2>2
<1>14. InOrder'
  <2> SUFFICES ASSUME NEW m \in DOMAIN written', NEW n \in DOMAIN written',
                      m < n, FromClient(m)', FromClient(n)', m \notin hit
               PROVE  /\ RowsInOrder(m, n)' /\ (InPump(n)' => Has(m)')
                      /\ IncomingInOrder(m, n)' /\ PushesInOrder(m, n)'
    BY DEF InOrder
  <2>1. m \in DOMAIN written
    <3>1. m # N
      BY <1>1, <1>3, <1>6, TypesNow
    <3>2. QED
      BY <1>3, <3>1
  <2>2. CASE n = N
    <3>1. RowsInOrder(m, n)' /\ IncomingInOrder(m, n)' /\ ~InPump(n)'
      BY <1>7, <2>2 DEF RowsInOrder, IncomingInOrder, InPump, At
    <3>2. Has(m) \/ InPump(m) \/ Waits(m) \/ Pushed(m)
      BY <1>8, <2>1 DEF StoreInv, NoneLost
    <3>3. PushesInOrder(m, n)'
      BY <1>4, <1>7, <1>12, <2>1, <2>2, <3>2 DEF PushesInOrder
    <3>4. QED
      BY <3>1, <3>3
  <2>3. CASE n # N
    <3>1. n \in DOMAIN written
      BY <1>3, <2>3
    <3>2. /\ RowsInOrder(m, n) /\ (InPump(n) => Has(m))
          /\ IncomingInOrder(m, n) /\ PushesInOrder(m, n)
      BY <1>8, <2>1, <3>1 DEF StoreInv, InOrder
    <3>3. RowsInOrder(m, n)' /\ (InPump(n)' => Has(m)') /\ IncomingInOrder(m, n)'
      BY <3>2 DEF RowsInOrder, IncomingInOrder, InPump, At, Has, Live
    <3>4. PushesInOrder(m, n)'
      BY <1>4, <1>12, <2>1, <2>3, <3>2 DEF PushesInOrder
    <3>5. QED
      BY <3>2, <3>3, <3>4
  <2>4. QED
    BY <2>2, <2>3
<1>15. QED
  BY <1>1, <1>3, <1>5, <1>9, <1>10, <1>11, <1>13, <1>14 DEF N

LEMMA WritesStore == ASSUME ConversationInv, StoreInv, ClientOrPhoneWrites PROVE StoreInv'
<1> DEFINE N == Len(written) + 1
<1>1. PICK from \in {"client", "phone"} : Write(from)
  BY DEF ClientOrPhoneWrites
<1>2. UNCHANGED <<rows, writer, hit, late, incoming, known, worker, sender>>
  BY DEF ClientOrPhoneWrites, dbVars, histVars
<1>3. /\ RowsHold' /\ KnownOnce' /\ InOrder' /\ NoneLost' /\ Once'
      /\ Len(written') <= MaxWritten
      /\ written'[N].from = from
      /\ \A m \in DOMAIN written : m \in DOMAIN written' /\ written'[m] = written[m]
      /\ \A m \in DOMAIN written' : m \in DOMAIN written \/ m = N
  BY <1>1, <1>2, WriteOrders
<1> HIDE DEF N
<1>4. SenderHolds'
  BY <1>2, <1>3 DEF StoreInv, SenderHolds, Ours, Live, IsRow
<1>5. EchoesAreKnown'
  <2> SUFFICES ASSUME NEW e \in DOMAIN written', Ours(e)', e \notin hit \union late
               PROVE  \/ Exists(e)
                      \/ /\ sender.at # "idle" /\ sender.ext = e /\ (sender.at = "answered" => Knows(e))
                         /\ ~Waits(e) /\ (At("pump") # "idle" => writer["pump"].id # e)
    BY <1>2 DEF EchoesAreKnown, Exists, IsRow, Knows, Waits, At
  <2>1. e # N
    BY <1>1, <1>3 DEF Ours
  <2>2. e \in DOMAIN written /\ Ours(e)
    BY <1>3, <2>1 DEF Ours
  <2>3. QED
    BY <2>2 DEF StoreInv, EchoesAreKnown
<1>6. QED
  BY <1>3, <1>4, <1>5 DEF StoreInv

LEMMA SendStore == ASSUME ConversationInv, StoreInv, Send PROVE StoreInv'
<1> PICK N \in Nat : N = Len(written) + 1
  BY TypesNow
<1>1. Write("us") /\ UNCHANGED <<rows, writer, hit, late, incoming, known, worker>> /\ sender.at = "idle"
  BY DEF Send, dbVars, histVars
<1>2. PICK i \in DOMAIN rows : /\ IsRow(i) /\ rows[i].out = "pending"
                               /\ sender' = [at |-> "asked", row |-> i, ext |-> N]
  BY DEF Send
<1>3. /\ RowsHold' /\ KnownOnce' /\ InOrder' /\ NoneLost' /\ Once'
      /\ Len(written') <= MaxWritten
      /\ N \in DOMAIN written' /\ N \notin DOMAIN written
      /\ written'[N].from = "us"
      /\ \A m \in DOMAIN written : m \in DOMAIN written' /\ written'[m] = written[m]
      /\ \A m \in DOMAIN written' : m \in DOMAIN written \/ m = N
  BY <1>1, WriteOrders
<1>4. sender'.at = "asked" /\ sender'.row = i /\ sender'.ext = N /\ N # 0
  BY <1>2, TypesNow
<1>5. /\ ~Has(N)' /\ ~Knows(N)' /\ ~Waits(N)' /\ (At("pump")' # "idle" => writer'["pump"].id # N)
  BY <1>1, <1>3, <1>4, DeliveredNow, PumpNow
     DEF StoreInv, RowsHold, KnownOnce, Has, Knows, Waits, At
<1>6. SenderHolds'
  <2>1. \A e \in late : e \in DOMAIN written' /\ written'[e].from = "us"
    BY <1>3 DEF StoreInv, SenderHolds, Ours
  <2>2. QED
    BY <1>1, <1>2, <1>3, <1>4, <1>5, <2>1 DEF SenderHolds, Ours, Has, Live, IsRow
<1>7. EchoesAreKnown'
  <2> SUFFICES ASSUME NEW e \in DOMAIN written', Ours(e)', e \notin hit \union late
               PROVE  \/ Exists(e)
                      \/ /\ e = N
                         /\ ~Waits(e)' /\ (At("pump")' # "idle" => writer'["pump"].id # e)
    BY <1>1, <1>4 DEF EchoesAreKnown, Exists, IsRow
  <2>1. CASE e = N
    BY <1>5, <2>1
  <2>2. CASE e # N
    BY <1>1, <1>3, <2>2 DEF StoreInv, EchoesAreKnown, Ours
  <2>3. QED
    BY <2>1, <2>2
<1>8. QED
  BY <1>3, <1>6, <1>7 DEF StoreInv
(* What a step of the provider leaves alone.                               *)
LEMMA ProviderKeeps ==
  ASSUME ConversationInv, StoreInv, UNCHANGED <<written, rows, writer, sender>>, hit \subseteq hit',
         late \subseteq late', \A e \in late' : e \in DOMAIN written /\ Ours(e)
  PROVE  /\ RowsHold' /\ Once' /\ SenderHolds'
         /\ \A m : Has(m)' = Has(m) /\ InPump(m)' = InPump(m) /\ Exists(m)' = Exists(m)
         /\ \A m : FromClient(m)' = FromClient(m)
<1>1. RowsHold'
  BY DEF StoreInv, RowsHold, FromClient, At
<1>2. Once'
  BY DEF StoreInv, Once, Live
<1>3. SenderHolds'
  BY DEF StoreInv, SenderHolds, Live, Ours, IsRow
<1>4. \A m : Has(m)' = Has(m) /\ InPump(m)' = InPump(m) /\ Exists(m)' = Exists(m)
  BY DEF Has, Live, InPump, At, Exists, IsRow
<1>5. QED
  BY <1>1, <1>2, <1>3, <1>4 DEF FromClient

LEMMA RedeliverStore == ASSUME ConversationInv, StoreInv, Redeliver PROVE StoreInv'
<1>1. PICK h \in DOMAIN written : pushes' = Append(pushes, h)
  BY DEF Redeliver
<1>2. UNCHANGED <<written, rows, writer, sender, worker, known, incoming>> /\ hit \subseteq hit' /\ late' = late
  BY HitGrows DEF Redeliver, dbVars
<1>3. \A e \in late' : e \in DOMAIN written /\ Ours(e)
  BY <1>2 DEF StoreInv, SenderHolds
<1>4. /\ RowsHold' /\ Once' /\ SenderHolds'
      /\ \A m : Has(m)' = Has(m) /\ InPump(m)' = InPump(m) /\ Exists(m)' = Exists(m)
      /\ \A m : FromClient(m)' = FromClient(m)
  BY <1>2, <1>3, ProviderKeeps
<1>5. KnownOnce' /\ EchoesAreKnown'
  BY <1>2, <1>4 DEF StoreInv, KnownOnce, EchoesAreKnown, Ours, Knows, Waits, At
<1> PICK p \in Nat : p = Len(pushes) + 1
  BY TypesNow
<1>6. /\ pushes'[p] = h /\ p \in DOMAIN pushes'
      /\ \A i \in DOMAIN pushes : i \in DOMAIN pushes' /\ pushes'[i] = pushes[i] /\ i < p
      /\ \A i \in DOMAIN pushes' : i \in DOMAIN pushes \/ i = p
  <2>1. \A i \in DOMAIN pushes : i < p
    BY TypesNow, SeqFacts
  <2>2. h \in Nat
    BY TypesNow
  <2>3. QED
    BY <1>1, <2>1, <2>2, TypesNow, AppendFacts
<1>7. \A m : Waits(m)' = Waits(m) /\ (Pushed(m) => Pushed(m)')
  BY <1>2, <1>6 DEF Waits, Pushed
<1>8. NoneLost'
  BY <1>2, <1>4, <1>7 DEF StoreInv, NoneLost
<1>9. InOrder'
  <2> SUFFICES ASSUME NEW m \in DOMAIN written, NEW n \in DOMAIN written,
                      m < n, FromClient(m), FromClient(n), m \notin hit
               PROVE  /\ RowsInOrder(m, n)' /\ (InPump(n)' => Has(m)')
                      /\ IncomingInOrder(m, n)' /\ PushesInOrder(m, n)'
    BY <1>2, <1>4 DEF InOrder
  <2>1. /\ RowsInOrder(m, n) /\ (InPump(n) => Has(m))
        /\ IncomingInOrder(m, n) /\ PushesInOrder(m, n)
        /\ Has(m) \/ InPump(m) \/ Waits(m) \/ Pushed(m)
    BY DEF StoreInv, InOrder, NoneLost
  <2>2. RowsInOrder(m, n)' /\ (InPump(n)' => Has(m)') /\ IncomingInOrder(m, n)'
    BY <1>2, <1>4, <2>1 DEF RowsInOrder, IncomingInOrder, Live
  <2>3. PushesInOrder(m, n)'
    BY <1>4, <1>6, <1>7, <2>1 DEF PushesInOrder, Pushed
  <2>4. QED
    BY <2>1, <2>2, <2>3
<1>10. QED
  BY <1>4, <1>5, <1>8, <1>9 DEF StoreInv

(* The head of the queue is taken away: what was behind it moves up.       *)
LEMMA TailMoves ==
  ASSUME NEW s \in Seq(Nat), s # <<>>
  PROVE  /\ 1 \in DOMAIN s /\ s[1] = Head(s)
         /\ \A m : (\E k \in DOMAIN s : s[k] = m) =>
                     m = Head(s) \/ \E k \in DOMAIN Tail(s) : Tail(s)[k] = m
         /\ \A m : (\E k \in DOMAIN Tail(s) : Tail(s)[k] = m) => \E k \in DOMAIN s : s[k] = m
         /\ \A k \in DOMAIN Tail(s) : k + 1 \in DOMAIN s /\ Tail(s)[k] = s[k + 1]
         /\ \A k \in DOMAIN Tail(s) : \A l \in DOMAIN s : l < k + 1 =>
              s[l] = Head(s) \/ \E i \in DOMAIN Tail(s) : i < k /\ Tail(s)[i] = s[l]
<1>1. /\ 1 \in DOMAIN s /\ s[1] = Head(s) /\ Len(s) \in Nat \ {0}
      /\ DOMAIN s = 1..Len(s) /\ DOMAIN Tail(s) = 1..(Len(s) - 1)
      /\ \A i \in DOMAIN Tail(s) : i + 1 \in DOMAIN s /\ Tail(s)[i] = s[i + 1]
  BY TailFacts
<1>2. ASSUME NEW l \in DOMAIN s, l # 1
      PROVE  l - 1 \in DOMAIN Tail(s) /\ Tail(s)[l - 1] = s[l]
  BY <1>1, <1>2
<1>3. \A m : (\E k \in DOMAIN s : s[k] = m) =>
               m = Head(s) \/ \E k \in DOMAIN Tail(s) : Tail(s)[k] = m
  BY <1>1, <1>2
<1>4. \A m : (\E k \in DOMAIN Tail(s) : Tail(s)[k] = m) => \E k \in DOMAIN s : s[k] = m
  BY <1>1
<1>5. ASSUME NEW k \in DOMAIN Tail(s), NEW l \in DOMAIN s, l < k + 1
      PROVE  s[l] = Head(s) \/ \E i \in DOMAIN Tail(s) : i < k /\ Tail(s)[i] = s[l]
  <2>1. CASE l = 1
    BY <1>1, <1>5, <2>1
  <2>2. CASE l # 1
    <3>1. l - 1 \in DOMAIN Tail(s) /\ Tail(s)[l - 1] = s[l] /\ l - 1 < k
      BY SMTT(30), <1>1, <1>2, <1>5, <2>2
    <3>2. QED
      BY <3>1
  <2>3. QED
    BY <2>1, <2>2
<1>6. QED
  BY <1>1, <1>3, <1>4, <1>5

(* A push that is not of the client is taken, or one is lost: what was     *)
(* behind it is as much in order.                                          *)
LEMMA PushGone ==
  ASSUME ConversationInv, StoreInv, pushes # <<>>, pushes' = Tail(pushes),
         hit \subseteq hit', late' = late,
         UNCHANGED <<written, rows, writer, sender, known, incoming>>,
         ~FromClient(Head(pushes)) \/ Head(pushes) \in hit',
         worker' # 0 => ~FromClient(worker')
  PROVE  StoreInv'
<1>1. \A e \in late' : e \in DOMAIN written /\ Ours(e)
  BY DEF StoreInv, SenderHolds
<1>2. /\ RowsHold' /\ Once' /\ SenderHolds'
      /\ \A m : Has(m)' = Has(m) /\ InPump(m)' = InPump(m) /\ Exists(m)' = Exists(m)
      /\ \A m : FromClient(m)' = FromClient(m)
  BY <1>1, ProviderKeeps
<1>3. KnownOnce'
  BY DEF StoreInv, KnownOnce, FromClient
<1>4. EchoesAreKnown'
  BY <1>2 DEF StoreInv, EchoesAreKnown, Ours, Knows, Waits, At
<1>5. /\ \A m : Pushed(m) => m = Head(pushes) \/ Pushed(m)'
      /\ \A m : Waits(m)' = Waits(m)
  BY TypesNow, TailMoves DEF Pushed, Waits
<1>6. NoneLost'
  BY <1>2, <1>5 DEF StoreInv, NoneLost
<1>7. InOrder'
  <2> SUFFICES ASSUME NEW m \in DOMAIN written, NEW n \in DOMAIN written,
                      m < n, FromClient(m), FromClient(n), m \notin hit'
               PROVE  /\ RowsInOrder(m, n)' /\ (InPump(n)' => Has(m)')
                      /\ IncomingInOrder(m, n)' /\ PushesInOrder(m, n)'
    BY <1>2 DEF InOrder
  <2>1. /\ RowsInOrder(m, n) /\ (InPump(n) => Has(m))
        /\ IncomingInOrder(m, n) /\ PushesInOrder(m, n)
    BY DEF StoreInv, InOrder
  <2>2. RowsInOrder(m, n)' /\ (InPump(n)' => Has(m)') /\ IncomingInOrder(m, n)'
    BY <1>2, <2>1 DEF RowsInOrder, IncomingInOrder, Live
  <2>3. m # Head(pushes)
    OBVIOUS
  <2>4. PushesInOrder(m, n)'
    <3> SUFFICES ASSUME NEW k \in DOMAIN pushes', pushes'[k] = n
                 PROVE  Has(m)' \/ InPump(m)' \/ Waits(m)' \/ \E l \in DOMAIN pushes' : l < k /\ pushes'[l] = m
      BY DEF PushesInOrder
    <3>1. /\ k + 1 \in DOMAIN pushes /\ pushes[k + 1] = n
          /\ (\E l \in DOMAIN pushes : l < k + 1 /\ pushes[l] = m) =>
               \E l \in DOMAIN pushes' : l < k /\ pushes'[l] = m
      <4>1. k \in DOMAIN Tail(pushes) /\ Tail(pushes)[k] = n /\ pushes \in Seq(Nat)
        BY TypesNow
      <4>2. QED
        BY <2>3, <4>1, TailMoves
    <3>2. Has(m) \/ InPump(m) \/ Waits(m) \/ \E l \in DOMAIN pushes : l < k + 1 /\ pushes[l] = m
      BY <2>1, <3>1 DEF PushesInOrder
    <3>3. QED
      BY <1>2, <1>5, <3>1, <3>2
  <2>5. QED
    BY <2>2, <2>4
<1>8. QED
  BY <1>2, <1>3, <1>4, <1>6, <1>7 DEF StoreInv

LEMMA PushFailsStore == ASSUME ConversationInv, StoreInv, PushFails PROVE StoreInv'
<1>1. /\ pushes # <<>> /\ pushes' = Tail(pushes) /\ Fault({Head(pushes)})
      /\ UNCHANGED <<written, rows, writer, sender, known, incoming, worker>>
  BY DEF PushFails, dbVars
<1>2. hit \subseteq hit' /\ late' = late /\ Head(pushes) \in hit'
  BY <1>1, HitGrows
<1>3. worker' # 0 => ~FromClient(worker')
  BY <1>1 DEF StoreInv, KnownOnce
<1>4. QED
  BY <1>1, <1>2, <1>3, PushGone

LEMMA TakePushStore == ASSUME ConversationInv, StoreInv, TakePush PROVE StoreInv'
<1> PICK h \in DOMAIN written : h = Head(pushes)
  BY PushTaken DEF TakePush
<1>1. /\ pushes # <<>> /\ pushes' = Tail(pushes) /\ worker = 0
      /\ UNCHANGED <<written, rows, writer, sender, known, hit, late>>
  BY DEF TakePush, dbVars, histVars
<1>2. CASE ~FromClient(h)
  <2>1. incoming' = incoming /\ worker' \in {0, h}
    BY <1>2 DEF TakePush
  <2>2. worker' # 0 => ~FromClient(worker')
    BY <1>2, <2>1
  <2>3. QED
    BY <1>1, <1>2, <2>1, <2>2, PushGone
<1>3. CASE FromClient(h)
  <2>1. incoming' = Append(incoming, h) /\ worker' = worker
    BY <1>3 DEF TakePush
  <2>2. late' = late /\ \A e \in late' : e \in DOMAIN written /\ Ours(e)
    BY <1>1 DEF StoreInv, SenderHolds
  <2>3. /\ RowsHold' /\ Once' /\ SenderHolds'
        /\ \A m : Has(m)' = Has(m) /\ InPump(m)' = InPump(m) /\ Exists(m)' = Exists(m)
        /\ \A m : FromClient(m)' = FromClient(m)
    BY <1>1, <2>2, ProviderKeeps
  <2>4. KnownOnce'
    BY <1>1, <2>1 DEF StoreInv, KnownOnce, FromClient
  <2> PICK q \in Nat : q = Len(incoming) + 1
    BY TypesNow
  <2>5. /\ incoming'[q] = h /\ q \in DOMAIN incoming'
        /\ \A i \in DOMAIN incoming : i \in DOMAIN incoming' /\ incoming'[i] = incoming[i] /\ i < q
        /\ \A i \in DOMAIN incoming' : i \in DOMAIN incoming \/ i = q
    <3>1. \A i \in DOMAIN incoming : i < q
      BY TypesNow, SeqFacts
    <3>2. h \in Nat
      BY TypesNow
    <3>3. QED
      BY SMTT(30), <2>1, <3>1, <3>2, TypesNow, AppendFacts
  <2>6. /\ \A m : Waits(m)' <=> (Waits(m) \/ m = h)
        /\ \A m : Pushed(m) => m = h \/ Pushed(m)'
    BY ZenonT(40), <1>1, <2>5, TypesNow, TailMoves DEF Pushed, Waits
  <2>7. EchoesAreKnown'
    <3>1. \A e \in DOMAIN written : Ours(e) => e # h
      BY <1>3 DEF Ours, FromClient
    <3>2. QED
      BY <1>1, <2>3, <2>6, <3>1 DEF StoreInv, EchoesAreKnown, Ours, Knows, At
  <2>8. NoneLost'
    BY <1>1, <2>3, <2>6 DEF StoreInv, NoneLost
  <2>9. InOrder'
    <3> SUFFICES ASSUME NEW m \in DOMAIN written, NEW n \in DOMAIN written,
                        m < n, FromClient(m), FromClient(n), m \notin hit
                 PROVE  /\ RowsInOrder(m, n)' /\ (InPump(n)' => Has(m)')
                        /\ IncomingInOrder(m, n)' /\ PushesInOrder(m, n)'
      BY <1>1, <2>3 DEF InOrder
    <3>1. /\ RowsInOrder(m, n) /\ (InPump(n) => Has(m))
          /\ IncomingInOrder(m, n) /\ PushesInOrder(m, n)
      BY DEF StoreInv, InOrder
    <3>2. RowsInOrder(m, n)' /\ (InPump(n)' => Has(m)')
      BY <1>1, <2>3, <3>1 DEF RowsInOrder, Live
    <3>3. IncomingInOrder(m, n)'
      <4>1. n = h => Has(m) \/ InPump(m) \/ Waits(m)
        <5>1. 1 \in DOMAIN pushes /\ pushes[1] = h /\ \A l \in DOMAIN pushes : ~(l < 1)
          BY <1>1, TypesNow, TailMoves, SeqFacts
        <5>2. QED
          BY <3>1, <5>1 DEF PushesInOrder
      <4>2. QED
        BY <2>3, <2>5, <3>1, <4>1 DEF IncomingInOrder, Waits
    <3>4. PushesInOrder(m, n)'
      <4> SUFFICES ASSUME NEW k \in DOMAIN pushes', pushes'[k] = n
                   PROVE  Has(m)' \/ InPump(m)' \/ Waits(m)' \/ \E l \in DOMAIN pushes' : l < k /\ pushes'[l] = m
        BY DEF PushesInOrder
      <4>1. /\ k + 1 \in DOMAIN pushes /\ pushes[k + 1] = n
            /\ (\E l \in DOMAIN pushes : l < k + 1 /\ pushes[l] = m) =>
                 m = h \/ \E l \in DOMAIN pushes' : l < k /\ pushes'[l] = m
        <5>1. k \in DOMAIN Tail(pushes) /\ Tail(pushes)[k] = n /\ pushes \in Seq(Nat)
          BY <1>1, TypesNow
        <5>2. QED
          BY <1>1, <5>1, TailMoves
      <4>2. Has(m) \/ InPump(m) \/ Waits(m) \/ \E l \in DOMAIN pushes : l < k + 1 /\ pushes[l] = m
        BY <3>1, <4>1 DEF PushesInOrder
      <4>3. QED
        BY <2>3, <2>6, <4>1, <4>2
    <3>5. QED
      BY <3>2, <3>3, <3>4
  <2>10. QED
    BY <2>3, <2>4, <2>7, <2>8, <2>9 DEF StoreInv
<1>4. QED
  BY <1>2, <1>3
-----------------------------------------------------------------------------
(* The echo memory.  An id that is forgotten while its answer is recorded  *)
(* lets a repeated echo through; that it is not is assumed of every state, *)
(* and shown if the memory holds every message of the run.                 *)

StillKnown == sender.at = "answered" => Knows(sender.ext)

(* What is left of the memory without m.                                   *)
LEMMA WithoutFacts ==
  ASSUME ConversationInv, StoreInv, NEW m \in DOMAIN written
  PROVE  /\ Without(m) \in Seq(Nat)
         /\ \A i \in DOMAIN Without(m) : Without(m)[i] # m /\ Knows(Without(m)[i])
         /\ \A i, j \in DOMAIN Without(m) : Without(m)[i] = Without(m)[j] => i = j
         /\ \A k : Knows(k) /\ k # m => \E i \in DOMAIN Without(m) : Without(m)[i] = k
<1>1. /\ known \in Seq(Nat) /\ DOMAIN known = 1..Len(known) /\ Len(known) \in Nat
      /\ \A i, j \in DOMAIN known : known[i] = known[j] => i = j
      /\ \A i \in DOMAIN known : known[i] \in Nat
  BY SeqFacts DEF StoreInv, KnownOnce
<1>2. CASE ~Knows(m)
  BY <1>1, <1>2 DEF Without, Knows
<1>3. CASE Knows(m)
  <2> PICK p \in DOMAIN known : p = Place(m) /\ known[p] = m
    BY <1>3 DEF Knows, Place
  <2> DEFINE l == SubSeq(known, 1, p - 1)
             q == SubSeq(known, p + 1, Len(known))
  <2>1. /\ p \in 1..Len(known) /\ p - 1 \in Int /\ p + 1 \in Int /\ 1 \in Int /\ Len(known) \in Int
        /\ \A i \in 1..p - 1 : known[i] \in Nat
        /\ \A i \in p + 1..Len(known) : known[i] \in Nat
    BY <1>1
  <2>2. /\ l \in Seq(Nat) /\ Len(l) = IF 1 <= p - 1 THEN (p - 1) - 1 + 1 ELSE 0
        /\ \A i \in 1..(p - 1) - 1 + 1 : l[i] = known[1 + i - 1]
    BY <2>1, SubSeqProperties
  <2>3. /\ q \in Seq(Nat) /\ Len(q) = IF p + 1 <= Len(known) THEN Len(known) - (p + 1) + 1 ELSE 0
        /\ \A i \in 1..Len(known) - (p + 1) + 1 : q[i] = known[(p + 1) + i - 1]
    BY <2>1, SubSeqProperties
  <2>4. Without(m) = l \o q
    BY <1>3 DEF Without, RemoveAt
  <2> HIDE DEF l, q
  <2>5. Len(l) = p - 1 /\ Len(q) = Len(known) - p
    <3>1. p \in Nat /\ Len(known) \in Nat /\ 1 <= p /\ p <= Len(known)
      BY <1>1, <2>1
    <3>2. Len(l) = p - 1
      BY <2>2, <3>1
    <3>3. Len(q) = Len(known) - p
      BY <2>3, <3>1
    <3>4. QED
      BY <3>2, <3>3
  <2>6. /\ Without(m) \in Seq(Nat) /\ Len(Without(m)) = (p - 1) + (Len(known) - p)
        /\ \A i \in 1..(p - 1) + (Len(known) - p) :
             Without(m)[i] = IF i <= p - 1 THEN l[i] ELSE q[i - (p - 1)]
    <3>1. /\ l \o q \in Seq(Nat) /\ Len(l \o q) = Len(l) + Len(q)
          /\ \A i \in 1..Len(l) + Len(q) : (l \o q)[i] = IF i <= Len(l) THEN l[i] ELSE q[i - Len(l)]
      BY <2>2, <2>3, ConcatProperties
    <3>2. QED
      BY <2>4, <2>5, <3>1
  <2>7. DOMAIN Without(m) = 1..Len(known) - 1
    <3>1. Len(Without(m)) = Len(known) - 1
      BY <1>1, <2>1, <2>6
    <3>2. QED
      BY <2>6, <3>1, SeqFacts
  <2>8. \A i \in 1..Len(known) - 1 :
          /\ i < p => i \in DOMAIN known /\ Without(m)[i] = known[i]
          /\ ~(i < p) => i + 1 \in DOMAIN known /\ Without(m)[i] = known[i + 1]
    <3> SUFFICES ASSUME NEW i \in 1..Len(known) - 1
                 PROVE  /\ i < p => i \in DOMAIN known /\ Without(m)[i] = known[i]
                        /\ ~(i < p) => i + 1 \in DOMAIN known /\ Without(m)[i] = known[i + 1]
      OBVIOUS
    <3>1. i \in 1..(p - 1) + (Len(known) - p)
      BY <1>1, <2>1
    <3>2. CASE i < p
      <4>1. i <= p - 1 /\ i \in 1..(p - 1) - 1 + 1 /\ 1 + i - 1 = i /\ i \in 1..Len(known)
        BY <1>1, <2>1, <3>2
      <4>2. QED
        BY <1>1, <2>2, <2>6, <3>1, <3>2, <4>1
    <3>3. CASE ~(i < p)
      <4>1. /\ ~(i <= p - 1) /\ i - (p - 1) \in 1..Len(known) - (p + 1) + 1
            /\ (p + 1) + (i - (p - 1)) - 1 = i + 1 /\ i + 1 \in 1..Len(known)
        <5>1. p \in Nat /\ Len(known) \in Nat /\ i \in Nat /\ p <= i /\ i <= Len(known) - 1 /\ 1 <= p
          BY <1>1, <2>1, <3>3
        <5>2. QED
          BY <5>1
      <4>2. Without(m)[i] = q[i - (p - 1)]
        BY <2>6, <3>1, <4>1
      <4>3. q[i - (p - 1)] = known[(p + 1) + (i - (p - 1)) - 1]
        BY <2>3, <4>1
      <4>4. QED
        BY <1>1, <3>3, <4>1, <4>2, <4>3
    <3>4. QED
      BY <3>2, <3>3
  <2>9. \A i \in DOMAIN Without(m) : Without(m)[i] # m /\ Knows(Without(m)[i])
    <3> SUFFICES ASSUME NEW i \in 1..Len(known) - 1
                 PROVE  Without(m)[i] # m /\ Knows(Without(m)[i])
      BY <2>7
    <3>1. PICK a \in DOMAIN known : a # p /\ Without(m)[i] = known[a]
      <4>1. i # p \/ ~(i < p)
        BY <2>1
      <4>2. ~(i < p) => i + 1 # p
        BY <2>1
      <4>3. i < p => i # p
        BY <2>1
      <4>4. QED
        BY <2>8, <4>2, <4>3
    <3>2. QED
      BY <1>1, <3>1 DEF Knows
  <2>10. \A i, j \in DOMAIN Without(m) : Without(m)[i] = Without(m)[j] => i = j
    <3> SUFFICES ASSUME NEW i \in 1..Len(known) - 1, NEW j \in 1..Len(known) - 1,
                        Without(m)[i] = Without(m)[j]
                 PROVE  i = j
      BY <2>7
    <3> DEFINE a == IF i < p THEN i ELSE i + 1
    <3> DEFINE b == IF j < p THEN j ELSE j + 1
    <3>1. a \in DOMAIN known /\ b \in DOMAIN known /\ Without(m)[i] = known[a] /\ Without(m)[j] = known[b]
      BY <2>8
    <3>2. a = b
      BY <1>1, <3>1
    <3>3. QED
      BY <2>1, <3>2
  <2>11. ASSUME NEW k, Knows(k), k # m
         PROVE  \E i \in DOMAIN Without(m) : Without(m)[i] = k
    <3>1. PICK a \in DOMAIN known : known[a] = k
      BY <2>11 DEF Knows
    <3>2. a # p /\ a \in 1..Len(known)
      BY <1>1, <2>11, <3>1
    <3>3. CASE a < p
      <4>1. a \in 1..Len(known) - 1
        BY <1>1, <2>1, <3>2, <3>3
      <4>2. QED
        BY <2>7, <2>8, <3>1, <3>3, <4>1
    <3>4. CASE ~(a < p)
      <4>1. a - 1 \in 1..Len(known) - 1 /\ ~(a - 1 < p) /\ (a - 1) + 1 = a
        BY <1>1, <2>1, <3>2, <3>4
      <4>2. Without(m)[a - 1] = known[a]
        BY <2>8, <4>1
      <4>3. QED
        BY <2>7, <3>1, <4>1, <4>2
    <3>5. QED
      BY <3>3, <3>4
  <2>12. QED
    BY <2>6, <2>9, <2>10, <2>11
<1>4. QED
  BY <1>2, <1>3

(* The memory with m behind the rest, before the bound is applied.         *)
LEMMA Extended ==
  ASSUME ConversationInv, StoreInv, NEW m \in DOMAIN written, NEW s, s = Append(Without(m), m)
  PROVE  /\ s \in Seq(Nat) /\ s # <<>> /\ DOMAIN s = 1..Len(s) /\ Len(s) \in Nat
         /\ \A i \in DOMAIN s : s[i] \in DOMAIN written /\ (s[i] = m \/ Knows(s[i]))
         /\ \A i, j \in DOMAIN s : s[i] = s[j] => i = j
         /\ \A k : Knows(k) \/ k = m => \E i \in DOMAIN s : s[i] = k
<1> DEFINE w == Without(m)
<1>1. /\ w \in Seq(Nat)
      /\ \A i \in DOMAIN w : w[i] # m /\ Knows(w[i])
      /\ \A i, j \in DOMAIN w : w[i] = w[j] => i = j
      /\ \A k : Knows(k) /\ k # m => \E i \in DOMAIN w : w[i] = k
  BY WithoutFacts
<1>2. m \in Nat /\ \A k : Knows(k) => k \in DOMAIN written
  BY TypesNow DEF StoreInv, KnownOnce, Knows
<1>3. s = Append(w, m)
  OBVIOUS
<1> HIDE DEF w
<1>4. /\ s \in Seq(Nat) /\ Len(w) + 1 \in DOMAIN s /\ s[Len(w) + 1] = m
      /\ \A i \in DOMAIN w : i \in DOMAIN s /\ s[i] = w[i]
      /\ \A i \in DOMAIN s : i \in DOMAIN w \/ i = Len(w) + 1
  BY <1>1, <1>2, <1>3, AppendFacts
<1>5. s # <<>> /\ DOMAIN s = 1..Len(s) /\ Len(s) \in Nat
  BY <1>4, SeqFacts
<1>6. /\ \A i \in DOMAIN s : s[i] \in DOMAIN written /\ (s[i] = m \/ Knows(s[i]))
      /\ \A i, j \in DOMAIN s : s[i] = s[j] => i = j
  <2>1. \A i \in DOMAIN s :
          \/ i = Len(w) + 1 /\ s[i] = m
          \/ i \in DOMAIN w /\ s[i] = w[i] /\ s[i] # m /\ Knows(s[i])
    BY <1>1, <1>4
  <2>2. \A i \in DOMAIN s : s[i] \in DOMAIN written
    BY <1>2, <2>1
  <2>3. \A i, j \in DOMAIN s : s[i] = s[j] => i = j
    BY <1>1, <2>1
  <2>4. QED
    BY <2>1, <2>2, <2>3
<1>7. \A k : Knows(k) \/ k = m => \E i \in DOMAIN s : s[i] = k
  BY <1>1, <1>4
<1>8. QED
  BY <1>4, <1>5, <1>6, <1>7

LEMMA RememberedOnce ==
  ASSUME ConversationInv, StoreInv, NEW m \in DOMAIN written, known' = Remembered(m)
  PROVE  /\ known' \in Seq(Nat)
         /\ \A i \in DOMAIN known' : known'[i] \in DOMAIN written
         /\ \A i, j \in DOMAIN known' : known'[i] = known'[j] => i = j
         /\ \A k : Knows(k)' => Knows(k) \/ k = m
<1> DEFINE s == Append(Without(m), m)
<1>1. /\ s \in Seq(Nat) /\ s # <<>>
      /\ \A i \in DOMAIN s : s[i] \in DOMAIN written /\ (s[i] = m \/ Knows(s[i]))
      /\ \A i, j \in DOMAIN s : s[i] = s[j] => i = j
  BY Extended
<1>2. known' = s \/ known' = Tail(s)
  BY DEF Remembered
<1> HIDE DEF s
<1>3. /\ Tail(s) \in Seq(Nat)
      /\ \A i \in DOMAIN Tail(s) : i \in Nat /\ i + 1 \in DOMAIN s /\ Tail(s)[i] = s[i + 1]
  BY <1>1, TailFacts, SeqFacts
<1>4. CASE known' = s
  BY <1>1, <1>4 DEF Knows
<1>5. CASE known' = Tail(s)
  <2>1. \A i, j \in DOMAIN Tail(s) : Tail(s)[i] = Tail(s)[j] => i = j
    BY <1>1, <1>3
  <2>2. QED
    BY <1>1, <1>3, <1>5, <2>1 DEF Knows
<1>6. QED
  BY <1>2, <1>4, <1>5

LEMMA KnownAreFew ==
  ASSUME ConversationInv, StoreInv, NEW m \in DOMAIN written, NEW s, s = Append(Without(m), m)
  PROVE  Len(s) <= Len(written)
<1>1. /\ s \in Seq(Nat) /\ DOMAIN s = 1..Len(s) /\ Len(s) \in Nat
      /\ \A i \in DOMAIN s : s[i] \in DOMAIN written
      /\ \A i, j \in DOMAIN s : s[i] = s[j] => i = j
  BY Extended
<1>2. /\ DOMAIN written = 1..Len(written) /\ Len(written) \in Nat
  BY TypesNow
<1>3. s \in Injection(1..Len(s), 1..Len(written))
  <2>1. s \in [1..Len(s) -> Nat]
    BY <1>1, LenProperties
  <2>2. s \in [1..Len(s) -> 1..Len(written)]
    BY <1>1, <1>2, <2>1
  <2>3. QED
    BY <1>1, <1>2, <2>2 DEF Injection, IsInjective
<1>4. /\ IsFiniteSet(1..Len(written)) /\ Cardinality(1..Len(written)) = Len(written)
      /\ Cardinality(1..Len(s)) = Len(s)
  <2>1. /\ 1 \in Int /\ Len(s) \in Int /\ Len(written) \in Int
    BY <1>1, <1>2
  <2>2. /\ IsFiniteSet(1..Len(written))
        /\ Cardinality(1..Len(written)) = IF 1 > Len(written) THEN 0 ELSE Len(written) - 1 + 1
        /\ Cardinality(1..Len(s)) = IF 1 > Len(s) THEN 0 ELSE Len(s) - 1 + 1
    BY <2>1, FS_Interval
  <2>3. QED
    BY <1>1, <1>2, <2>1, <2>2
<1>5. QED
  BY <1>3, <1>4, FS_Injection

LEMMA GraceOverStore ==
  ASSUME ConversationInv, StoreInv, StillKnown', GraceOver PROVE StoreInv'
<1> PICK v \in DOMAIN written : v = worker
  BY DeliveredNow DEF GraceOver
<1>1. /\ worker' = 0 /\ ~FromClient(v)
      /\ UNCHANGED <<written, rows, writer, sender, pushes, hit>>
  BY DEF GraceOver, dbVars, histVars, StoreInv, KnownOnce
<1>2. CASE Knows(v)
  <2>1. incoming' = incoming /\ known' = known /\ late' = late
    BY <1>2 DEF GraceOver
  <2>2. \A e \in late : e \in DOMAIN written /\ Ours(e)
    BY DEF StoreInv, SenderHolds
  <2>3. /\ RowsHold' /\ Once' /\ SenderHolds'
        /\ \A m : Has(m)' = Has(m) /\ InPump(m)' = InPump(m) /\ Exists(m)' = Exists(m)
        /\ \A m : FromClient(m)' = FromClient(m)
    BY <1>1, <2>1, <2>2, ProviderKeeps
  <2>4. KnownOnce' /\ EchoesAreKnown'
    BY <1>1, <2>1, <2>3 DEF StoreInv, KnownOnce, EchoesAreKnown, Ours, Knows, Waits, At
  <2>5. RowsStand /\ PumpStands
    BY <1>1, RowsUnmoved, PumpUntouched
  <2>6. InOrder' /\ NoneLost'
    BY <1>1, <2>1, <2>5, SameOrder
  <2>7. QED
    BY <2>3, <2>4, <2>6 DEF StoreInv
<1>3. CASE ~Knows(v)
  <2>1. /\ incoming' = Append(incoming, v) /\ known' \in {known, Remembered(v)}
        /\ late' = IF Answering(v) THEN late \union {v} ELSE late
    BY <1>3 DEF GraceOver
  <2>2. /\ known' \in Seq(Nat)
        /\ \A i \in DOMAIN known' : known'[i] \in DOMAIN written
        /\ \A i, j \in DOMAIN known' : known'[i] = known'[j] => i = j
        /\ \A k : Knows(k)' => Knows(k) \/ k = v
    <3>1. CASE known' = known
      BY <3>1 DEF StoreInv, KnownOnce, Knows
    <3>2. CASE known' = Remembered(v)
      BY <1>3, <3>2, RememberedOnce
    <3>3. QED
      BY <2>1, <3>1, <3>2
  <2>3. late \subseteq late' /\ \A e \in late' : e \in DOMAIN written /\ Ours(e)
    BY <2>1 DEF StoreInv, SenderHolds, Answering
  <2>4. /\ RowsHold' /\ Once' /\ SenderHolds'
        /\ \A m : Has(m)' = Has(m) /\ InPump(m)' = InPump(m) /\ Exists(m)' = Exists(m)
        /\ \A m : FromClient(m)' = FromClient(m)
    BY <1>1, <2>3, ProviderKeeps
  <2>5. KnownOnce'
    BY <1>1, <2>2 DEF KnownOnce
  <2> PICK q \in Nat : q = Len(incoming) + 1
    BY TypesNow
  <2>6. /\ incoming'[q] = v /\ q \in DOMAIN incoming'
        /\ \A i \in DOMAIN incoming : i \in DOMAIN incoming' /\ incoming'[i] = incoming[i] /\ i < q
        /\ \A i \in DOMAIN incoming' : i \in DOMAIN incoming \/ i = q
    <3>1. \A i \in DOMAIN incoming : i < q
      BY TypesNow, SeqFacts
    <3>2. v \in Nat
      BY TypesNow
    <3>3. QED
      BY SMTT(30), <2>1, <3>1, <3>2, TypesNow, AppendFacts
  <2>7. \A m : Waits(m)' <=> (Waits(m) \/ m = v)
    BY <2>6 DEF Waits
  <2>8. EchoesAreKnown'
    <3> SUFFICES ASSUME NEW e \in DOMAIN written, Ours(e), e \notin hit \union late'
                 PROVE  \/ Exists(e)
                        \/ /\ sender.at # "idle" /\ sender.ext = e /\ (sender.at = "answered" => Knows(e)')
                           /\ ~Waits(e)' /\ (At("pump") # "idle" => writer["pump"].id # e)
      BY <1>1, <2>4 DEF EchoesAreKnown, Ours, At
    <3>1. \/ Exists(e)
          \/ /\ sender.at # "idle" /\ sender.ext = e /\ (sender.at = "answered" => Knows(e))
             /\ ~Waits(e) /\ (At("pump") # "idle" => writer["pump"].id # e)
      BY <2>3 DEF StoreInv, EchoesAreKnown
    <3>2. sender.at # "idle" /\ sender.ext = e => e # v \/ sender.at = "answered"
      BY <2>1, TypesNow DEF Answering, SenderType
    <3>3. sender.at = "answered" /\ sender.ext = e => Knows(e)'
      BY <1>1 DEF StillKnown, Knows
    <3>4. QED
      BY <1>3, <2>7, <3>1, <3>2, <3>3
  <2>9. NoneLost'
    BY <1>1, <2>4, <2>7 DEF StoreInv, NoneLost, Pushed
  <2>10. InOrder'
    <3> SUFFICES ASSUME NEW m \in DOMAIN written, NEW n \in DOMAIN written,
                        m < n, FromClient(m), FromClient(n), m \notin hit
                 PROVE  /\ RowsInOrder(m, n)' /\ (InPump(n)' => Has(m)')
                        /\ IncomingInOrder(m, n)' /\ PushesInOrder(m, n)'
      BY <1>1, <2>4 DEF InOrder
    <3>1. /\ RowsInOrder(m, n) /\ (InPump(n) => Has(m))
          /\ IncomingInOrder(m, n) /\ PushesInOrder(m, n) /\ n # v
      BY <1>1 DEF StoreInv, InOrder
    <3>2. RowsInOrder(m, n)' /\ (InPump(n)' => Has(m)')
      BY <1>1, <2>4, <3>1 DEF RowsInOrder, Live
    <3>3. IncomingInOrder(m, n)'
      BY <2>4, <2>6, <3>1 DEF IncomingInOrder
    <3>4. PushesInOrder(m, n)'
      BY <1>1, <2>4, <2>7, <3>1 DEF PushesInOrder
    <3>5. QED
      BY <3>2, <3>3, <3>4
  <2>11. QED
    BY <2>4, <2>5, <2>8, <2>9, <2>10 DEF StoreInv
<1>4. QED
  BY <1>2, <1>3
-----------------------------------------------------------------------------
(* The pump takes a message, and writes it down.                           *)

LEMMA HandleStore == ASSUME ConversationInv, StoreInv, Handle PROVE StoreInv'
<1> PICK h \in DOMAIN written : h = Head(incoming)
  BY TailFacts, TypesNow, DeliveredNow DEF Handle
<1>1. /\ At("pump") = "idle" /\ incoming # <<>> /\ incoming' = Tail(incoming)
      /\ UNCHANGED <<written, pushes, worker, known, rows, sender, hit, late>>
  BY DEF Handle, dbVars, histVars
<1>2. PICK at \in {"contact", "insert", "idle"} :
        /\ writer' = [writer EXCEPT !["pump"] = IF at = "idle" THEN Idle ELSE [at |-> at, id |-> h, row |-> 0]]
        /\ FromClient(h) => at = "contact"
  BY DEF Handle
<1>3. /\ writer'["pump"].at = at /\ (at # "idle" => writer'["pump"].id = h)
  BY <1>2, TypesNow, TwoWriters DEF Idle
<1>4. /\ \A m : Has(m)' = Has(m) /\ Exists(m)' = Exists(m) /\ Pushed(m)' = Pushed(m) /\ ~InPump(m)
      /\ \A m : InPump(m)' => m = h
      /\ FromClient(h) => InPump(h)'
  <2>1. \A m : Has(m)' = Has(m) /\ Exists(m)' = Exists(m) /\ Pushed(m)' = Pushed(m) /\ ~InPump(m)
    BY <1>1 DEF Has, Live, Exists, IsRow, InPump, Holding, Pushed
  <2>2. \A m : InPump(m)' => m = h
    BY <1>3 DEF InPump, At, Holding
  <2>3. FromClient(h) => InPump(h)'
    BY <1>2, <1>3 DEF InPump, At, Holding
  <2>4. QED
    BY <2>1, <2>2, <2>3
<1>5. /\ 1 \in DOMAIN incoming /\ incoming[1] = h /\ incoming \in Seq(Nat)
      /\ \A l \in DOMAIN incoming : ~(l < 1)
      /\ \A m : Waits(m) => m = h \/ Waits(m)'
      /\ \A m : Waits(m)' => Waits(m)
      /\ Waits(h)
  <2>1. incoming \in Seq(Nat) /\ 1 \in DOMAIN incoming /\ incoming[1] = h
    BY <1>1, TypesNow, TailMoves
  <2>2. \A l \in DOMAIN incoming : ~(l < 1)
    BY <2>1, SeqFacts
  <2>3. \A m : Waits(m) => m = h \/ Waits(m)'
    BY <1>1, <2>1, TailMoves DEF Waits
  <2>4. \A m : Waits(m)' => Waits(m)
    BY <1>1, <2>1, TailMoves DEF Waits
  <2>5. QED
    BY <2>1, <2>2, <2>3, <2>4 DEF Waits
<1>6. RowsHold'
  <2>1. \A i \in DOMAIN rows : rows[i].state # "open"
    BY <1>1, NoneOpen
  <2>2. At("pump")' # "commit"
    BY <1>3 DEF At
  <2>3. QED
    BY <1>1, <2>1, <2>2 DEF StoreInv, RowsHold, FromClient
<1>7. SenderHolds' /\ KnownOnce' /\ Once'
  BY <1>1 DEF StoreInv, SenderHolds, KnownOnce, Once, Has, Live, Ours, Knows, IsRow, FromClient
<1>8. EchoesAreKnown'
  <2> SUFFICES ASSUME NEW e \in DOMAIN written, Ours(e), e \notin hit \union late
               PROVE  \/ Exists(e)
                      \/ /\ sender.at # "idle" /\ sender.ext = e /\ (sender.at = "answered" => Knows(e))
                         /\ ~Waits(e)' /\ (at # "idle" => h # e)
    BY <1>1, <1>3, <1>4 DEF EchoesAreKnown, Ours, Knows, At
  <2>1. QED
    BY <1>5 DEF StoreInv, EchoesAreKnown
<1>9. NoneLost'
  BY <1>1, <1>4, <1>5 DEF StoreInv, NoneLost, FromClient
<1>10. InOrder'
  <2> SUFFICES ASSUME NEW m \in DOMAIN written, NEW n \in DOMAIN written,
                      m < n, FromClient(m), FromClient(n), m \notin hit
               PROVE  /\ RowsInOrder(m, n)' /\ (InPump(n)' => Has(m)')
                      /\ IncomingInOrder(m, n)' /\ PushesInOrder(m, n)'
    BY <1>1 DEF InOrder, FromClient
  <2>1. /\ RowsInOrder(m, n) /\ IncomingInOrder(m, n) /\ PushesInOrder(m, n)
    BY DEF StoreInv, InOrder
  <2>2. RowsInOrder(m, n)'
    BY <1>1, <2>1 DEF RowsInOrder, Live
  <2>3. InPump(n)' => Has(m)'
    BY <1>4, <1>5, <2>1 DEF IncomingInOrder
  <2>4. IncomingInOrder(m, n)'
    <3> SUFFICES ASSUME NEW k \in DOMAIN incoming', incoming'[k] = n
                 PROVE  Has(m)' \/ InPump(m)' \/ \E l \in DOMAIN incoming' : l < k /\ incoming'[l] = m
      BY DEF IncomingInOrder
    <3>1. /\ k + 1 \in DOMAIN incoming /\ incoming[k + 1] = n
          /\ (\E l \in DOMAIN incoming : l < k + 1 /\ incoming[l] = m) =>
               m = h \/ \E l \in DOMAIN incoming' : l < k /\ incoming'[l] = m
      <4>1. k \in DOMAIN Tail(incoming) /\ Tail(incoming)[k] = n
        BY <1>1
      <4>2. QED
        BY <1>1, <1>5, <4>1, TailMoves
    <3>2. Has(m) \/ \E l \in DOMAIN incoming : l < k + 1 /\ incoming[l] = m
      BY <1>4, <2>1, <3>1 DEF IncomingInOrder
    <3>3. QED
      BY <1>4, <3>1, <3>2
  <2>5. PushesInOrder(m, n)'
    BY <1>1, <1>4, <1>5, <2>1 DEF PushesInOrder
  <2>6. QED
    BY <2>2, <2>3, <2>4, <2>5
<1>11. QED
  BY <1>6, <1>7, <1>8, <1>9, <1>10 DEF StoreInv

LEMMA PersistStore == ASSUME ConversationInv, StoreInv, Persist PROVE StoreInv'
<1> PICK h \in DOMAIN written : h = writer["pump"].id
  BY PumpNow DEF Persist
<1>1. /\ At("pump") = "insert" /\ UNCHANGED <<written, pushes, incoming, known, worker, sender, hit, late>>
      /\ h # 0 /\ InPump(h) /\ \A m : InPump(m) => m = h
  BY TypesNow DEF Persist, provVars, histVars, InPump, Holding
<1>2. \A i \in DOMAIN rows : rows[i].state # "open"
  BY <1>1, NoneOpen
<1>3. CASE Exists(h)
  <2>1. Rest("pump") /\ rows' = rows
    BY <1>3 DEF Persist
  <2>2. Has(h)'
    BY <1>3, <2>1 DEF Exists, Has, Live, IsRow
  <2>3. PumpStands
    BY <1>1, <1>2, <2>1, <2>2, RestFacts, TwoWriters, PumpRests
  <2>4. QED
    BY <1>1, <2>1, <2>3, RowsUnmoved, StandingStep
<1>4. CASE ~Exists(h)
  <2> PICK r \in Nat : r = Len(rows) + 1
    BY TypesNow
  <2> PICK x \in RowType :
        /\ x = Open(h) /\ x.ext = h /\ x.state = "open" /\ x.out = "none"
        /\ x.dir = "in" => FromClient(h)
    <3>1. Open(h) \in RowType
      BY TypesNow DEF Open, RowType
    <3>2. /\ Open(h).ext = h /\ Open(h).state = "open" /\ Open(h).out = "none"
          /\ Open(h).dir = "in" => FromClient(h)
      BY DEF Open
    <3>3. QED
      BY <3>1, <3>2
  <2>1. /\ rows' = Append(rows, x)
        /\ writer' = [writer EXCEPT !["pump"].at = "commit", !["pump"].row = r]
    BY <1>4 DEF Persist
  <2>2. /\ r \in DOMAIN rows' /\ rows'[r] = x
        /\ \A i \in DOMAIN rows : i \in DOMAIN rows' /\ rows'[i] = rows[i] /\ i < r
        /\ \A i \in DOMAIN rows' : i \in DOMAIN rows \/ i = r
    BY <2>1, TypesNow, AppendFacts, RowAppended DEF RowsKept
  <2>3. writer'["pump"].at = "commit" /\ writer'["pump"].row = r /\ writer'["pump"].id = h
    BY <2>1, TypesNow, WriterNow, TwoWriters DEF WriterType
  <2>4. /\ \A m : Has(m)' <=> (Has(m) \/ m = h)
        /\ \A m : ~InPump(m)' /\ Waits(m)' = Waits(m) /\ Pushed(m)' = Pushed(m)
        /\ \A m : Exists(m) => Exists(m)'
    BY <1>1, <2>2, <2>3 DEF Has, Live, InPump, At, Holding, Waits, Pushed, Exists, IsRow
  <2>5. \A i \in DOMAIN rows : Live(i) => rows[i].ext # h
    BY <1>2, <1>4, TypesNow DEF Live, Exists, IsRow, RowType
  <2>6. RowsHold'
    <3>1. \A i \in DOMAIN rows' :
            /\ rows'[i].ext # 0 => rows'[i].ext \in DOMAIN written
            /\ rows'[i].dir = "in" => rows'[i].ext # 0 /\ FromClient(rows'[i].ext)
            /\ rows'[i].out = "pending" => rows'[i].ext = 0
            /\ rows'[i].state = "open" => i = r
      BY <1>1, <1>2, <2>2 DEF StoreInv, RowsHold
    <3>2. QED
      BY <1>1, <2>2, <2>3, <3>1 DEF RowsHold, At, FromClient
  <2>7. ASSUME Ours(h), h \notin hit \union late PROVE FALSE
    BY <1>1, <1>4, <2>7 DEF StoreInv, EchoesAreKnown
  <2>8. SenderHolds'
    <3>1. ASSUME sender.at # "idle"
          PROVE  /\ sender.row \in DOMAIN rows' /\ rows'[sender.row].state = "row"
                 /\ rows'[sender.row].out = "pending"
                 /\ sender.ext \in DOMAIN written /\ Ours(sender.ext)
      BY <2>2, <3>1 DEF StoreInv, SenderHolds, IsRow
    <3>2. ASSUME sender.at # "idle", NEW i \in DOMAIN rows', rows'[i].state # "void",
                 rows'[i].ext = sender.ext
          PROVE  sender.row < i /\ rows'[i].out = "none" /\ sender.ext \in hit \union late
      <4>1. CASE i = r
        <5>1. sender.ext = h
          BY <2>2, <3>2, <4>1
        <5>2. h \in hit \union late
          BY <2>7, <3>2, <5>1 DEF StoreInv, SenderHolds
        <5>3. sender.row < r
          BY <2>2, <3>2 DEF StoreInv, SenderHolds
        <5>4. QED
          BY <2>2, <4>1, <5>1, <5>2, <5>3
      <4>2. CASE i # r
        BY <2>2, <3>2, <4>2 DEF StoreInv, SenderHolds, Live
      <4>3. QED
        BY <4>1, <4>2
    <3>3. QED
      BY <1>1, <3>1, <3>2 DEF StoreInv, SenderHolds, Ours, Live, IsRow
  <2>9. KnownOnce'
    BY <1>1 DEF StoreInv, KnownOnce, FromClient
  <2>10. EchoesAreKnown'
    BY <1>1, <2>3, <2>4 DEF StoreInv, EchoesAreKnown, Ours, Knows, At
  <2>11. NoneLost'
    BY <1>1, <2>4 DEF StoreInv, NoneLost, FromClient
  <2>12. InOrder'
    <3> SUFFICES ASSUME NEW m \in DOMAIN written, NEW n \in DOMAIN written,
                        m < n, FromClient(m), FromClient(n), m \notin hit
                 PROVE  /\ RowsInOrder(m, n)' /\ (InPump(n)' => Has(m)')
                        /\ IncomingInOrder(m, n)' /\ PushesInOrder(m, n)'
      BY <1>1 DEF InOrder, FromClient
    <3>1. /\ RowsInOrder(m, n) /\ (InPump(n) => Has(m))
          /\ IncomingInOrder(m, n) /\ PushesInOrder(m, n)
      BY DEF StoreInv, InOrder
    <3>2. RowsInOrder(m, n)'
      <4> SUFFICES ASSUME NEW j \in DOMAIN rows', rows'[j].state # "void", rows'[j].ext = n
                   PROVE  \E i \in DOMAIN rows' : i < j /\ rows'[i].state # "void" /\ rows'[i].ext = m
        BY DEF RowsInOrder, Live
      <4>1. CASE j = r
        <5>1. Has(m)
          BY <1>1, <2>2, <3>1, <4>1
        <5>2. QED
          BY <2>2, <4>1, <5>1 DEF Has, Live
      <4>2. CASE j # r
        BY <2>2, <3>1, <4>2 DEF RowsInOrder, Live
      <4>3. QED
        BY <4>1, <4>2
    <3>3. IncomingInOrder(m, n)'
      BY <1>1, <2>4, <3>1 DEF IncomingInOrder
    <3>4. PushesInOrder(m, n)'
      BY <1>1, <2>4, <3>1 DEF PushesInOrder
    <3>5. QED
      BY <2>4, <3>2, <3>3, <3>4
  <2>13. Once'
    <3> SUFFICES ASSUME NEW i \in DOMAIN rows', NEW j \in DOMAIN rows', i < j,
                        rows'[i].state # "void", rows'[j].state # "void",
                        rows'[i].ext # 0, rows'[i].ext \notin hit, rows'[i].ext = rows'[j].ext
                 PROVE  rows'[i].ext \in late /\ rows'[i].out = "sent" /\ rows'[j].out = "none"
      BY <1>1 DEF Once, Live
    <3>1. i # r
      <4>1. i \in Nat /\ j \in Nat /\ j <= r
        BY <2>2, TypesNow
      <4>2. QED
        BY <4>1
    <3>2. i \in DOMAIN rows /\ rows'[i] = rows[i]
      BY <2>2, <3>1
    <3>3. CASE j = r
      BY <2>2, <2>5, <3>2, <3>3 DEF Live
    <3>4. CASE j # r
      BY <2>2, <3>2, <3>4 DEF StoreInv, Once, Live
    <3>5. QED
      BY <3>3, <3>4
  <2>14. QED
    BY <2>6, <2>8, <2>9, <2>10, <2>11, <2>12, <2>13 DEF StoreInv
<1>5. QED
  BY <1>3, <1>4
-----------------------------------------------------------------------------
(* The outbox worker, and the crash.                                       *)

LEMMA AnswerStore ==
  ASSUME ConversationInv, StoreInv, StillKnown', Answer PROVE StoreInv'
<1> PICK e \in DOMAIN written : e = sender.ext
  BY DEF Answer, StoreInv, SenderHolds
<1>1. /\ sender.at = "asked" /\ known' = Remembered(e) /\ sender' = [sender EXCEPT !.at = "answered"]
      /\ UNCHANGED <<written, pushes, worker, incoming, rows, writer, hit, late>>
  BY DEF Answer, dbVars, histVars
<1>2. sender'.at = "answered" /\ sender'.row = sender.row /\ sender'.ext = e
  BY <1>1, TypesNow DEF SenderType
<1>3. /\ known' \in Seq(Nat)
      /\ \A i \in DOMAIN known' : known'[i] \in DOMAIN written
      /\ \A i, j \in DOMAIN known' : known'[i] = known'[j] => i = j
      /\ Knows(e)'
  BY <1>1, <1>2, RememberedOnce DEF StillKnown, Knows
<1>4. KnownOnce'
  BY <1>1, <1>3 DEF StoreInv, KnownOnce, FromClient
<1>5. SenderHolds'
  <2>1. /\ e \in DOMAIN written /\ Ours(e)
        /\ \A i \in DOMAIN rows : Live(i) /\ rows[i].ext = e =>
             sender.row < i /\ rows[i].out = "none" /\ e \in hit \union late
        /\ sender.row \in DOMAIN rows /\ IsRow(sender.row) /\ rows[sender.row].out = "pending"
    BY <1>1 DEF StoreInv, SenderHolds
  <2>2. QED
    BY <1>1, <1>2, <2>1 DEF StoreInv, SenderHolds, Live, Ours, IsRow
<1>6. EchoesAreKnown'
  BY <1>1, <1>2, <1>3 DEF StoreInv, EchoesAreKnown, Exists, IsRow, Ours, Waits, At
<1>7. RowsStand /\ PumpStands
  BY <1>1, RowsUnmoved, PumpUntouched
<1>8. RowsHold' /\ InOrder' /\ NoneLost' /\ Once'
  BY <1>1, <1>7, SameRows, SameOrder
<1>9. QED
  BY <1>4, <1>5, <1>6, <1>8 DEF StoreInv

LEMMA AnswerLostStore == ASSUME ConversationInv, StoreInv, AnswerLost PROVE StoreInv'
<1>1. /\ sender.at # "idle" /\ Fault({sender.ext}) /\ sender' = Resting
      /\ UNCHANGED <<written, pushes, incoming, known, worker, rows, writer>>
  BY DEF AnswerLost, provVars, dbVars
<1>2. hit \subseteq hit' /\ late' = late /\ sender.ext \in hit' /\ sender'.at = "idle"
  BY <1>1, HitGrows DEF Resting
<1>3. RowsStand /\ PumpStands
  BY <1>1, RowsUnmoved, PumpUntouched
<1>4. RowsHold' /\ InOrder' /\ NoneLost' /\ Once'
  BY <1>1, <1>2, <1>3, SameRows, SameOrder
<1>5. SenderHolds' /\ KnownOnce'
  BY <1>1, <1>2 DEF StoreInv, SenderHolds, KnownOnce, FromClient, Ours
<1>6. EchoesAreKnown'
  BY <1>1, <1>2 DEF StoreInv, EchoesAreKnown, Exists, IsRow, Ours
<1>7. QED
  BY <1>4, <1>5, <1>6 DEF StoreInv

LEMMA MarkSentStore == ASSUME ConversationInv, StoreInv, MarkSent PROVE StoreInv'
<1> PICK k \in DOMAIN rows :
      k = sender.row /\ IsRow(k) /\ rows[k].out = "pending" /\ rows[k].ext = 0 /\ rows[k].dir # "in"
  BY DEF MarkSent, StoreInv, SenderHolds, RowsHold
<1> PICK e \in DOMAIN written :
      /\ e = sender.ext /\ Ours(e)
      /\ \A i \in DOMAIN rows : Live(i) /\ rows[i].ext = e =>
           k < i /\ rows[i].out = "none" /\ e \in hit \union late
  BY DEF MarkSent, StoreInv, SenderHolds
<1>1. /\ sender.at # "idle"
      /\ rows' = [rows EXCEPT ![k] = [[@ EXCEPT !.out = "sent"] EXCEPT !.ext = e]]
      /\ sender' = Resting
      /\ UNCHANGED <<written, pushes, incoming, known, worker, writer, hit, late>>
  BY DEF MarkSent, provVars, histVars
<1>2. /\ DOMAIN rows' = DOMAIN rows
      /\ rows'[k].ext = e /\ rows'[k].out = "sent" /\ rows'[k].state = "row" /\ rows'[k].dir = rows[k].dir
      /\ \A i \in DOMAIN rows : i # k => rows'[i] = rows[i]
  <2> DEFINE r == [[rows[k] EXCEPT !.out = "sent"] EXCEPT !.ext = e]
  <2>1. rows[k] \in RowType
    BY TypesNow
  <2>2. r.ext = e /\ r.out = "sent" /\ r.state = rows[k].state /\ r.dir = rows[k].dir
    BY <2>1 DEF RowType
  <2>3. rows' = [rows EXCEPT ![k] = r]
    BY <1>1
  <2> HIDE DEF r
  <2>4. DOMAIN rows' = DOMAIN rows /\ rows'[k] = r /\ \A i \in DOMAIN rows : i # k => rows'[i] = rows[i]
    BY <2>3
  <2>5. QED
    BY <2>2, <2>4 DEF IsRow
<1>3. e # 0 /\ sender'.at = "idle" /\ e \in Nat /\ ~FromClient(e)
  BY <1>1, TypesNow DEF Resting, Ours, FromClient
<1>4. /\ \A m : (m # 0 /\ Has(m)) => Has(m)'
      /\ \A m : (m # e /\ Has(m)') => Has(m)
      /\ \A m : (m # 0 /\ Exists(m)) => Exists(m)'
      /\ Exists(e)'
  BY <1>2 DEF Has, Live, Exists, IsRow
<1>5. \A m : InPump(m)' = InPump(m) /\ Waits(m)' = Waits(m) /\ Pushed(m)' = Pushed(m)
  BY <1>1 DEF InPump, At, Waits, Pushed
<1>6. RowsHold'
  <2>1. \A i \in DOMAIN rows' :
          /\ rows'[i].ext # 0 => rows'[i].ext \in DOMAIN written
          /\ rows'[i].dir = "in" => rows'[i].ext # 0 /\ FromClient(rows'[i].ext)
          /\ rows'[i].out = "pending" => rows'[i].ext = 0
          /\ rows'[i].state = "open" => i # k /\ rows[i].state = "open"
    BY <1>2 DEF StoreInv, RowsHold
  <2>2. At("pump") = "commit" =>
          /\ writer["pump"].row \in DOMAIN rows /\ writer["pump"].row # k
          /\ rows[writer["pump"].row].ext = writer["pump"].id /\ rows[writer["pump"].row].state = "open"
    BY PumpNow DEF StoreInv, RowsHold, IsRow
  <2>3. \A i \in DOMAIN rows : rows[i].state = "open" => At("pump") = "commit" /\ writer["pump"].row = i
    BY DEF StoreInv, RowsHold
  <2>4. QED
    BY <1>1, <1>2, <2>1, <2>2, <2>3 DEF RowsHold, At, FromClient
<1>7. SenderHolds' /\ KnownOnce'
  BY <1>1, <1>3 DEF StoreInv, SenderHolds, KnownOnce, FromClient, Ours
<1>8. EchoesAreKnown'
  <2> SUFFICES ASSUME NEW g \in DOMAIN written, Ours(g), g \notin hit \union late
               PROVE  Exists(g)'
    BY <1>1 DEF EchoesAreKnown, Ours
  <2>1. CASE g = e
    BY <1>4, <2>1
  <2>2. CASE g # e
    BY <1>4, <2>2, TypesNow DEF StoreInv, EchoesAreKnown
  <2>3. QED
    BY <2>1, <2>2
<1>9. NoneLost'
  BY <1>1, <1>4, <1>5, TypesNow DEF StoreInv, NoneLost, FromClient
<1>10. InOrder'
  <2> SUFFICES ASSUME NEW m \in DOMAIN written, NEW n \in DOMAIN written,
                      m < n, FromClient(m), FromClient(n), m \notin hit
               PROVE  /\ RowsInOrder(m, n)' /\ (InPump(n)' => Has(m)')
                      /\ IncomingInOrder(m, n)' /\ PushesInOrder(m, n)'
    BY <1>1 DEF InOrder, FromClient
  <2>1. /\ RowsInOrder(m, n) /\ (InPump(n) => Has(m))
        /\ IncomingInOrder(m, n) /\ PushesInOrder(m, n)
    BY DEF StoreInv, InOrder
  <2>2. m # e /\ n # e /\ m # 0 /\ n # 0
    BY <1>3, TypesNow
  <2>3. RowsInOrder(m, n)'
    <3> SUFFICES ASSUME NEW j \in DOMAIN rows, rows'[j].state # "void", rows'[j].ext = n
                 PROVE  \E i \in DOMAIN rows : i < j /\ rows'[i].state # "void" /\ rows'[i].ext = m
      BY <1>2 DEF RowsInOrder, Live
    <3>1. j # k /\ rows'[j] = rows[j]
      BY <1>2, <2>2
    <3>2. PICK i \in DOMAIN rows : i < j /\ rows[i].state # "void" /\ rows[i].ext = m
      BY <2>1, <3>1 DEF RowsInOrder, Live
    <3>3. rows'[i] = rows[i]
      BY <1>2, <2>2, <3>2
    <3>4. QED
      BY <3>2, <3>3
  <2>4. (InPump(n)' => Has(m)') /\ IncomingInOrder(m, n)' /\ PushesInOrder(m, n)'
    BY <1>1, <1>4, <1>5, <2>1, <2>2 DEF IncomingInOrder, PushesInOrder
  <2>5. QED
    BY <2>3, <2>4
<1>11. Once'
  <2> SUFFICES ASSUME NEW i \in DOMAIN rows, NEW j \in DOMAIN rows, i < j,
                      rows'[i].state # "void", rows'[j].state # "void",
                      rows'[i].ext # 0, rows'[i].ext \notin hit, rows'[i].ext = rows'[j].ext
               PROVE  rows'[i].ext \in late /\ rows'[i].out = "sent" /\ rows'[j].out = "none"
    BY <1>1, <1>2 DEF Once, Live
  <2>1. i # j
    BY TypesNow
  <2>2. CASE i = k
    <3>1. rows'[j] = rows[j] /\ rows[j].ext = e /\ Live(j)
      BY <1>2, <2>1, <2>2 DEF Live
    <3>2. rows[j].out = "none" /\ e \in hit \union late
      BY <3>1
    <3>3. QED
      BY <1>2, <2>2, <3>1, <3>2
  <2>3. CASE j = k
    <3>1. rows'[i] = rows[i] /\ rows[i].ext = e /\ Live(i)
      BY <1>2, <2>1, <2>3 DEF Live
    <3>2. k < i
      BY <3>1
    <3>3. QED
      BY <2>3, <3>2, TypesNow
  <2>4. CASE i # k /\ j # k
    BY <1>2, <2>4 DEF StoreInv, Once, Live
  <2>5. QED
    BY <2>2, <2>3, <2>4
<1>12. QED
  BY <1>6, <1>7, <1>8, <1>9, <1>10, <1>11 DEF StoreInv

LEMMA CrashStore == ASSUME ConversationInv, StoreInv, Crash PROVE StoreInv'
<1>1. /\ Fault(InFlight)
      /\ pushes' = <<>> /\ worker' = 0 /\ known' = <<>> /\ incoming' = <<>>
      /\ rows' = [i \in DOMAIN rows |->
                   IF ~IsRow(i) THEN [rows[i] EXCEPT !.state = "void"] ELSE rows[i]]
      /\ writer' = [w \in Writers |-> Idle]
      /\ sender' = Resting /\ written' = written
  BY DEF Crash
<1>2. hit \subseteq hit' /\ late' = late /\ InFlight \subseteq hit'
  BY <1>1, HitGrows
<1>3. /\ DOMAIN pushes' = {} /\ DOMAIN incoming' = {} /\ DOMAIN known' = {} /\ known' \in Seq(Nat)
      /\ writer'["pump"].at = "idle" /\ sender'.at = "idle"
  BY <1>1, TwoWriters DEF Idle, Resting
<1>4. \A m \in DOMAIN written : (Waits(m) \/ Pushed(m) \/ m = writer["pump"].id \/ m = sender.ext) => m \in hit'
  <2>1. \A m \in DOMAIN written : m # 0
    BY TypesNow
  <2>2. QED
    BY <1>2, <2>1 DEF InFlight, Waits, Pushed
<1>5. RowsStand /\ \A i \in DOMAIN rows' : rows'[i].state # "open"
  <2> DEFINE V == DOMAIN rows
  <2>1. rows' = [i \in DOMAIN rows |->
                  IF i \in V /\ ~IsRow(i) THEN [rows[i] EXCEPT !.state = "void"] ELSE rows[i]]
    BY <1>1
  <2>2. At("pump") = "commit" => writer["pump"].id \in hit'
    BY <1>4, PumpNow
  <2>3. QED
    BY <2>1, <2>2, VoidedStands
<1>6. PumpStands
  BY <1>3, <1>4, <1>5, PumpRests DEF InPump
<1>7. RowsHold'
  BY <1>1, <1>5, <1>6, SameRows
<1>8. SenderHolds' /\ KnownOnce'
  BY <1>1, <1>2, <1>3 DEF StoreInv, SenderHolds, KnownOnce, Ours
<1>9. EchoesAreKnown'
  <2> SUFFICES ASSUME NEW e \in DOMAIN written, Ours(e), e \notin hit' \union late'
               PROVE  Exists(e)'
    BY <1>1 DEF EchoesAreKnown, Ours
  <2>1. Exists(e) /\ e # 0
    BY <1>2, <1>4, TypesNow DEF StoreInv, EchoesAreKnown
  <2>2. QED
    BY <1>5, <2>1, HasStands
<1>10. ASSUME NEW m \in DOMAIN written, FromClient(m), m \notin hit'
       PROVE  Has(m)'
  <2>1. Has(m) /\ m # 0
    BY <1>2, <1>4, <1>10, TypesNow DEF StoreInv, NoneLost, InPump
  <2>2. QED
    BY <1>5, <1>10, <2>1, HasStands
<1>11. NoneLost'
  BY <1>1, <1>10 DEF NoneLost, FromClient
<1>12. InOrder'
  <2> SUFFICES ASSUME NEW m \in DOMAIN written, NEW n \in DOMAIN written,
                      m < n, FromClient(m), FromClient(n), m \notin hit'
               PROVE  /\ RowsInOrder(m, n)' /\ (InPump(n)' => Has(m)')
                      /\ IncomingInOrder(m, n)' /\ PushesInOrder(m, n)'
    BY <1>1 DEF InOrder, FromClient
  <2>1. RowsInOrder(m, n) /\ m # 0 /\ n # 0
    BY <1>2, TypesNow DEF StoreInv, InOrder
  <2>2. RowsInOrder(m, n)'
    BY <1>5, <2>1 DEF RowsStand, RowsInOrder, Live
  <2>3. IncomingInOrder(m, n)' /\ PushesInOrder(m, n)'
    BY <1>3 DEF IncomingInOrder, PushesInOrder
  <2>4. QED
    BY <1>10, <2>2, <2>3
<1>13. Once'
  BY <1>2, <1>5 DEF StoreInv, Once, RowsStand, Live
<1>14. QED
  BY <1>7, <1>8, <1>9, <1>11, <1>12, <1>13 DEF StoreInv

-----------------------------------------------------------------------------
(* The invariant of what is stored.                                        *)

LEMMA InitStore == Init => StoreInv
<1> SUFFICES ASSUME Init PROVE StoreInv
  OBVIOUS
<1>1. /\ DOMAIN written = {} /\ DOMAIN pushes = {} /\ DOMAIN incoming = {} /\ DOMAIN rows = {}
      /\ DOMAIN known = {} /\ known \in Seq(Nat) /\ Len(written) = 0
      /\ worker = 0 /\ At("pump") = "idle" /\ sender.at = "idle"
  BY TwoWriters DEF Init, Idle, Resting, At
<1>2. RowsHold /\ KnownOnce
  BY <1>1 DEF RowsHold, KnownOnce
<1>3. SenderHolds
  BY <1>1, ConversationAssumption DEF Init, SenderHolds
<1>4. EchoesAreKnown /\ InOrder /\ NoneLost /\ Once
  BY <1>1 DEF EchoesAreKnown, InOrder, NoneLost, Once
<1>5. QED
  BY <1>2, <1>3, <1>4 DEF StoreInv

LEMMA NextStore ==
  ASSUME ConversationInv, StoreInv, StillKnown', [Next]_vars PROVE StoreInv'
<1>1. CASE ClientOrPhoneWrites \/ Redeliver
  BY <1>1, WritesStore, RedeliverStore
<1>2. CASE Provider \/ PushFails
  BY <1>2, TakePushStore, GraceOverStore, PushFailsStore DEF Provider
<1>3. CASE Tick \/ LinkChanges \/ Initiate \/ OfflineTooLong \/ Resolve \/ NotFound \/ ResolveFails
  BY <1>3, BesideStores
<1>4. CASE Keys("pump") \/ Keys("init")
  BY <1>4, PumpKeysStore, InitKeysStore
<1>5. CASE Handle \/ Persist \/ Persisted
  BY <1>5, HandleStore, PersistStore, PersistedStore
<1>6. CASE EnqueueTask \/ Autoreply \/ HandlerFails
  BY <1>6, EnqueueTaskStore, AutoreplyStore, HandlerFailsStore
<1>7. CASE Linked \/ ApplyFails \/ PanelSends
  BY <1>7, InitEndsStore
<1>8. CASE Send \/ Answer \/ MarkSent \/ AnswerLost
  BY <1>8, SendStore, AnswerStore, MarkSentStore, AnswerLostStore
<1>9. CASE Crash
  BY <1>9, CrashStore
<1>10. CASE UNCHANGED vars
  <2>1. /\ UNCHANGED <<written, pushes, incoming, known, worker, sender, rows, hit, late>>
        /\ writer'["pump"] = writer["pump"]
    BY <1>10 DEF vars, provVars, dbVars, histVars
  <2>2. QED
    BY <2>1, RowsUnmoved, PumpUntouched, StandingStep
<1>11. QED
  BY <1>1, <1>2, <1>3, <1>4, <1>5, <1>6, <1>7, <1>8, <1>9, <1>10 DEF Next, Pump, Apply

(* A message that no fault strikes is stored once, whether it came as a    *)
(* push, came again, was sent by ourselves or on the telephone, and the    *)
(* client's messages are stored in the order he wrote them: for any number *)
(* of messages, faults and steps, as long as no id is driven out of the    *)
(* echo memory before mark_sent has recorded it.                           *)
THEOREM StoredOnceWhileRemembered == Spec /\ []StillKnown => []StoredOnceInOrder
<1>1. Init => StoreInv
  BY InitStore
<1>2. ConversationInv /\ StoreInv /\ StillKnown' /\ [Next]_vars => StoreInv'
  BY NextStore
<1>3. ConversationInv /\ StoreInv => StoredOnceInOrder
  BY StoreInvImplies
<1>4. QED
  BY <1>1, <1>2, <1>3, ConversationInvariant, PTL DEF Spec

(* A memory that is not full drives nothing out.                           *)
LEMMA RoomIsLeft ==
  ASSUME ConversationInv, StoreInv, EchoMax >= MaxWritten, NEW m \in DOMAIN written,
         known' = Remembered(m)
  PROVE  \A k : Knows(k) \/ k = m => Knows(k)'
<1> DEFINE s == Append(Without(m), m)
<1>1. Len(s) <= Len(written) /\ Len(written) <= MaxWritten
  BY KnownAreFew DEF StoreInv, SenderHolds
<1>2. /\ \A k : Knows(k) \/ k = m => \E i \in DOMAIN s : s[i] = k
      /\ Len(s) \in Nat
  BY Extended
<1> HIDE DEF s
<1>3. Len(written) \in Nat /\ EchoMax \in Nat /\ MaxWritten \in Nat
  BY TypesNow, ConversationAssumption
<1>4. known' = s
  BY <1>1, <1>2, <1>3 DEF Remembered, s
<1>5. QED
  BY <1>2, <1>4 DEF Knows

LEMMA StillKnownStep ==
  ASSUME ConversationInv, StoreInv, StillKnown, EchoMax >= MaxWritten, [Next]_vars
  PROVE  StillKnown'
<1>1. CASE known' = known /\ (sender' = sender \/ sender'.at # "answered")
  BY <1>1 DEF StillKnown, Knows
<1>2. CASE GraceOver
  <2>1. sender' = sender
    BY <1>2 DEF GraceOver
  <2>2. CASE known' = known
    BY <1>1, <2>1, <2>2
  <2>3. CASE known' # known
    <3>1. worker \in DOMAIN written /\ known' = Remembered(worker)
      BY <1>2, <2>3, DeliveredNow DEF GraceOver
    <3>2. \A k : Knows(k) => Knows(k)'
      BY <3>1, RoomIsLeft
    <3>3. QED
      BY <2>1, <3>2 DEF StillKnown, Knows
  <2>4. QED
    BY <2>2, <2>3
<1>3. CASE Answer
  <2>1. /\ sender.at = "asked" /\ known' = Remembered(sender.ext)
        /\ sender' = [sender EXCEPT !.at = "answered"]
    BY <1>3 DEF Answer
  <2>2. sender'.ext = sender.ext
    BY <2>1, TypesNow DEF SenderType
  <2>3. sender.ext \in DOMAIN written
    BY <2>1 DEF StoreInv, SenderHolds
  <2>4. Knows(sender.ext)'
    BY <2>1, <2>2, <2>3, RoomIsLeft
  <2>5. QED
    BY <2>4 DEF StillKnown
<1>4. CASE Send \/ MarkSent \/ AnswerLost \/ Crash
  <2>1. sender'.at # "answered"
    BY <1>4 DEF Send, MarkSent, AnswerLost, Crash, Resting
  <2>2. QED
    BY <2>1 DEF StillKnown
<1>5. CASE ClientOrPhoneWrites \/ Redeliver \/ Tick \/ LinkChanges \/ TakePush \/ PushFails
  BY <1>1, <1>5 DEF ClientOrPhoneWrites, Redeliver, Tick, LinkChanges, TakePush, PushFails, provVars
<1>6. CASE Pump \/ HandlerFails
  BY <1>1, <1>6
     DEF Pump, Keys, Handle, Persist, Persisted, EnqueueTask, Autoreply, HandlerFails, provVars
<1>7. CASE Initiate \/ Apply \/ NotFound \/ ResolveFails \/ ApplyFails \/ PanelSends
  BY <1>1, <1>7
     DEF Initiate, Apply, Keys, Resolve, OfflineTooLong, Linked, NotFound, ResolveFails,
         ApplyFails, PanelSends, provVars
<1>8. CASE UNCHANGED vars
  BY <1>1, <1>8 DEF vars, provVars
<1>9. QED
  BY <1>2, <1>3, <1>4, <1>5, <1>6, <1>7, <1>8 DEF Next, Provider

(* And none is as long as the echo memory can hold every message, so that  *)
(* nothing has to be assumed of the states then.                           *)
THEOREM MessagesAreStoredOnce ==
  ASSUME EchoMax >= MaxWritten
  PROVE  Spec => []StoredOnceInOrder
<1>1. Init => StoreInv /\ StillKnown
  BY InitStore DEF Init, StillKnown, Resting
<1>2. ConversationInv /\ StoreInv /\ StillKnown /\ [Next]_vars => (StoreInv /\ StillKnown)'
  BY NextStore, StillKnownStep
<1>3. ConversationInv /\ StoreInv => StoredOnceInOrder
  BY StoreInvImplies
<1>4. QED
  BY <1>1, <1>2, <1>3, ConversationInvariant, PTL DEF Spec
=============================================================================
