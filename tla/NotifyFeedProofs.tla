-------------------------- MODULE NotifyFeedProofs --------------------------
(***************************************************************************)
(* Proofs about NotifyFeed, for any number of recipients, messages, faults *)
(* and attempts, and any size of the batches.                              *)
(***************************************************************************)
EXTENDS NotifyFeed, Integers, FiniteSetTheorems, SequenceTheorems, WellFoundedInduction, TLAPS

Resting == {"rest", "next", "enqueue"}
Stages == Resting \union
  {"sync", "apply", "comment", "record", "stats", "upsert", "recheck", "skip", "done", "retry"}
Modes == {"purge", "render", "undo", "clear", "sweep"}
TaskType ==
  [kind : {"inbound", "outbound", "notify"}, msg : Nat,
   status : {"queued", "retrying", "done", "failed"}, attempts : Nat]
NoticeType == [to : Recipient, id : Nat \ {0}, upto : Nat]

NotifyTypes ==
  /\ log \in Seq({"in", "out", "auto"}) /\ team \in Teams
  /\ tasks \in Seq(TaskType) /\ ready \in Seq(Nat)
  /\ rows \subseteq Recipient /\ slot \in [Recipient -> Nat] /\ dismissed \subseteq rows
  /\ feed \subseteq NoticeType /\ IsFiniteSet(feed) /\ posted \in Nat
  /\ left \in Nat /\ op \in Stages \union {"row", "delete", "post", "save"}
  /\ mode \in Modes \union {"none"} /\ todo \subseteq Recipient
  /\ row \in Recipient \union {NoRow} /\ fresh \in Nat /\ told \subseteq Recipient /\ upto \in Nat
  /\ clicked \in Nat /\ faults \in Nat

(* Between the rows the worker holds nothing but the list; in a row it     *)
(* holds the row, and the id of a notice it has posted.                    *)
StageHolds ==
  /\ op \in Stages => mode = "none" /\ todo = {}
  /\ op \in Stages \union {"row"} => row = NoRow
  /\ op \notin Stages => mode # "none"
  /\ op \in {"delete", "post", "save"} => row \in Recipient
  /\ op = "post" => mode = "render"
  /\ fresh # 0 <=> op = "save" /\ mode = "render"

(* A task is in work: it is the first of those that are due.               *)
Busy == op \notin Resting /\ mode # "sweep"

(* What is due are open tasks, each once, and the batch is among them.     *)
QueueHolds ==
  /\ \A t \in DOMAIN tasks : tasks[t].msg \in DOMAIN log
  /\ \A t \in DOMAIN tasks : tasks[t].kind # "notify" => tasks[t].kind = Kind(tasks[t].msg)
  /\ \A i \in DOMAIN ready :
       ready[i] \in DOMAIN tasks /\ tasks[ready[i]].status \in {"queued", "retrying"}
  /\ \A i, j \in DOMAIN ready : ready[i] = ready[j] => i = j
  /\ IF op = "enqueue" THEN 0 < left /\ left <= Len(ready) + 1 ELSE left <= Len(ready)
  /\ Busy => 0 < left
  /\ op = "enqueue" => upto \in DOMAIN log

(* An id is given once, a slot knows one notice, and nobody else's.        *)
IdsHold ==
  /\ \A f \in feed : f.id <= posted
  /\ \A f, g \in feed : f.id = g.id => f = g
  /\ \A r \in Recipient : slot[r] <= posted
  /\ \A r, s \in Recipient : slot[r] = slot[s] /\ slot[r] # 0 => r = s
  /\ fresh # 0 =>
       /\ \E f \in feed : f.id = fresh /\ f.to = row /\ f.upto = upto
       /\ fresh <= posted /\ \A r \in Recipient : slot[r] # fresh

WorkerInv == NotifyTypes /\ StageHolds /\ QueueHolds /\ IdsHold

(* What is done with the rows goes with the kind of the task in work.      *)
KindsHold ==
  /\ op \in {"sync", "apply"} => task.kind = "inbound"
  /\ op \in {"stats", "upsert", "recheck", "skip"} \/ mode \in {"purge", "render", "undo"} =>
       task.kind = "notify"
  /\ mode = "clear" /\ (todo # {} \/ row # NoRow) =>
       task.kind = "notify" \/ (task.kind = "outbound" /\ log[task.msg] = "out")

(* Notices that no row knows, and the one the row in work is about to      *)
(* forget, which a refused deletion has left.                              *)
Loosed ==
  {f \in feed : f.id # fresh /\ (f.id # slot[f.to] \/ (op \in {"post", "save"} /\ f.to = row))}
NoticesCounted == Cardinality(Loosed) <= faults

(* While notices are shown to nobody's need, something is still to come    *)
(* that clears them: the task of an answer, a notify task, or the work on  *)
(* the rows.                                                               *)
Passing == Busy /\ (op \in {"comment", "record", "done", "skip"} \/ mode \in {"undo", "clear"})
Past(t) == Passing /\ t = cur
Clearing(t) == tasks[t].kind = "notify" \/ (tasks[t].kind = "outbound" /\ log[tasks[t].msg] = "out")
Clears(t) == tasks[t].status # "done" /\ ~Past(t) /\ Clearing(t)
Untold(m) == \A t \in DOMAIN tasks : tasks[t].msg # m
NoticesGo ==
  Unanswered = {} /\ Live # {} =>
    \/ \E m \in Answers : Untold(m)
    \/ \E t \in DOMAIN tasks : Clears(t)
    \/ mode \in {"clear", "undo"} /\ Live \subseteq todo \union {row}

(* Until everyone is shown the last message of a client nobody answered,   *)
(* something is still to come that shows it.                               *)
Last(m)  == m \in Inbound /\ \A k \in Inbound : k <= m
Open(t)  == tasks[t].status \in {"queued", "retrying"}
Shows(r, m) == r \notin dismissed /\ \E f \in feed : f.id = slot[r] /\ f.upto = m
Deciding(t) == Busy /\ op # "stats" /\ t = cur
ToRender(m) ==
  \/ Untold(m)
  \/ \E t \in DOMAIN tasks : tasks[t].kind = "inbound" /\ tasks[t].msg = m /\ Open(t)
  \/ op = "enqueue" /\ upto = m
  \/ \E t \in DOMAIN tasks : tasks[t].kind = "notify" /\ Open(t) /\ ~Deciding(t)
Rendering(m) ==
  /\ op = "upsert" \/ mode \in {"purge", "render"}
  /\ upto = m
  /\ mode = "render" => rows # {} /\ \A r \in rows \ (todo \union {row}) : Shows(r, m)
Rendered(m) ==
  /\ op # "upsert" /\ mode \notin {"purge", "render"} /\ todo = {} /\ row = NoRow
  /\ rows # {} /\ \A r \in rows : Shows(r, m)
Kept(m) == ToRender(m) \/ Rendering(m) \/ Rendered(m)
SomebodyTold == op \in {"stats", "upsert"} \/ mode = "purge" => told # {}
ContactKept ==
  /\ faults = 0 => op # "retry"
  /\ SomebodyTold
  /\ \A m : faults = 0 /\ Answers = {} /\ Last(m) /\ clicked < m => Kept(m)

-----------------------------------------------------------------------------
(* The worker: types, stages, the queue, and the ids of the notices.       *)

LEMMA AppendFacts ==
  ASSUME NEW S, NEW s \in Seq(S), NEW x \in S
  PROVE  /\ Append(s, x) \in Seq(S) /\ Len(Append(s, x)) = Len(s) + 1
         /\ DOMAIN s = 1..Len(s) /\ Len(s) \in Nat
         /\ DOMAIN Append(s, x) = 1..(Len(s) + 1)
         /\ Append(s, x)[Len(s) + 1] = x
         /\ \A i \in DOMAIN s : Append(s, x)[i] = s[i] /\ i \in DOMAIN Append(s, x) /\ i \in Nat
         /\ \A i \in DOMAIN Append(s, x) : i \in DOMAIN s \/ i = Len(s) + 1
OBVIOUS

LEMMA TailFacts ==
  ASSUME NEW S, NEW s \in Seq(S), s # <<>>
  PROVE  /\ Tail(s) \in Seq(S) /\ Len(Tail(s)) = Len(s) - 1 /\ 1 \in DOMAIN s /\ Head(s) = s[1]
         /\ \A i \in DOMAIN Tail(s) : i + 1 \in DOMAIN s /\ i + 1 # 1 /\ Tail(s)[i] = s[i + 1]
OBVIOUS

LEMMA TypesNow ==
  ASSUME WorkerInv
  PROVE  /\ log \in Seq({"in", "out", "auto"}) /\ DOMAIN log = 1..Len(log) /\ Len(log) \in Nat
         /\ team \in Teams /\ Teams \subseteq SUBSET Recipient /\ NoRow \notin Recipient
         /\ tasks \in Seq(TaskType) /\ DOMAIN tasks = 1..Len(tasks) /\ Len(tasks) \in Nat
         /\ \A t \in DOMAIN tasks : tasks[t] \in TaskType /\ t \in Nat
         /\ ready \in Seq(Nat) /\ Len(ready) \in Nat /\ DOMAIN ready = 1..Len(ready)
         /\ rows \subseteq Recipient /\ slot \in [Recipient -> Nat] /\ dismissed \subseteq rows
         /\ feed \subseteq NoticeType /\ IsFiniteSet(feed) /\ posted \in Nat
         /\ left \in Nat /\ op \in Stages \union {"row", "delete", "post", "save"}
         /\ mode \in Modes \union {"none"} /\ todo \subseteq Recipient
         /\ row \in Recipient \union {NoRow} /\ fresh \in Nat /\ told \subseteq Recipient
         /\ upto \in Nat /\ clicked \in Nat /\ faults \in Nat
BY NotifyAssumption DEF WorkerInv, NotifyTypes

(* Where there is a task to handle, it is the first that is due.           *)
LEMMA CurNow ==
  ASSUME WorkerInv, 0 < left, op # "enqueue"
  PROVE  /\ ready # <<>> /\ cur = ready[1] /\ 1 \in DOMAIN ready /\ cur \in DOMAIN tasks /\ cur \in Nat
         /\ task \in TaskType /\ task = tasks[cur] /\ task.status \in {"queued", "retrying"}
         /\ task.msg \in DOMAIN log /\ task.msg \in Nat /\ task.kind \in {"inbound", "outbound", "notify"}
         /\ task.attempts \in Nat
         /\ task.kind # "notify" => task.kind = Kind(task.msg)
<1>1. left <= Len(ready)
  BY DEF WorkerInv, QueueHolds
<1>2. ready \in Seq(Nat) /\ ready # <<>> /\ 1 \in DOMAIN ready
  BY <1>1, TypesNow
<1>3. cur = ready[1]
  BY <1>2, TailFacts DEF cur
<1>4. cur \in DOMAIN tasks /\ tasks[cur].status \in {"queued", "retrying"}
  BY <1>2, <1>3 DEF WorkerInv, QueueHolds
<1>5. task \in TaskType /\ task = tasks[cur] /\ cur \in Nat
  BY <1>4, TypesNow DEF task
<1>6. task.msg \in DOMAIN log /\ (task.kind # "notify" => task.kind = Kind(task.msg))
  BY <1>4, <1>5 DEF WorkerInv, QueueHolds
<1>7. task.msg \in Nat
  BY <1>6, TypesNow
<1>8. QED
  BY <1>2, <1>3, <1>4, <1>5, <1>6, <1>7 DEF TaskType

LEMMA BusyNow == ASSUME WorkerInv, Busy PROVE 0 < left /\ op # "enqueue"
BY DEF WorkerInv, QueueHolds, Busy, Resting

LEMMA InitWorker == Init => WorkerInv
<1> SUFFICES ASSUME Init PROVE WorkerInv
  OBVIOUS
<1>1. NotifyTypes
  <2>1. IsFiniteSet(feed) /\ slot \in [Recipient -> Nat]
    BY FS_EmptySet DEF Init
  <2>2. QED
    BY <2>1 DEF Init, NotifyTypes, Stages, Resting, TaskType
<1>2. StageHolds /\ QueueHolds
  BY DEF Init, StageHolds, QueueHolds, Busy, Stages, Resting
<1>3. IdsHold
  BY DEF Init, IdsHold
<1>4. QED
  BY <1>1, <1>2, <1>3 DEF WorkerInv

(* A settled task keeps its message and kind, and leaves the due ones.     *)
LEMMA SettleFacts ==
  ASSUME WorkerInv, 0 < left, op # "enqueue",
         NEW st \in {"retrying", "done", "failed"}, NEW n \in Nat, Settle(st, n)
  PROVE  /\ tasks' \in Seq(TaskType) /\ ready' \in Seq(Nat) /\ Len(ready') = Len(ready) - 1
         /\ DOMAIN tasks' = DOMAIN tasks /\ Len(tasks') = Len(tasks)
         /\ \A t \in DOMAIN tasks :
              /\ tasks'[t].kind = tasks[t].kind /\ tasks'[t].msg = tasks[t].msg
              /\ tasks'[t].status = IF t = cur THEN st ELSE tasks[t].status
         /\ \A i \in DOMAIN ready' :
              i + 1 \in DOMAIN ready /\ i \in Nat /\ ready'[i] = ready[i + 1] /\ ready'[i] # cur
<1> DEFINE r == [[tasks[cur] EXCEPT !.status = st] EXCEPT !.attempts = n]
<1>1. cur \in DOMAIN tasks /\ cur = ready[1] /\ ready # <<>> /\ 1 \in DOMAIN ready
  BY CurNow
<1>2. tasks' = [tasks EXCEPT ![cur] = r] /\ ready' = Tail(ready)
  BY DEF Settle
<1>3. r \in TaskType /\ r.kind = tasks[cur].kind /\ r.msg = tasks[cur].msg /\ r.status = st
  <2>1. tasks[cur] \in TaskType
    BY <1>1, TypesNow
  <2>2. QED
    BY <2>1 DEF TaskType
<1> HIDE DEF r
<1>4. /\ tasks' \in Seq(TaskType) /\ DOMAIN tasks' = DOMAIN tasks /\ Len(tasks') = Len(tasks)
      /\ tasks'[cur] = r /\ \A t \in DOMAIN tasks : t # cur => tasks'[t] = tasks[t]
  BY <1>1, <1>2, <1>3, TypesNow
<1>5. /\ ready' \in Seq(Nat) /\ Len(ready') = Len(ready) - 1
      /\ \A i \in DOMAIN ready' : i + 1 \in DOMAIN ready /\ i + 1 # 1 /\ ready'[i] = ready[i + 1]
  BY <1>1, <1>2, TypesNow, TailFacts
<1>6. \A i \in DOMAIN ready' : ready'[i] # cur /\ i \in Nat
  BY SMTT(30), <1>1, <1>5 DEF WorkerInv, QueueHolds
<1>7. QED
  BY <1>3, <1>4, <1>5, <1>6

LEMMA EnqueueFacts ==
  ASSUME WorkerInv, NEW k \in {"inbound", "outbound", "notify"}, NEW m \in Nat, Enqueue(k, m)
  PROVE  /\ tasks' \in Seq(TaskType) /\ ready' \in Seq(Nat) /\ Len(ready') = Len(ready) + 1
         /\ Len(tasks) + 1 \in DOMAIN tasks' /\ Len(tasks) + 1 \notin DOMAIN tasks
         /\ tasks'[Len(tasks) + 1].kind = k /\ tasks'[Len(tasks) + 1].msg = m
         /\ tasks'[Len(tasks) + 1].status = "queued"
         /\ \A t \in DOMAIN tasks : t \in DOMAIN tasks' /\ tasks'[t] = tasks[t]
         /\ \A t \in DOMAIN tasks' : t \in DOMAIN tasks \/ t = Len(tasks) + 1
         /\ \A i \in DOMAIN ready : i \in DOMAIN ready' /\ ready'[i] = ready[i]
         /\ Len(ready) + 1 \in DOMAIN ready' /\ Len(ready) + 1 \notin DOMAIN ready
         /\ ready'[Len(ready) + 1] = Len(tasks) + 1
         /\ \A i \in DOMAIN ready' : i \in DOMAIN ready \/ i = Len(ready) + 1
<1> DEFINE r == [kind |-> k, msg |-> m, status |-> "queued", attempts |-> 0]
<1>1. r \in TaskType /\ r.kind = k /\ r.msg = m /\ r.status = "queued"
  BY DEF TaskType
<1>2. tasks' = Append(tasks, r) /\ ready' = Append(ready, Len(tasks) + 1)
  BY DEF Enqueue
<1> HIDE DEF r
<1>3. tasks \in Seq(TaskType) /\ ready \in Seq(Nat) /\ Len(tasks) + 1 \in Nat
  BY TypesNow
<1>4. /\ tasks' \in Seq(TaskType) /\ Len(tasks) + 1 \in DOMAIN tasks' /\ Len(tasks) + 1 \notin DOMAIN tasks
      /\ tasks'[Len(tasks) + 1] = r
      /\ \A t \in DOMAIN tasks : t \in DOMAIN tasks' /\ tasks'[t] = tasks[t]
      /\ \A t \in DOMAIN tasks' : t \in DOMAIN tasks \/ t = Len(tasks) + 1
  BY <1>1, <1>2, <1>3, AppendFacts
<1>5. /\ ready' \in Seq(Nat) /\ Len(ready') = Len(ready) + 1
      /\ \A i \in DOMAIN ready : i \in DOMAIN ready' /\ ready'[i] = ready[i]
      /\ Len(ready) + 1 \in DOMAIN ready' /\ Len(ready) + 1 \notin DOMAIN ready
      /\ ready'[Len(ready) + 1] = Len(tasks) + 1
      /\ \A i \in DOMAIN ready' : i \in DOMAIN ready \/ i = Len(ready) + 1
  BY <1>2, <1>3, AppendFacts
<1>6. QED
  BY <1>1, <1>4, <1>5

LEMMA WakeFacts ==
  ASSUME WorkerInv, NEW t \in DOMAIN tasks, ready' = Append(ready, t)
  PROVE  /\ ready' \in Seq(Nat) /\ Len(ready') = Len(ready) + 1
         /\ \A i \in DOMAIN ready : i \in DOMAIN ready' /\ ready'[i] = ready[i]
         /\ Len(ready) + 1 \in DOMAIN ready' /\ Len(ready) + 1 \notin DOMAIN ready
         /\ ready'[Len(ready) + 1] = t
         /\ \A i \in DOMAIN ready' : i \in DOMAIN ready \/ i = Len(ready) + 1
<1>1. t \in Nat /\ ready \in Seq(Nat)
  BY TypesNow
<1>2. QED
  BY <1>1, AppendFacts

(* New tasks and new due times come after the first due task.              *)
LEMMA CurStays ==
  ASSUME WorkerInv, Busy, 1 \in DOMAIN ready', ready'[1] = ready[1], ready' \in Seq(Nat)
  PROVE  cur' = cur
<1>1. cur = ready[1]
  BY BusyNow, CurNow
<1>2. ready' # <<>> /\ Head(ready') = ready'[1]
  BY TailFacts
<1>3. QED
  BY <1>1, <1>2 DEF cur

LEMMA NoticeFacts ==
  ASSUME WorkerInv, row \in Recipient
  PROVE  NewNotice \subseteq NoticeType /\ IsFiniteSet(NewNotice)
<1> DEFINE n == [to |-> row, id |-> posted + 1, upto |-> upto]
<1>1. n \in NoticeType
  BY TypesNow DEF NoticeType
<1>2. IsFiniteSet(feed \union {n})
  BY TypesNow, FS_AddElement
<1>3. QED
  BY <1>1, <1>2, TypesNow DEF NewNotice

LEMMA DeletedFacts ==
  ASSUME WorkerInv
  PROVE  Deleted \subseteq feed /\ Deleted \subseteq NoticeType /\ IsFiniteSet(Deleted)
<1>1. Deleted \subseteq feed
  BY DEF Deleted
<1>2. QED
  BY <1>1, TypesNow, FS_Subset

Below == {p \in Nat \X Nat : p[1] < p[2]}

LEMMA BelowWellFounded == IsWellFoundedOn(Below, Nat)
BY NatLessThanWellFounded DEF Below, OpToRel

(* There is a last inbound message, if there is one at all.                *)
LEMMA InboundLast ==
  ASSUME WorkerInv, Inbound # {}
  PROVE  \E m \in Inbound : \A k \in Inbound : k <= m
<1> DEFINE U == {u \in Nat : \A k \in Inbound : k <= u}
<1>1. Inbound \subseteq Nat /\ Len(log) \in U
  BY TypesNow DEF Inbound
<1>2. U \subseteq Nat
  OBVIOUS
<1> HIDE DEF U
<1>3. PICK u \in U : \A v \in U : ~(<<v, u>> \in Below)
  BY <1>1, <1>2, BelowWellFounded, WFMin
<1>4. u \in Nat /\ \A k \in Inbound : k <= u
  BY <1>3 DEF U
<1>5. ASSUME u \notin Inbound PROVE FALSE
  <2>1. \A k \in Inbound : k < u
    BY <1>1, <1>4, <1>5
  <2>2. u # 0
    <3>1. PICK k \in Inbound : k < u
      BY <2>1
    <3>2. QED
      BY <1>1, <1>4, <3>1
  <2>3. u - 1 \in U
    BY <1>1, <1>4, <2>1, <2>2 DEF U
  <2>4. <<u - 1, u>> \in Below
    BY <1>4, <2>2 DEF Below
  <2>5. QED
    BY <1>3, <2>3, <2>4
<1>6. QED
  BY <1>4, <1>5

(* A step keeps the types.                                                 *)
LEMMA OutsideTypes == ASSUME WorkerInv, Outside PROVE NotifyTypes'
<1> USE TypesNow
<1>1. CASE \E dir \in {"in", "out", "auto"} : Message(dir)
  BY <1>1 DEF Message, NotifyTypes, rowVars, b24Vars, workVars, histVars
<1>2. ASSUME NEW m \in 1..MaxMessages, EnqueueTask(m) PROVE NotifyTypes'
  <2>1. m \in Nat /\ Kind(m) \in {"inbound", "outbound", "notify"}
    BY NotifyAssumption DEF Kind
  <2>2. tasks' \in Seq(TaskType) /\ ready' \in Seq(Nat)
    BY <1>2, <2>1, EnqueueFacts DEF EnqueueTask
  <2>3. QED
    BY <1>2, <2>2 DEF EnqueueTask, NotifyTypes, rowVars, b24Vars, workVars, histVars
<1>3. CASE \E S \in Teams : Reassign(S)
  BY <1>3 DEF Reassign, NotifyTypes, rowVars, b24Vars, workVars, histVars
<1>4. ASSUME NEW t \in DOMAIN tasks, Wake(t) PROVE NotifyTypes'
  <2>1. ready' \in Seq(Nat)
    BY <1>4, WakeFacts DEF Wake
  <2>2. QED
    BY <1>4, <2>1 DEF Wake, NotifyTypes, rowVars, b24Vars, workVars, histVars
<1>5. CASE Dismiss
  BY <1>5 DEF Dismiss, NotifyTypes, webVars, b24Vars, workVars
<1>6. QED
  BY <1>1, <1>2, <1>3, <1>4, <1>5 DEF Outside

LEMMA BatchTypes ==
  ASSUME WorkerInv, Poll \/ Sweep \/ TakeInbound \/ TakeOutbound \/ TakeNotify PROVE NotifyTypes'
<1> USE TypesNow DEF NotifyTypes, webVars, rowVars, b24Vars, histVars, Stages, Resting, Modes
<1>1. CASE Poll
  <2>1. left' \in Nat
    BY <1>1, NotifyAssumption DEF Poll
  <2>2. QED
    BY <1>1, <2>1 DEF Poll
<1>2. CASE Sweep
  BY <1>2 DEF Sweep, Through
<1>3. CASE TakeInbound
  BY <1>3 DEF TakeInbound
<1>4. CASE TakeOutbound
  BY <1>4 DEF TakeOutbound, Through, Live
<1>5. CASE TakeNotify
  BY <1>5 DEF TakeNotify
<1>6. QED
  BY <1>1, <1>2, <1>3, <1>4, <1>5

LEMMA TaskTypes ==
  ASSUME WorkerInv, Sync \/ Apply \/ MarkDone \/ EnqueueNotify \/ FailOrRetry PROVE NotifyTypes'
<1> USE TypesNow DEF NotifyTypes, webVars, rowVars, b24Vars, histVars, Stages, Resting
<1>1. CASE Sync
  BY <1>1 DEF Sync
<1>2. CASE Apply
  BY <1>2 DEF Apply
<1>3. CASE MarkDone
  <2>1. Busy
    BY <1>3 DEF MarkDone, WorkerInv, StageHolds, Busy
  <2>2. 0 < left /\ op # "enqueue" /\ task.attempts \in Nat /\ task.msg \in Nat
    BY <2>1, BusyNow, CurNow
  <2>3. tasks' \in Seq(TaskType) /\ ready' \in Seq(Nat)
    BY <1>3, <2>2, SettleFacts DEF MarkDone
  <2>4. left - 1 \in Nat
    BY <2>2
  <2>5. op' \in {"enqueue", "next"} /\ upto' \in Nat /\ left' \in Nat
    BY <1>3, <2>2, <2>4 DEF MarkDone
  <2>6. QED
    BY <1>3, <2>3, <2>5 DEF MarkDone
<1>4. CASE EnqueueNotify
  <2>1. tasks' \in Seq(TaskType) /\ ready' \in Seq(Nat)
    BY <1>4, EnqueueFacts DEF EnqueueNotify
  <2>2. left - 1 \in Nat
    BY <1>4 DEF EnqueueNotify, WorkerInv, QueueHolds
  <2>3. QED
    BY <1>4, <2>1, <2>2 DEF EnqueueNotify
<1>5. CASE FailOrRetry
  <2>1. Busy
    BY <1>5 DEF FailOrRetry, WorkerInv, StageHolds, Busy
  <2>2. 0 < left /\ op # "enqueue" /\ task.attempts \in Nat
    BY <2>1, BusyNow, CurNow
  <2>3. PICK st \in {"retrying", "done", "failed"}, n \in Nat : Settle(st, n)
    <3>1. task.attempts + 1 \in Nat
      BY <2>2
    <3>2. QED
      BY <1>5, <3>1 DEF FailOrRetry
  <2>4. tasks' \in Seq(TaskType) /\ ready' \in Seq(Nat)
    BY <2>2, <2>3, SettleFacts
  <2>5. left - 1 \in Nat
    BY <2>2
  <2>6. QED
    BY <1>5, <2>4, <2>5 DEF FailOrRetry
<1>6. QED
  BY <1>1, <1>2, <1>3, <1>4, <1>5

LEMMA NotifyStepTypes ==
  ASSUME WorkerInv, Stats \/ Upsert \/ Recheck \/ RowsDone \/ \E r \in Recipient : NextRow(r)
  PROVE  NotifyTypes'
<1> USE TypesNow DEF NotifyTypes, webVars, rowVars, b24Vars, histVars, Stages, Resting, Modes
<1>1. CASE Stats
  <2>1. IF Inbound = {} THEN TRUE ELSE \E m \in Inbound : \A k \in Inbound : k <= m
    BY InboundLast
  <2>2. upto' \in Nat
    BY SMTT(30), <1>1, <2>1 DEF Stats, Inbound
  <2>3. QED
    BY <1>1, <2>2 DEF Stats, Through, Live
<1>2. CASE Upsert
  BY <1>2 DEF Upsert, Through
<1>3. CASE Recheck
  BY <1>3 DEF Recheck, Through
<1>4. CASE RowsDone
  <2>1. op' \in {"upsert", "recheck", "done", "comment", "rest"}
    BY <1>4 DEF RowsDone, WorkerInv, StageHolds
  <2>2. QED
    BY <1>4, <2>1 DEF RowsDone
<1>5. CASE \E r \in Recipient : NextRow(r)
  BY <1>5 DEF NextRow
<1>6. QED
  BY <1>1, <1>2, <1>3, <1>4, <1>5

LEMMA RowTypes == ASSUME WorkerInv, Delete \/ Post \/ Save PROVE NotifyTypes'
<1> USE TypesNow DEF NotifyTypes, webVars, rowVars, b24Vars, histVars, Stages, Resting, Modes
<1>1. CASE Delete
  BY <1>1, DeletedFacts DEF Delete
<1>2. CASE Post
  BY <1>2, NoticeFacts DEF Post, WorkerInv, StageHolds
<1>3. CASE Save
  BY <1>3 DEF Save, Saved
<1>4. QED
  BY <1>1, <1>2, <1>3

(* What a fault leaves in memory.                                          *)
LEMMA RaisedTypes ==
  ASSUME WorkerInv, Loose
  PROVE  row' = NoRow /\ todo' = {} /\ mode' = "none" /\ fresh' = 0 /\ told' = {} /\ upto' = 0
         /\ told' \subseteq Recipient /\ upto' \in Nat
BY DEF Loose

LEMMA FaultTypes == ASSUME WorkerInv, Failing PROVE NotifyTypes'
<1> USE TypesNow DEF NotifyTypes, webVars, rowVars, b24Vars, histVars, Stages, Resting, Modes, Fault
<1>1. CASE SyncFails \/ ApplyFails \/ Crash
  BY <1>1 DEF SyncFails, ApplyFails, Crash, Raise, Abandon, Loose
<1>2. CASE MarkFails
  <2>1. Busy
    BY <1>2 DEF MarkFails, WorkerInv, StageHolds, Busy
  <2>2. 0 < left /\ op # "enqueue" /\ task.attempts \in Nat
    BY <2>1, BusyNow, CurNow
  <2>3. tasks' \in Seq(TaskType) /\ ready' \in Seq(Nat)
    BY <1>2, <2>2, SettleFacts DEF MarkFails
  <2>4. QED
    BY SMTT(30), <1>2, <2>3 DEF MarkFails, Raise, Abandon, Loose
<1>3. CASE EnqueueFails
  <2>1. left - 1 \in Nat
    BY <1>3 DEF EnqueueFails, WorkerInv, QueueHolds
  <2>2. QED
    BY SMTT(30), <1>3, <2>1 DEF EnqueueFails
<1>4. CASE StatsFails
  BY <1>4 DEF StatsFails, Raise, Loose
<1>5. CASE DeleteRefused
  BY SMTT(30), <1>5 DEF DeleteRefused
<1>6. CASE DeleteFails
  BY <1>6, DeletedFacts DEF DeleteFails, Raise, Loose
<1>7. CASE PostFails
  <2>1. row \in Recipient
    BY <1>7 DEF PostFails, WorkerInv, StageHolds
  <2>2. feed' \subseteq NoticeType /\ IsFiniteSet(feed') /\ posted' \in Nat
    BY <1>7, <2>1, NoticeFacts DEF PostFails
  <2>3. QED
    BY SMTT(30), <1>7, <2>2 DEF PostFails, Raise, Loose
<1>8. CASE SaveFails
  <2>1. row \in Recipient
    BY <1>8 DEF SaveFails, WorkerInv, StageHolds
  <2>2. rows' \subseteq Recipient /\ slot' \in [Recipient -> Nat] /\ dismissed' \subseteq rows'
    <3>1. CASE Saved
      BY <2>1, <3>1 DEF Saved
    <3>2. CASE UNCHANGED rowVars
      BY <3>2
    <3>3. QED
      BY <1>8, <3>1, <3>2 DEF SaveFails
  <2>3. QED
    BY SMTT(30), <1>8, <2>2 DEF SaveFails, Raise, Loose
<1>9. QED
  BY <1>1, <1>2, <1>3, <1>4, <1>5, <1>6, <1>7, <1>8 DEF Failing

LEMMA NextTypes == ASSUME WorkerInv, [Next]_notifyVars PROVE NotifyTypes'
<1>1. CASE Poll \/ Sweep
  BY <1>1, BatchTypes
<1>2. CASE Handle
  BY <1>2, BatchTypes, TaskTypes, NotifyStepTypes, RowTypes DEF Handle
<1>3. CASE Failing \/ Outside
  BY <1>3, FaultTypes, OutsideTypes
<1>4. CASE UNCHANGED notifyVars
  BY <1>4 DEF WorkerInv, NotifyTypes, notifyVars, webVars, rowVars, b24Vars, workVars, histVars
<1>5. QED
  BY <1>1, <1>2, <1>3, <1>4 DEF Next

(* Where the worker goes when the rows are done.                           *)
LEMMA DoneNow ==
  ASSUME WorkerInv, RowsDone
  PROVE  /\ mode \in Modes /\ todo = {} /\ row = NoRow /\ fresh = 0 /\ mode' = "none"
         /\ mode = "purge" => op' = "upsert"
         /\ mode = "render" => op' = "recheck"
         /\ mode = "undo" => op' = "done"
         /\ mode = "clear" => op' = IF task.kind = "outbound" THEN "comment" ELSE "done"
         /\ mode = "sweep" => op' = "rest"
         /\ op' \in {"upsert", "recheck", "done", "comment", "rest"}
<1>1. mode \in Modes /\ todo = {} /\ row = NoRow /\ fresh = 0 /\ mode' = "none"
  BY TypesNow DEF RowsDone, WorkerInv, StageHolds, Stages, Resting, Modes
<1>2. op' = CASE mode = "purge"  -> "upsert"
             [] mode = "render" -> "recheck"
             [] mode = "undo"   -> "done"
             [] mode = "clear"  -> IF task.kind = "outbound" THEN "comment" ELSE "done"
             [] mode = "sweep"  -> "rest"
  BY DEF RowsDone
<1>3. QED
  BY <1>1, <1>2 DEF Modes

(* A step leaves the worker where its stage says.                          *)
LEMMA NextStage == ASSUME WorkerInv, [Next]_notifyVars PROVE StageHolds'
<1> USE TypesNow DEF WorkerInv, StageHolds, Stages, Resting, Modes
<1>1. CASE Poll \/ Sweep \/ TakeInbound \/ TakeOutbound \/ TakeNotify
  BY <1>1 DEF Poll, Sweep, TakeInbound, TakeOutbound, TakeNotify, Through
<1>2. CASE Sync \/ Apply \/ MarkDone \/ EnqueueNotify \/ FailOrRetry
  BY <1>2 DEF Sync, Apply, MarkDone, EnqueueNotify, FailOrRetry
<1>3. CASE Stats \/ Upsert \/ Recheck
  BY <1>3 DEF Stats, Upsert, Recheck, Through
<1>4. CASE RowsDone
  BY <1>4 DEF RowsDone
<1>5. ASSUME NEW r \in Recipient, NextRow(r) PROVE StageHolds'
  BY <1>5 DEF NextRow
<1>6. CASE Delete \/ Post \/ Save
  BY SMTT(30), <1>6 DEF Delete, Post, Save
<1>7. CASE SyncFails \/ ApplyFails \/ Crash \/ MarkFails \/ StatsFails
  BY <1>7 DEF SyncFails, ApplyFails, Crash, MarkFails, StatsFails, Raise, Abandon, Loose
<1>8. CASE EnqueueFails \/ DeleteRefused
  BY <1>8 DEF EnqueueFails, DeleteRefused
<1>9. CASE DeleteFails \/ PostFails \/ SaveFails
  BY <1>9 DEF DeleteFails, PostFails, SaveFails, Raise, Loose
<1>10. CASE Outside
  BY <1>10 DEF Outside, Message, EnqueueTask, Reassign, Wake, Dismiss, workVars
<1>11. CASE UNCHANGED notifyVars
  BY <1>11 DEF notifyVars, workVars
<1>12. QED
  BY <1>1, <1>2, <1>3, <1>4, <1>5, <1>6, <1>7, <1>8, <1>9, <1>10, <1>11 DEF Next, Handle, Failing

(* A step of the worker that leaves the queue alone.                       *)
LEMMA QueueUntouched ==
  ASSUME WorkerInv, UNCHANGED <<log, tasks, ready>>,
         left' <= Len(ready), op' # "enqueue", Busy' => 0 < left'
  PROVE  QueueHolds'
BY DEF WorkerInv, QueueHolds, Kind

(* A task settled, with the stage after it.                                *)
LEMMA QueueSettles ==
  ASSUME WorkerInv, 0 < left, op # "enqueue", log' = log,
         NEW st \in {"retrying", "done", "failed"}, NEW n \in Nat, Settle(st, n),
         \/ op' = "enqueue" /\ left' = left /\ upto' \in DOMAIN log
         \/ op' \in {"next", "rest"} /\ left' \in {0, left - 1}
  PROVE  QueueHolds'
<1> USE DEF Kind
<1>1. /\ Len(ready') = Len(ready) - 1 /\ DOMAIN tasks' = DOMAIN tasks
      /\ \A t \in DOMAIN tasks :
           /\ tasks'[t].kind = tasks[t].kind /\ tasks'[t].msg = tasks[t].msg
           /\ t # cur => tasks'[t].status = tasks[t].status
      /\ \A i \in DOMAIN ready' :
           i + 1 \in DOMAIN ready /\ i \in Nat /\ ready'[i] = ready[i + 1] /\ ready'[i] # cur
  BY SettleFacts
<1>2. /\ \A t \in DOMAIN tasks : tasks[t].msg \in DOMAIN log
      /\ \A t \in DOMAIN tasks : tasks[t].kind # "notify" => tasks[t].kind = Kind(tasks[t].msg)
      /\ \A i \in DOMAIN ready :
           ready[i] \in DOMAIN tasks /\ tasks[ready[i]].status \in {"queued", "retrying"}
      /\ \A i, j \in DOMAIN ready : ready[i] = ready[j] => i = j
      /\ left <= Len(ready) /\ left \in Nat /\ Len(ready) \in Nat
  BY TypesNow DEF WorkerInv, QueueHolds
<1>3. \A t \in DOMAIN tasks' : tasks'[t].msg \in DOMAIN log'
  BY <1>1, <1>2
<1>4. \A t \in DOMAIN tasks' : tasks'[t].kind # "notify" => tasks'[t].kind = Kind(tasks[t].msg)'
  BY <1>1, <1>2
<1>5. \A i \in DOMAIN ready' :
        ready'[i] \in DOMAIN tasks' /\ tasks'[ready'[i]].status \in {"queued", "retrying"}
  BY <1>1, <1>2
<1>6. \A i, j \in DOMAIN ready' : ready'[i] = ready'[j] => i = j
  <2> SUFFICES ASSUME NEW i \in DOMAIN ready', NEW j \in DOMAIN ready', ready'[i] = ready'[j] PROVE i = j
    OBVIOUS
  <2>1. i + 1 = j + 1
    BY <1>1, <1>2
  <2>2. QED
    BY <1>1, <2>1
<1>7. /\ IF op' = "enqueue" THEN 0 < left' /\ left' <= Len(ready') + 1 ELSE left' <= Len(ready')
      /\ ~Busy' /\ (op' = "enqueue" => upto' \in DOMAIN log')
  BY <1>1, <1>2 DEF Busy, Resting
<1>8. QED
  BY <1>3, <1>4, <1>5, <1>6, <1>7 DEF QueueHolds

LEMMA QueueGrows ==
  ASSUME WorkerInv, NEW k \in {"inbound", "outbound", "notify"}, NEW m \in DOMAIN log, Enqueue(k, m),
         k # "notify" => k = Kind(m), log' = log,
         \/ UNCHANGED <<left, op, mode, upto>>
         \/ op = "enqueue" /\ op' = "next" /\ left' = left - 1
  PROVE  QueueHolds'
<1> USE DEF Kind
<1>1. m \in Nat
  BY TypesNow
<1>2. /\ Len(ready') = Len(ready) + 1
      /\ Len(tasks) + 1 \in DOMAIN tasks' /\ Len(tasks) + 1 \notin DOMAIN tasks
      /\ tasks'[Len(tasks) + 1].kind = k /\ tasks'[Len(tasks) + 1].msg = m
      /\ tasks'[Len(tasks) + 1].status = "queued"
      /\ \A t \in DOMAIN tasks : t \in DOMAIN tasks' /\ tasks'[t] = tasks[t]
      /\ \A t \in DOMAIN tasks' : t \in DOMAIN tasks \/ t = Len(tasks) + 1
      /\ \A i \in DOMAIN ready : i \in DOMAIN ready' /\ ready'[i] = ready[i]
      /\ ready'[Len(ready) + 1] = Len(tasks) + 1
      /\ \A i \in DOMAIN ready' : i \in DOMAIN ready \/ i = Len(ready) + 1
  BY <1>1, EnqueueFacts
<1>3. /\ \A t \in DOMAIN tasks : tasks[t].msg \in DOMAIN log
      /\ \A t \in DOMAIN tasks : tasks[t].kind # "notify" => tasks[t].kind = Kind(tasks[t].msg)
      /\ \A i \in DOMAIN ready :
           ready[i] \in DOMAIN tasks /\ tasks[ready[i]].status \in {"queued", "retrying"}
      /\ \A i, j \in DOMAIN ready : ready[i] = ready[j] => i = j
  BY DEF WorkerInv, QueueHolds
<1>4. \A t \in DOMAIN tasks' : tasks'[t].msg \in DOMAIN log'
  BY <1>2, <1>3
<1>5. \A t \in DOMAIN tasks' : tasks'[t].kind # "notify" => tasks'[t].kind = Kind(tasks[t].msg)'
  BY <1>2, <1>3
<1>6. \A i \in DOMAIN ready' :
        ready'[i] \in DOMAIN tasks' /\ tasks'[ready'[i]].status \in {"queued", "retrying"}
  BY <1>2, <1>3
<1>7. \A i, j \in DOMAIN ready' : ready'[i] = ready'[j] => i = j
  BY <1>2, <1>3
<1>8. /\ IF op' = "enqueue" THEN 0 < left' /\ left' <= Len(ready') + 1 ELSE left' <= Len(ready')
      /\ (Busy' => 0 < left') /\ (op' = "enqueue" => upto' \in DOMAIN log')
  <2>1. left \in Nat /\ Len(ready) \in Nat /\ Len(ready') = Len(ready) + 1
    BY <1>2, TypesNow
  <2>2. CASE UNCHANGED <<left, op, mode, upto>>
    BY <2>1, <2>2 DEF WorkerInv, QueueHolds, Busy
  <2>3. CASE op = "enqueue" /\ op' = "next" /\ left' = left - 1
    BY <2>1, <2>3 DEF WorkerInv, QueueHolds, Busy, Resting
  <2>4. QED
    BY <2>2, <2>3
<1>9. QED
  BY <1>4, <1>5, <1>6, <1>7, <1>8 DEF QueueHolds

LEMMA OutsideQueue == ASSUME WorkerInv, Outside PROVE QueueHolds'
<1>1. ASSUME NEW dir \in {"in", "out", "auto"}, Message(dir) PROVE QueueHolds'
  <2>1. /\ DOMAIN log \subseteq DOMAIN log' /\ \A m \in DOMAIN log : log'[m] = log[m]
        /\ UNCHANGED <<tasks, ready, left, op, mode, upto>>
    <3>1. log' = Append(log, dir) /\ log \in Seq({"in", "out", "auto"})
      BY <1>1, TypesNow DEF Message
    <3>2. QED
      BY <1>1, <3>1, AppendFacts DEF Message, workVars
  <2>2. QED
    BY <2>1 DEF WorkerInv, QueueHolds, Kind, Busy
<1>2. ASSUME NEW m \in 1..MaxMessages, EnqueueTask(m) PROVE QueueHolds'
  <2>1. /\ m \in DOMAIN log /\ Enqueue(Kind(m), m) /\ UNCHANGED <<log, left, op, mode, upto>>
        /\ Kind(m) \in {"inbound", "outbound", "notify"}
    BY <1>2 DEF EnqueueTask, workVars, Kind
  <2>2. QED
    BY <2>1, QueueGrows
<1>3. CASE (\E S \in Teams : Reassign(S)) \/ Dismiss
  <2>1. UNCHANGED <<log, tasks, ready, left, op, mode, upto>>
    BY <1>3 DEF Reassign, Dismiss, webVars, workVars
  <2>2. QED
    BY <2>1 DEF WorkerInv, QueueHolds, Kind, Busy
<1>4. ASSUME NEW t \in DOMAIN tasks, Wake(t) PROVE QueueHolds'
  <2>1. /\ ready' = Append(ready, t) /\ UNCHANGED <<log, tasks, left, op, mode, upto>>
        /\ tasks[t].status \in {"queued", "retrying"} /\ \A i \in DOMAIN ready : ready[i] # t
    BY <1>4 DEF Wake, workVars
  <2>2. /\ Len(ready') = Len(ready) + 1 /\ Len(ready) \in Nat /\ left \in Nat
        /\ \A i \in DOMAIN ready : i \in DOMAIN ready' /\ ready'[i] = ready[i]
        /\ ready'[Len(ready) + 1] = t
        /\ \A i \in DOMAIN ready' : i \in DOMAIN ready \/ i = Len(ready) + 1
    BY <2>1, WakeFacts, TypesNow
  <2>3. /\ \A i \in DOMAIN ready' :
             ready'[i] \in DOMAIN tasks /\ tasks[ready'[i]].status \in {"queued", "retrying"}
        /\ \A i, j \in DOMAIN ready' : ready'[i] = ready'[j] => i = j
    BY <2>1, <2>2 DEF WorkerInv, QueueHolds
  <2>4. /\ IF op = "enqueue" THEN 0 < left /\ left <= Len(ready') + 1 ELSE left <= Len(ready')
        /\ Busy => 0 < left
    BY <2>2 DEF WorkerInv, QueueHolds
  <2>5. QED
    BY <2>1, <2>3, <2>4 DEF WorkerInv, QueueHolds, Kind, Busy
<1>5. QED
  BY <1>1, <1>2, <1>3, <1>4 DEF Outside

LEMMA NextQueue == ASSUME WorkerInv, [Next]_notifyVars PROVE QueueHolds'
<1>0. left \in Nat /\ Len(ready) \in Nat /\ (op # "enqueue" => left <= Len(ready)) /\ (Busy => 0 < left)
  BY TypesNow DEF WorkerInv, QueueHolds
<1> USE DEF webVars, Busy, Resting
<1>1. CASE Poll
  <2>1. left' <= Len(ready) /\ op' = "next" /\ UNCHANGED <<log, tasks, ready>>
    BY <1>0, <1>1, NotifyAssumption DEF Poll
  <2>2. QED
    BY <2>1, QueueUntouched
<1>2. CASE Sweep \/ TakeInbound \/ TakeOutbound \/ TakeNotify
  <2>1. /\ left' = left /\ left <= Len(ready) /\ op' # "enqueue" /\ UNCHANGED <<log, tasks, ready>>
        /\ 0 < left \/ mode' = "sweep"
    BY <1>0, <1>2 DEF Sweep, TakeInbound, TakeOutbound, TakeNotify, Through
  <2>2. QED
    BY <1>0, <2>1, QueueUntouched
<1>3. CASE Sync \/ Apply \/ Stats \/ Upsert \/ Recheck
  <2>1. /\ left' = left /\ left <= Len(ready) /\ op' # "enqueue" /\ UNCHANGED <<log, tasks, ready>>
        /\ op \in Stages \ Resting
    BY <1>0, <1>3 DEF Sync, Apply, Stats, Upsert, Recheck, Through, Stages
  <2>2. 0 < left
    BY <1>0, <2>1 DEF WorkerInv, StageHolds, Stages
  <2>3. QED
    BY <2>1, <2>2, QueueUntouched
<1>4. CASE RowsDone \/ (\E r \in Recipient : NextRow(r)) \/ Delete \/ Post \/ Save \/ DeleteRefused
  <2>1. /\ left' = left /\ left <= Len(ready) /\ op' # "enqueue" /\ UNCHANGED <<log, tasks, ready>>
        /\ mode # "sweep" => 0 < left
        /\ mode = "sweep" => mode' = "sweep" \/ op' = "rest"
    <3>1. op \in {"row", "delete", "post", "save"} /\ mode # "none"
      BY <1>4 DEF RowsDone, NextRow, Delete, Post, Save, DeleteRefused, WorkerInv, StageHolds, Stages
    <3>2. left <= Len(ready) /\ (mode # "sweep" => 0 < left)
      BY <1>0, <3>1
    <3>3. CASE RowsDone
      BY <3>1, <3>2, <3>3, TypesNow DEF RowsDone, Modes
    <3>4. CASE (\E r \in Recipient : NextRow(r)) \/ Delete \/ Post \/ Save \/ DeleteRefused
      BY <3>1, <3>2, <3>4 DEF NextRow, Delete, Post, Save, DeleteRefused
    <3>5. QED
      BY <1>4, <3>3, <3>4
  <2>2. QED
    BY <1>0, <2>1, QueueUntouched DEF RowsDone
<1>5. CASE MarkDone
  <2>1. Busy /\ 0 < left /\ op # "enqueue"
    BY <1>0, <1>5 DEF MarkDone, WorkerInv, StageHolds, Stages
  <2>2. task.attempts \in Nat /\ task.msg \in DOMAIN log
    BY <2>1, CurNow
  <2>3. /\ Settle("done", task.attempts) /\ log' = log
        /\ \/ op' = "enqueue" /\ left' = left /\ upto' \in DOMAIN log
           \/ op' \in {"next", "rest"} /\ left' \in {0, left - 1}
    BY <1>5, <2>2 DEF MarkDone
  <2>4. QED
    BY <2>1, <2>2, <2>3, QueueSettles
<1>6. CASE EnqueueNotify
  <2>1. /\ Enqueue("notify", upto) /\ log' = log /\ op = "enqueue" /\ op' = "next" /\ left' = left - 1
    BY <1>6 DEF EnqueueNotify
  <2>2. upto \in DOMAIN log
    BY <2>1 DEF WorkerInv, QueueHolds
  <2>3. QED
    BY <2>1, <2>2, QueueGrows
<1>7. CASE FailOrRetry
  <2>1. Busy /\ 0 < left /\ op # "enqueue"
    BY <1>0, <1>7 DEF FailOrRetry, WorkerInv, StageHolds, Stages
  <2>2. PICK st \in {"retrying", "done", "failed"}, n \in Nat : Settle(st, n)
    <3>1. task.attempts + 1 \in Nat
      BY <2>1, CurNow
    <3>2. QED
      BY <1>7, <3>1 DEF FailOrRetry
  <2>3. log' = log /\ op' = "next" /\ left' = left - 1
    BY <1>7 DEF FailOrRetry
  <2>4. QED
    BY <2>1, <2>2, <2>3, QueueSettles
<1>8. CASE SyncFails \/ ApplyFails \/ StatsFails \/ DeleteFails \/ PostFails \/ SaveFails
  <2>1. /\ left' = left /\ left <= Len(ready) /\ op' \in {"rest", "retry"} /\ UNCHANGED <<log, tasks, ready>>
        /\ op' = "retry" => mode # "sweep" /\ op \notin Resting
    BY <1>0, <1>8 DEF SyncFails, ApplyFails, StatsFails, DeleteFails, PostFails, SaveFails, Raise
  <2>2. QED
    BY <1>0, <2>1, QueueUntouched
<1>9. CASE Crash
  <2>1. left' = 0 /\ op' = "rest" /\ UNCHANGED <<log, tasks, ready>>
    BY <1>9 DEF Crash, Abandon
  <2>2. QED
    BY <1>0, <2>1, QueueUntouched
<1>10. CASE MarkFails
  <2>1. Busy /\ 0 < left /\ op # "enqueue"
    BY <1>0, <1>10 DEF MarkFails, WorkerInv, StageHolds, Stages
  <2>2. task.attempts \in Nat
    BY <2>1, CurNow
  <2>3. \/ /\ UNCHANGED <<log, tasks, ready>>
           /\ \/ left' = 0 /\ op' = "rest"
              \/ left' = left /\ op' \in {"rest", "retry"}
        \/ log' = log /\ Settle("done", task.attempts) /\ op' = "rest" /\ left' = 0
    BY <1>10 DEF MarkFails, Abandon, Raise
  <2>4. QED
    BY <1>0, <2>1, <2>2, <2>3, QueueSettles, QueueUntouched
<1>11. CASE EnqueueFails
  <2>1. left' = left - 1 /\ op = "enqueue" /\ op' = "next" /\ UNCHANGED <<log, tasks, ready>>
    BY <1>11 DEF EnqueueFails
  <2>2. left' <= Len(ready)
    BY <1>0, <2>1 DEF WorkerInv, QueueHolds
  <2>3. QED
    BY <2>1, <2>2, QueueUntouched
<1>12. CASE Outside
  BY <1>12, OutsideQueue
<1>13. CASE UNCHANGED notifyVars
  BY <1>13 DEF notifyVars, workVars, WorkerInv, QueueHolds, Kind
<1>14. QED
  BY <1>1, <1>2, <1>3, <1>4, <1>5, <1>6, <1>7, <1>8, <1>9, <1>10, <1>11, <1>12, <1>13 DEF Next, Handle, Failing

(* A step without a new notice that ends with none in hand.                *)
LEMMA IdsKept ==
  ASSUME WorkerInv, feed' \subseteq feed, UNCHANGED <<slot, posted>>, fresh' = 0
  PROVE  IdsHold'
BY DEF WorkerInv, IdsHold

(* The notice that is posted has a new id.                                 *)
LEMMA PostedIds ==
  ASSUME WorkerInv, row \in Recipient, feed' = NewNotice, posted' = posted + 1, slot' = slot,
         fresh' \in {0, posted + 1}, fresh' # 0 => row' = row /\ upto' = upto
  PROVE  IdsHold'
<1> DEFINE n == [to |-> row, id |-> posted + 1, upto |-> upto]
<1>1. feed' = feed \union {n} /\ n.id = posted + 1 /\ n.to = row /\ n.upto = upto
  BY DEF NewNotice
<1> HIDE DEF n
<1>2. /\ \A f \in feed : f.id <= posted /\ f.id \in Nat
      /\ \A f, g \in feed : f.id = g.id => f = g
      /\ \A r \in Recipient : slot[r] <= posted /\ slot[r] \in Nat
      /\ \A r, s \in Recipient : slot[r] = slot[s] /\ slot[r] # 0 => r = s
  BY TypesNow DEF WorkerInv, IdsHold, NoticeType
<1>3. posted \in Nat
  BY TypesNow
<1>4. /\ \A f \in feed' : f.id <= posted'
      /\ \A r \in Recipient : slot'[r] <= posted' /\ slot'[r] # posted + 1
  BY <1>1, <1>2, <1>3
<1>5. \A f, g \in feed' : f.id = g.id => f = g
  BY <1>1, <1>2, <1>3
<1>6. fresh' # 0 => \E f \in feed' : f.id = fresh' /\ f.to = row' /\ f.upto = upto'
  BY <1>1
<1>7. QED
  BY <1>2, <1>3, <1>4, <1>5, <1>6 DEF IdsHold

LEMMA SavedIds ==
  ASSUME WorkerInv, row \in Recipient, Saved, UNCHANGED <<feed, posted>>, fresh' = 0
  PROVE  IdsHold'
<1>1. slot \in [Recipient -> Nat] /\ fresh \in Nat /\ slot' = [slot EXCEPT ![row] = fresh]
  BY TypesNow DEF Saved
<1>2. slot'[row] = fresh /\ \A r \in Recipient : r # row => slot'[r] = slot[r]
  BY <1>1
<1>3. \A r \in Recipient : slot'[r] <= posted'
  <2>1. fresh <= posted /\ posted' = posted
    BY TypesNow DEF WorkerInv, IdsHold
  <2>2. \A r \in Recipient : slot[r] <= posted
    BY DEF WorkerInv, IdsHold
  <2>3. QED
    BY <1>2, <2>1, <2>2
<1>4. \A r, s \in Recipient : slot'[r] = slot'[s] /\ slot'[r] # 0 => r = s
  BY <1>2 DEF WorkerInv, IdsHold
<1>5. QED
  BY <1>3, <1>4 DEF WorkerInv, IdsHold

LEMMA NextIds == ASSUME WorkerInv, [Next]_notifyVars PROVE IdsHold'
<1> USE DEF b24Vars, rowVars
<1>1. CASE Poll \/ Sweep \/ TakeInbound \/ TakeOutbound \/ TakeNotify \/ Sync \/ Apply \/ MarkDone
           \/ EnqueueNotify \/ FailOrRetry \/ Stats \/ Upsert \/ Recheck \/ EnqueueFails
  <2>1. UNCHANGED <<feed, slot, posted, fresh>> /\ op \in Stages
    BY <1>1 DEF Poll, Sweep, TakeInbound, TakeOutbound, TakeNotify, Sync, Apply, MarkDone, EnqueueNotify,
       FailOrRetry, Stats, Upsert, Recheck, EnqueueFails, Stages, Resting
  <2>2. fresh = 0
    BY <2>1 DEF WorkerInv, StageHolds, Stages, Resting
  <2>3. QED
    BY <2>1, <2>2, IdsKept
<1>2. CASE RowsDone \/ (\E r \in Recipient : NextRow(r)) \/ Delete \/ DeleteRefused
  <2>1. UNCHANGED <<slot, posted, fresh>> /\ op \in {"row", "delete"} /\ feed' \subseteq feed
    BY <1>2 DEF RowsDone, NextRow, Delete, DeleteRefused, Deleted
  <2>2. fresh = 0
    BY <2>1 DEF WorkerInv, StageHolds
  <2>3. QED
    BY <2>1, <2>2, IdsKept
<1>3. CASE SyncFails \/ ApplyFails \/ MarkFails \/ StatsFails \/ DeleteFails \/ Crash
  <2>1. UNCHANGED <<slot, posted>> /\ fresh' = 0 /\ feed' \subseteq feed
    BY <1>3 DEF SyncFails, ApplyFails, MarkFails, StatsFails, DeleteFails, Crash, Raise, Abandon, Loose, Deleted
  <2>2. QED
    BY <2>1, IdsKept
<1>4. CASE Post
  <2>1. row \in Recipient
    BY <1>4 DEF Post, WorkerInv, StageHolds
  <2>2. QED
    BY <1>4, <2>1, PostedIds DEF Post
<1>5. CASE PostFails
  <2>1. row \in Recipient /\ fresh' = 0 /\ slot' = slot
    BY <1>5 DEF PostFails, WorkerInv, StageHolds, Raise, Loose
  <2>2. UNCHANGED <<feed, posted>> \/ (feed' = NewNotice /\ posted' = posted + 1)
    BY <1>5 DEF PostFails
  <2>3. QED
    BY <2>1, <2>2, PostedIds, IdsKept
<1>6. CASE Save
  <2>1. row \in Recipient
    BY <1>6 DEF Save, WorkerInv, StageHolds
  <2>2. QED
    BY <1>6, <2>1, SavedIds DEF Save
<1>7. CASE SaveFails
  <2>1. row \in Recipient /\ fresh' = 0 /\ UNCHANGED <<feed, posted>>
    BY <1>7 DEF SaveFails, WorkerInv, StageHolds, Raise, Loose
  <2>2. Saved \/ slot' = slot
    BY <1>7 DEF SaveFails
  <2>3. QED
    BY <2>1, <2>2, SavedIds, IdsKept
<1>8. CASE Outside
  <2>1. UNCHANGED <<feed, slot, posted, fresh, row, upto>>
    BY <1>8 DEF Outside, Message, EnqueueTask, Reassign, Wake, Dismiss, workVars
  <2>2. QED
    BY <2>1 DEF WorkerInv, IdsHold
<1>9. CASE UNCHANGED notifyVars
  <2>1. UNCHANGED <<feed, slot, posted, fresh, row, upto>>
    BY <1>9 DEF notifyVars, workVars
  <2>2. QED
    BY <2>1 DEF WorkerInv, IdsHold
<1>10. QED
  BY <1>1, <1>2, <1>3, <1>4, <1>5, <1>6, <1>7, <1>8, <1>9 DEF Next, Handle, Failing

LEMMA NextWorker == ASSUME WorkerInv, [Next]_notifyVars PROVE WorkerInv'
BY NextTypes, NextStage, NextQueue, NextIds DEF WorkerInv

-----------------------------------------------------------------------------
(* Each notice beside the rows has a fault of its own.                     *)

LEMMA LoosedFinite == ASSUME WorkerInv PROVE IsFiniteSet(Loosed) /\ Cardinality(Loosed) \in Nat
<1>1. Loosed \subseteq feed
  BY DEF Loosed
<1>2. QED
  BY <1>1, TypesNow, FS_Subset, FS_CardinalityType

LEMMA LoosedShrinks ==
  ASSUME WorkerInv, NoticesCounted, Loosed' \subseteq Loosed, faults' \in Nat, faults <= faults'
  PROVE  NoticesCounted'
<1>1. Cardinality(Loosed') <= Cardinality(Loosed) /\ IsFiniteSet(Loosed')
  BY LoosedFinite, FS_Subset
<1>2. Cardinality(Loosed') \in Nat /\ Cardinality(Loosed) \in Nat
  BY <1>1, LoosedFinite, FS_CardinalityType
<1>3. QED
  BY <1>1, <1>2, TypesNow DEF NoticesCounted

(* A fault may add one.                                                    *)
LEMMA LoosedGrows ==
  ASSUME WorkerInv, NoticesCounted, NEW n, Loosed' \subseteq Loosed \union {n}, Fault
  PROVE  NoticesCounted'
<1>1. /\ IsFiniteSet(Loosed \union {n})
      /\ Cardinality(Loosed \union {n}) <= Cardinality(Loosed) + 1
      /\ Cardinality(Loosed \union {n}) \in Nat
  BY LoosedFinite, FS_AddElement, FS_CardinalityType
<1>2. Cardinality(Loosed') <= Cardinality(Loosed \union {n}) /\ IsFiniteSet(Loosed')
  BY <1>1, FS_Subset
<1>3. Cardinality(Loosed') \in Nat /\ Cardinality(Loosed) \in Nat /\ faults' = faults + 1
  BY <1>2, LoosedFinite, FS_CardinalityType DEF Fault
<1>4. QED
  BY SMTT(30), <1>1, <1>2, <1>3, TypesNow DEF NoticesCounted

LEMMA SavedLoosed ==
  ASSUME WorkerInv, op = "save", Saved, feed' = feed, fresh' = 0, op' \notin {"post", "save"}
  PROVE  Loosed' \subseteq Loosed
<1>1. row \in Recipient /\ slot \in [Recipient -> Nat] /\ slot' = [slot EXCEPT ![row] = fresh]
  BY TypesNow DEF WorkerInv, StageHolds, Saved
<1>2. slot'[row] = fresh /\ \A r \in Recipient : r # row => slot'[r] = slot[r]
  BY <1>1
<1>3. \A f \in feed : f.to \in Recipient
  BY TypesNow DEF NoticeType
<1>4. \A f \in feed : f.id = fresh => f.to = row
  BY TypesNow DEF WorkerInv, IdsHold, NoticeType
<1> SUFFICES ASSUME NEW f \in feed, f.id # slot'[f.to] PROVE f \in Loosed
  BY DEF Loosed
<1>5. CASE f.to = row
  BY <1>2, <1>5 DEF Loosed
<1>6. CASE f.to # row
  BY <1>2, <1>3, <1>4, <1>6 DEF Loosed
<1>7. QED
  BY <1>5, <1>6

LEMMA NextNotices ==
  ASSUME WorkerInv, NoticesCounted, [Next]_notifyVars PROVE NoticesCounted'
<1> USE DEF b24Vars, rowVars, histVars
<1>0. faults' \in Nat /\ faults \in Nat
  BY NextTypes, TypesNow DEF NotifyTypes
<1>1. CASE Poll \/ Sweep \/ TakeInbound \/ TakeOutbound \/ TakeNotify \/ Sync \/ Apply \/ MarkDone
           \/ EnqueueNotify \/ FailOrRetry \/ Stats \/ Upsert \/ Recheck \/ RowsDone
  <2>1. UNCHANGED <<feed, slot, fresh, row, faults>> /\ op' \notin {"post", "save"}
    <3>1. CASE Poll \/ Sweep \/ TakeInbound \/ TakeOutbound \/ TakeNotify \/ Stats \/ Upsert \/ Recheck
      BY <3>1 DEF Poll, Sweep, TakeInbound, TakeOutbound, TakeNotify, Stats, Upsert, Recheck, Through
    <3>2. CASE Sync \/ Apply \/ MarkDone \/ EnqueueNotify \/ FailOrRetry
      BY <3>2 DEF Sync, Apply, MarkDone, EnqueueNotify, FailOrRetry
    <3>3. CASE RowsDone
      <4>1. op' \in {"upsert", "recheck", "done", "comment", "rest"}
        BY <3>3, DoneNow
      <4>2. QED
        BY <3>3, <4>1 DEF RowsDone
    <3>4. QED
      BY <1>1, <3>1, <3>2, <3>3
  <2>2. Loosed' \subseteq Loosed
    BY <2>1 DEF Loosed
  <2>3. QED
    BY <1>0, <2>1, <2>2, LoosedShrinks
<1>2. ASSUME NEW r \in Recipient, NextRow(r) PROVE NoticesCounted'
  <2>1. UNCHANGED <<feed, slot, fresh, faults>> /\ row' = r
    BY <1>2 DEF NextRow
  <2>2. op' \in {"post", "save"} => slot[r] = 0
    BY <1>2 DEF NextRow
  <2>3. \A f \in feed : f.id # 0
    BY TypesNow DEF NoticeType
  <2>4. Loosed' \subseteq Loosed
    BY <2>1, <2>2, <2>3 DEF Loosed
  <2>5. QED
    BY <1>0, <2>1, <2>4, LoosedShrinks
<1>3. CASE Delete
  <2>1. feed' = Deleted /\ UNCHANGED <<slot, fresh, row, faults>>
    BY <1>3 DEF Delete
  <2>2. Loosed' \subseteq Loosed
    BY <2>1 DEF Loosed, Deleted
  <2>3. QED
    BY <1>0, <2>1, <2>2, LoosedShrinks
<1>4. CASE Post
  <2>1. feed' = NewNotice /\ fresh' = posted + 1 /\ UNCHANGED <<slot, row, faults>> /\ op = "post"
    BY <1>4 DEF Post
  <2>2. fresh = 0 /\ \A f \in feed : f.id # 0
    BY <2>1, TypesNow DEF WorkerInv, StageHolds, NoticeType
  <2>3. Loosed' \subseteq Loosed
    BY <2>1, <2>2 DEF Loosed, NewNotice
  <2>4. QED
    BY <1>0, <2>1, <2>3, LoosedShrinks
<1>5. CASE Save
  <2>1. Loosed' \subseteq Loosed
    BY <1>5, SavedLoosed DEF Save
  <2>2. QED
    BY <1>0, <1>5, <2>1, LoosedShrinks DEF Save
<1>6. CASE DeleteRefused
  <2>1. UNCHANGED <<feed, slot, fresh, row>> /\ Fault
    BY <1>6 DEF DeleteRefused
  <2>2. PICK n : \A f \in feed : f.id = slot[row] => f = n
    BY DEF WorkerInv, IdsHold
  <2>3. Loosed' \subseteq Loosed \union {n}
    BY <2>1, <2>2 DEF Loosed
  <2>4. QED
    BY <2>1, <2>3, LoosedGrows
<1>7. CASE SyncFails \/ ApplyFails \/ MarkFails \/ StatsFails \/ EnqueueFails \/ DeleteFails \/ Crash
  <2>1. slot' = slot /\ fresh' = 0 /\ feed' \subseteq feed /\ op' \notin {"post", "save"} /\ Fault
    BY <1>7 DEF SyncFails, ApplyFails, MarkFails, StatsFails, EnqueueFails, DeleteFails, Crash, Raise, Abandon,
       Loose, Deleted, WorkerInv, StageHolds
  <2>2. PICK n : \A f \in feed : f.id = fresh => f = n
    BY DEF WorkerInv, IdsHold
  <2>3. Loosed' \subseteq Loosed \union {n}
    BY <2>1, <2>2 DEF Loosed
  <2>4. QED
    BY <2>1, <2>3, LoosedGrows
<1>8. CASE PostFails
  <2>1. slot' = slot /\ fresh' = 0 /\ fresh = 0 /\ op' \notin {"post", "save"} /\ Fault
    BY <1>8 DEF PostFails, Raise, Loose, WorkerInv, StageHolds
  <2>2. PICK n : feed' \subseteq feed \union {n}
    BY <1>8 DEF PostFails, NewNotice
  <2>3. \A f \in feed : f.id # 0
    BY TypesNow DEF NoticeType
  <2>4. Loosed' \subseteq Loosed \union {n}
    BY <2>1, <2>2, <2>3 DEF Loosed
  <2>5. QED
    BY <2>1, <2>4, LoosedGrows
<1>9. CASE SaveFails
  <2>1. /\ op = "save" /\ feed' = feed /\ fresh' = 0 /\ op' \notin {"post", "save"} /\ Fault
        /\ Saved \/ slot' = slot
    BY <1>9 DEF SaveFails, Raise, Loose
  <2>2. CASE Saved
    BY <2>1, <2>2, SavedLoosed, LoosedGrows
  <2>3. CASE slot' = slot
    <3>1. PICK n : \A f \in feed : f.id = fresh => f = n
      BY DEF WorkerInv, IdsHold
    <3>2. Loosed' \subseteq Loosed \union {n}
      BY <2>1, <2>3, <3>1 DEF Loosed
    <3>3. QED
      BY <2>1, <3>2, LoosedGrows
  <2>4. QED
    BY <2>1, <2>2, <2>3
<1>10. CASE Outside
  <2>1. UNCHANGED <<feed, slot, fresh, row, op, faults>>
    BY <1>10 DEF Outside, Message, EnqueueTask, Reassign, Wake, Dismiss, workVars
  <2>2. QED
    BY <1>0, <2>1, LoosedShrinks DEF Loosed
<1>11. CASE UNCHANGED notifyVars
  <2>1. UNCHANGED <<feed, slot, fresh, row, op, faults>>
    BY <1>11 DEF notifyVars, workVars
  <2>2. QED
    BY <1>0, <2>1, LoosedShrinks DEF Loosed
<1>12. QED
  BY <1>1, <1>2, <1>3, <1>4, <1>5, <1>6, <1>7, <1>8, <1>9, <1>10, <1>11 DEF Next, Handle, Failing

(* A recipient has one notice of the dialog, and one more at most for each *)
(* crash, error or refused deletion, for any number of messages, retries   *)
(* and recipients.                                                         *)
THEOREM NoticesAreCounted == Spec => []OneNoticeEach
<1>1. Init => WorkerInv /\ NoticesCounted
  <2> SUFFICES ASSUME Init PROVE WorkerInv /\ NoticesCounted
    OBVIOUS
  <2>1. Loosed = {}
    BY DEF Init, Loosed
  <2>2. QED
    BY <2>1, InitWorker, FS_EmptySet DEF NoticesCounted, Init
<1>2. WorkerInv /\ NoticesCounted /\ [Next]_notifyVars => (WorkerInv /\ NoticesCounted)'
  BY NextWorker, NextNotices
<1>3. WorkerInv /\ NoticesCounted => OneNoticeEach
  <2> SUFFICES ASSUME WorkerInv, NoticesCounted PROVE OneNoticeEach
    OBVIOUS
  <2>1. Orphans \subseteq Loosed
    BY DEF Orphans, Loosed
  <2>2. Cardinality(Orphans) <= Cardinality(Loosed) /\ IsFiniteSet(Orphans)
    BY <2>1, LoosedFinite, FS_Subset
  <2>3. Cardinality(Orphans) \in Nat /\ Cardinality(Loosed) \in Nat
    BY <2>2, LoosedFinite, FS_CardinalityType
  <2>4. QED
    BY <2>2, <2>3, TypesNow DEF OneNoticeEach, NoticesCounted
<1>4. QED
  BY <1>1, <1>2, <1>3, PTL DEF Spec

-----------------------------------------------------------------------------
(* The notices of an answered client are cleared.                          *)

LEMMA KindsRest == ASSUME StageHolds, ~Busy PROVE KindsHold
BY DEF StageHolds, Busy, KindsHold, Stages, Resting

LEMMA TaskSame ==
  ASSUME UNCHANGED <<log, tasks, ready>> PROVE task' = task /\ cur' = cur /\ \A m : log'[m] = log[m]
BY DEF task, cur

(* Beside the worker the task in work stays what it is.                    *)
LEMMA OutsideTask ==
  ASSUME WorkerInv, Outside
  PROVE  /\ UNCHANGED workVars
         /\ \A t \in DOMAIN tasks : t \in DOMAIN tasks' /\ tasks'[t] = tasks[t]
         /\ \A m \in DOMAIN log : m \in DOMAIN log' /\ log'[m] = log[m]
         /\ Busy => cur' = cur /\ task' = task
<1> DEFINE Same ==
      /\ UNCHANGED workVars
      /\ \A t \in DOMAIN tasks : t \in DOMAIN tasks' /\ tasks'[t] = tasks[t]
      /\ \A m \in DOMAIN log : m \in DOMAIN log' /\ log'[m] = log[m]
      /\ \A i \in DOMAIN ready : i \in DOMAIN ready' /\ ready'[i] = ready[i]
      /\ ready' \in Seq(Nat)
<1>1. Same
  <2>1. ASSUME NEW dir \in {"in", "out", "auto"}, Message(dir) PROVE Same
    BY <2>1, TypesNow, AppendFacts DEF Message
  <2>2. ASSUME NEW m \in 1..MaxMessages, EnqueueTask(m) PROVE Same
    <3>1. Enqueue(Kind(m), m) /\ log' = log /\ Kind(m) \in {"inbound", "outbound", "notify"} /\ m \in Nat
      BY <2>2, NotifyAssumption DEF EnqueueTask, Kind
    <3>2. QED
      BY <2>2, <3>1, EnqueueFacts DEF EnqueueTask
  <2>3. ASSUME NEW S \in Teams, Reassign(S) PROVE Same
    BY <2>3, TypesNow DEF Reassign
  <2>4. ASSUME NEW t \in DOMAIN tasks, Wake(t) PROVE Same
    BY <2>4, WakeFacts DEF Wake
  <2>5. CASE Dismiss
    BY <2>5, TypesNow DEF Dismiss, webVars
  <2>6. QED
    BY <2>1, <2>2, <2>3, <2>4, <2>5 DEF Outside
<1>2. ASSUME Busy PROVE cur' = cur /\ task' = task
  <2>1. 1 \in DOMAIN ready /\ cur \in DOMAIN tasks
    BY <1>2, BusyNow, CurNow
  <2>2. cur' = cur
    BY <1>1, <1>2, <2>1, CurStays
  <2>3. QED
    BY <1>1, <2>1, <2>2 DEF task
<1>3. QED
  BY <1>1, <1>2

LEMMA NextKinds == ASSUME WorkerInv, KindsHold, [Next]_notifyVars PROVE KindsHold'
<1>0. StageHolds' /\ StageHolds
  BY NextStage DEF WorkerInv
<1> USE DEF KindsHold
<1>1. CASE ~Busy'
  BY <1>0, <1>1, KindsRest, PTL
<1>2. CASE TakeInbound \/ TakeOutbound \/ TakeNotify
  <2>1. task' = task /\ log' = log /\ mode = "none" /\ 0 < left /\ op # "enqueue"
    BY <1>0, <1>2, TaskSame DEF TakeInbound, TakeOutbound, TakeNotify, webVars, StageHolds, Stages, Resting
  <2>2. task.kind # "notify" => task.kind = Kind(task.msg)
    BY <2>1, CurNow
  <2>3. CASE TakeOutbound
    <3>1. task.msg \in DOMAIN log /\ log[task.msg] \in {"in", "out", "auto"} /\ log[task.msg] # "in"
      BY <2>1, <2>2, <2>3, CurNow, TypesNow DEF TakeOutbound, Kind
    <3>2. row' = NoRow
      BY <1>0, <2>3 DEF TakeOutbound, Through, StageHolds
    <3>3. QED
      BY <2>1, <2>3, <3>1, <3>2 DEF TakeOutbound, Through
  <2>4. CASE TakeInbound \/ TakeNotify
    BY <2>1, <2>4 DEF TakeInbound, TakeNotify
  <2>5. QED
    BY <1>2, <2>3, <2>4
<1>3. CASE Sync \/ Apply \/ Stats \/ Upsert \/ Recheck \/ RowsDone \/ (\E r \in Recipient : NextRow(r))
           \/ Delete \/ DeleteRefused \/ Post \/ Save
  <2>1. task' = task /\ log' = log
    BY <1>3, TaskSame DEF Sync, Apply, Stats, Upsert, Recheck, RowsDone, NextRow, Delete, DeleteRefused,
       Post, Save, webVars
  <2>2. CASE Sync \/ Apply
    BY <1>0, <2>1, <2>2 DEF Sync, Apply, StageHolds, Stages
  <2>3. CASE Stats \/ Upsert \/ Recheck
    BY <2>1, <2>3 DEF Stats, Upsert, Recheck, Through
  <2>4. CASE RowsDone
    BY <2>1, <2>4, DoneNow DEF Modes
  <2>5. CASE (\E r \in Recipient : NextRow(r)) \/ Delete \/ DeleteRefused \/ Post \/ Save
    <3>1. mode' = mode /\ op' \in {"row", "delete", "post", "save"} /\ todo' \subseteq todo
      BY <2>5 DEF NextRow, Delete, DeleteRefused, Post, Save
    <3>2. (todo' # {} \/ row' # NoRow) => (todo # {} \/ row # NoRow)
      BY <2>5 DEF NextRow, Delete, DeleteRefused, Post, Save
    <3>3. QED
      BY <2>1, <3>1, <3>2
  <2>6. QED
    BY <1>3, <2>2, <2>3, <2>4, <2>5
<1>4. CASE Outside /\ Busy'
  <2>1. Busy
    BY <1>4, OutsideTask DEF workVars, Busy
  <2>2. task.msg \in DOMAIN log
    BY <2>1, BusyNow, CurNow
  <2>3. QED
    BY <1>4, <2>1, <2>2, OutsideTask DEF workVars
<1>5. CASE UNCHANGED notifyVars
  BY <1>5, TaskSame DEF notifyVars, webVars, workVars
<1>6. CASE Poll \/ Sweep \/ MarkDone \/ EnqueueNotify \/ FailOrRetry \/ MarkFails \/ EnqueueFails \/ Crash
  <2>1. ~Busy' \/ (op' = "retry" /\ mode' = "none")
    BY <1>6 DEF Poll, Sweep, Through, MarkDone, EnqueueNotify, FailOrRetry, MarkFails, EnqueueFails, Crash, Raise,
       Abandon, Loose, Busy, Resting
  <2>2. QED
    BY <1>1, <2>1
<1>7. CASE SyncFails \/ ApplyFails \/ StatsFails \/ DeleteFails \/ PostFails \/ SaveFails
  <2>1. op' \in {"rest", "retry"} /\ mode' = "none"
    BY <1>7 DEF SyncFails, ApplyFails, StatsFails, DeleteFails, PostFails, SaveFails, Raise, Loose
  <2>2. QED
    BY <2>1
<1>8. QED
  BY <1>1, <1>2, <1>3, <1>4, <1>5, <1>6, <1>7 DEF Next, Handle, Failing

(* A step that changes neither tasks nor messages, shows nothing new, and  *)
(* leaves the witness.                                                     *)
LEMMA GoSame ==
  ASSUME NoticesGo, UNCHANGED <<log, tasks>>, Live' \subseteq Live,
         \A t \in DOMAIN tasks : Clears(t) => ~Past(t)',
         mode \in {"clear", "undo"} /\ Live \subseteq todo \union {row} /\ Live' # {} =>
           \/ mode' \in {"clear", "undo"} /\ Live' \subseteq todo' \union {row'}
           \/ \E t \in DOMAIN tasks : Clears(t)'
  PROVE  NoticesGo'
<1> SUFFICES ASSUME Unanswered' = {}, Live' # {} PROVE NoticesGo'
  BY DEF NoticesGo
<1>1. Unanswered = {} /\ Live # {}
  BY DEF Unanswered, Inbound, Answers
<1>2. CASE \E m \in Answers : Untold(m)
  BY <1>2 DEF NoticesGo, Answers, Untold
<1>3. CASE \E t \in DOMAIN tasks : Clears(t)
  BY <1>3 DEF NoticesGo, Clears, Clearing
<1>4. CASE mode \in {"clear", "undo"} /\ Live \subseteq todo \union {row}
  <2>1. CASE mode' \in {"clear", "undo"} /\ Live' \subseteq todo' \union {row'}
    BY <2>1 DEF NoticesGo
  <2>2. CASE \E t \in DOMAIN tasks : Clears(t)'
    BY <2>2 DEF NoticesGo
  <2>3. QED
    BY <1>4, <2>1, <2>2
<1>5. QED
  BY <1>1, <1>2, <1>3, <1>4 DEF NoticesGo

(* The task in work is the witness.                                        *)
LEMMA CurClears ==
  ASSUME WorkerInv, Busy, UNCHANGED <<log, tasks>>, ~Passing',
         task.kind = "notify" \/ (task.kind = "outbound" /\ log[task.msg] = "out")
  PROVE  (\E t \in DOMAIN tasks : Clears(t)') /\ NoticesGo'
<1>1. cur \in DOMAIN tasks /\ task = tasks[cur] /\ task.status \in {"queued", "retrying"}
  BY BusyNow, CurNow
<1>2. PICK c \in DOMAIN tasks : task = tasks[c] /\ task.status \in {"queued", "retrying"}
  BY <1>1
<1>3. tasks'[c].status # "done" /\ Clearing(c)'
  BY <1>2 DEF Clearing
<1>4. Clears(c)'
  BY <1>3 DEF Clears, Past
<1>5. QED
  BY <1>2, <1>4 DEF NoticesGo

(* Where the worker turns to something else, the task stays to be done.    *)
LEMMA TurnedGo ==
  ASSUME WorkerInv, KindsHold, NoticesGo, UNCHANGED <<log, tasks>>, Live' \subseteq Live, ~Passing'
  PROVE  NoticesGo'
<1>1. ASSUME mode \in {"clear", "undo"}, Live \subseteq todo \union {row}, Live' # {}
      PROVE  \E t \in DOMAIN tasks : Clears(t)'
  <2>1. todo # {} \/ row # NoRow
    <3>1. PICK r \in Live : r \in todo \/ r = row
      BY <1>1
    <3>2. r \in Recipient
      BY <3>1, TypesNow DEF Live
    <3>3. QED
      BY <3>1, <3>2, TypesNow
  <2>2. Busy
    BY <1>1 DEF WorkerInv, StageHolds, Stages, Busy
  <2>3. task.kind = "notify" \/ (task.kind = "outbound" /\ log[task.msg] = "out")
    BY <1>1, <2>1 DEF KindsHold
  <2>4. QED
    BY <2>2, <2>3, CurClears
<1>2. \A t \in DOMAIN tasks : Clears(t) => ~Past(t)'
  BY DEF Past
<1>3. QED
  BY <1>1, <1>2, GoSame

(* A task is settled after it has cleared the notices, or to be retried.   *)
LEMMA SettledGo ==
  ASSUME WorkerInv, NoticesGo, 0 < left, op # "enqueue", mode = "none", log' = log, ~Busy',
         UNCHANGED <<rows, slot>>,
         NEW st \in {"retrying", "done", "failed"}, NEW n \in Nat, Settle(st, n), st = "done" => Passing
  PROVE  NoticesGo'
<1> SUFFICES ASSUME Unanswered' = {}, Live' # {} PROVE NoticesGo'
  BY DEF NoticesGo
<1>1. Unanswered = {} /\ Live # {}
  BY DEF Unanswered, Inbound, Answers, Live
<1>2. /\ DOMAIN tasks' = DOMAIN tasks
      /\ \A t \in DOMAIN tasks :
           /\ tasks'[t].kind = tasks[t].kind /\ tasks'[t].msg = tasks[t].msg
           /\ tasks'[t].status = IF t = cur THEN st ELSE tasks[t].status
  BY SettleFacts
<1>3. CASE \E m \in Answers : Untold(m)
  BY <1>2, <1>3 DEF NoticesGo, Answers, Untold
<1>4. ASSUME NEW t \in DOMAIN tasks, Clears(t) PROVE NoticesGo'
  <2>1. tasks'[t].status # "done" /\ Clearing(t)'
    BY <1>2, <1>4 DEF Clears, Clearing, Past
  <2>2. Clears(t)' /\ t \in DOMAIN tasks'
    BY <1>2, <2>1 DEF Clears, Past, Passing
  <2>3. QED
    BY <2>2 DEF NoticesGo
<1>5. QED
  BY <1>1, <1>3, <1>4 DEF NoticesGo

(* A new task takes over from its message, or clears what others show.     *)
LEMMA GrownGo ==
  ASSUME WorkerInv, NoticesGo, NEW k \in {"inbound", "outbound", "notify"}, NEW m \in DOMAIN log,
         Enqueue(k, m), k # "notify" => k = Kind(m), log' = log, UNCHANGED <<rows, slot>>,
         Passing' => Passing /\ cur' = cur,
         mode \in {"clear", "undo"} => UNCHANGED <<mode, todo, row>>
  PROVE  NoticesGo'
<1> SUFFICES ASSUME Unanswered' = {}, Live' # {} PROVE NoticesGo'
  BY DEF NoticesGo
<1>1. Unanswered = {} /\ Live # {} /\ Live' = Live
  BY DEF Unanswered, Inbound, Answers, Live
<1>2. /\ Len(tasks) + 1 \in DOMAIN tasks' /\ Len(tasks) + 1 \notin DOMAIN tasks
      /\ tasks'[Len(tasks) + 1].kind = k /\ tasks'[Len(tasks) + 1].msg = m
      /\ tasks'[Len(tasks) + 1].status = "queued"
      /\ \A t \in DOMAIN tasks : t \in DOMAIN tasks' /\ tasks'[t] = tasks[t]
      /\ \A t \in DOMAIN tasks' : t \in DOMAIN tasks \/ t = Len(tasks) + 1
  <2>1. m \in Nat
    BY TypesNow
  <2>2. QED
    BY <2>1, EnqueueFacts
<1>3. ASSUME NEW a \in Answers, Untold(a) PROVE NoticesGo'
  <2>1. CASE a = m
    <3>1. PICK t \in DOMAIN tasks' : t = Len(tasks) + 1
      BY <1>2
    <3>2. tasks'[t].status # "done" /\ Clearing(t)'
      BY <1>2, <1>3, <2>1, <3>1 DEF Clearing, Answers, Kind
    <3>3. ~Past(t)'
      <4>1. Passing => cur \in DOMAIN tasks
        BY BusyNow, CurNow DEF Passing
      <4>2. QED
        BY <1>2, <3>1, <4>1 DEF Past
    <3>4. QED
      BY <3>2, <3>3 DEF NoticesGo, Clears
  <2>2. CASE a # m
    BY <1>2, <1>3, <2>2 DEF NoticesGo, Answers, Untold
  <2>3. QED
    BY <2>1, <2>2
<1>4. ASSUME NEW t \in DOMAIN tasks, Clears(t) PROVE NoticesGo'
  <2>1. Clearing(t)' /\ tasks'[t].status # "done" /\ t \in DOMAIN tasks'
    BY <1>2, <1>4 DEF Clears, Clearing
  <2>2. ~Past(t)'
    BY <1>4 DEF Clears, Past
  <2>3. QED
    BY <2>1, <2>2 DEF NoticesGo, Clears
<1>5. CASE mode \in {"clear", "undo"} /\ Live \subseteq todo \union {row}
  BY <1>1, <1>5 DEF NoticesGo
<1>6. QED
  BY <1>1, <1>3, <1>4, <1>5 DEF NoticesGo

(* The rows are gone through.                                              *)
LEMMA RowsGo ==
  ASSUME WorkerInv, KindsHold, NoticesGo,
         RowsDone \/ (\E r \in Recipient : NextRow(r)) \/ Delete \/ DeleteRefused \/ Post \/ Save
  PROVE  NoticesGo'
<1>1. /\ UNCHANGED <<log, tasks, ready>> /\ cur' = cur
      /\ mode \in Modes /\ Busy = (mode # "sweep")
  <2>1. UNCHANGED webVars /\ op \in {"row", "delete", "post", "save"}
    BY DEF RowsDone, NextRow, Delete, DeleteRefused, Post, Save
  <2>2. mode \in Modes
    BY <2>1, TypesNow DEF WorkerInv, StageHolds, Stages, Resting
  <2>3. QED
    BY <2>1, <2>2, TaskSame DEF webVars, Busy, Resting
<1>2. CASE RowsDone
  <2>1. Live' = Live /\ todo = {} /\ row = NoRow /\ mode' = "none"
    BY <1>2, DoneNow DEF RowsDone, rowVars, Live
  <2>2. CASE mode \in {"clear", "undo"}
    <3>1. \A t \in DOMAIN tasks : Clears(t) => ~Past(t)'
      BY <1>1, <2>2 DEF Clears, Past, Passing
    <3>2. ~(Live \subseteq todo \union {row} /\ Live' # {})
      <4>1. NoRow \notin Live
        BY TypesNow DEF Live
      <4>2. QED
        BY <2>1, <4>1
    <3>3. QED
      BY <1>1, <2>1, <3>1, <3>2, GoSame
  <2>3. CASE mode \notin {"clear", "undo"}
    <3>1. ~Passing'
      BY <1>1, <1>2, <2>3, DoneNow DEF Passing, Busy, Resting, Modes
    <3>2. QED
      BY <1>1, <2>1, <3>1, TurnedGo
  <2>4. QED
    BY <2>2, <2>3
<1>3. CASE mode \in {"clear", "undo"} /\ ~RowsDone
  <2>1. /\ mode' = mode /\ op' \in {"row", "delete", "save"}
        /\ Live' \subseteq Live /\ (Live \subseteq todo \union {row} => Live' \subseteq todo' \union {row'})
    <3>1. CASE (\E r \in Recipient : NextRow(r)) \/ Delete \/ DeleteRefused
      <4>1. /\ UNCHANGED <<rows, slot, mode>> /\ op' \in {"row", "delete", "save"}
            /\ todo \union {row} \subseteq todo' \union {row'} \union {NoRow}
        BY <1>3, <3>1 DEF NextRow, Delete, DeleteRefused, rowVars, WorkerInv, StageHolds
      <4>2. NoRow \notin Live /\ Live' = Live
        BY <4>1, TypesNow DEF Live
      <4>3. QED
        BY <4>1, <4>2
    <3>2. ~Post
      BY <1>3 DEF Post, WorkerInv, StageHolds
    <3>3. CASE Save
      <4>1. /\ row \in Recipient /\ fresh = 0 /\ slot' = [slot EXCEPT ![row] = 0] /\ rows' = rows
            /\ todo' = todo /\ mode' = mode /\ op' = "row"
        BY <1>3, <3>3 DEF Save, Saved, WorkerInv, StageHolds
      <4>2. Live' = Live \ {row}
        BY <4>1, TypesNow DEF Live
      <4>3. QED
        BY <4>1, <4>2
    <3>4. QED
      BY <1>3, <3>1, <3>2, <3>3
  <2>2. \A t \in DOMAIN tasks : Clears(t) => ~Past(t)'
    BY <1>1, <1>3 DEF Clears, Past, Passing
  <2>3. QED
    BY <1>1, <1>3, <2>1, <2>2, GoSame
<1>4. CASE mode \notin {"clear", "undo"} /\ ~RowsDone
  <2>1. mode' = mode /\ op' \in {"row", "delete", "post", "save"}
    BY <1>4 DEF NextRow, Delete, DeleteRefused, Post, Save
  <2>2. ~Passing'
    BY <1>4, <2>1 DEF Passing
  <2>3. CASE mode = "render"
    <3>1. Busy /\ task.kind = "notify"
      BY <1>1, <2>3 DEF KindsHold
    <3>2. QED
      BY <1>1, <2>2, <3>1, CurClears
  <2>4. CASE mode # "render"
    <3>1. Live' \subseteq Live
      <4>1. CASE Save
        <5>1. row \in Recipient /\ fresh = 0 /\ slot' = [slot EXCEPT ![row] = 0] /\ rows' \subseteq rows
          BY <2>4, <4>1 DEF Save, Saved, WorkerInv, StageHolds
        <5>2. QED
          BY <5>1, TypesNow DEF Live
      <4>2. CASE ~Save
        <5>1. UNCHANGED <<rows, slot>>
          BY <1>4, <4>2 DEF NextRow, Delete, DeleteRefused, Post, rowVars
        <5>2. QED
          BY <5>1 DEF Live
      <4>3. QED
        BY <4>1, <4>2
    <3>2. QED
      BY <1>1, <2>2, <3>1, TurnedGo
  <2>5. QED
    BY <2>3, <2>4
<1>5. QED
  BY <1>2, <1>3, <1>4

(* A message comes, or its task, or the web does something.                *)
LEMMA OutsideGo == ASSUME WorkerInv, KindsHold, NoticesGo, Outside PROVE NoticesGo'
<1>0. UNCHANGED workVars /\ Busy' = Busy /\ (Busy => cur' = cur) /\ (Passing' => Passing /\ cur' = cur)
  BY OutsideTask DEF workVars, Busy, Passing
<1>1. ASSUME NEW dir \in {"in", "out", "auto"}, Message(dir) PROVE NoticesGo'
  <2>1. /\ DOMAIN log = 1..Len(log) /\ Len(log) \in Nat /\ DOMAIN log' = 1..(Len(log) + 1)
        /\ log'[Len(log) + 1] = dir /\ \A m \in DOMAIN log : m \in DOMAIN log' /\ log'[m] = log[m] /\ m \in Nat
        /\ \A m \in DOMAIN log' : m \in DOMAIN log \/ m = Len(log) + 1
        /\ UNCHANGED <<tasks, ready, rows, slot>>
    BY <1>1, TypesNow, AppendFacts DEF Message, rowVars
  <2>2. Live' = Live
    BY <2>1 DEF Live
  <2>3. CASE dir = "out"
    <3>1. PICK n : n = Len(log) + 1
      OBVIOUS
    <3>2. Untold(n)' /\ n \in Answers'
      BY <2>1, <2>3, <3>1 DEF Untold, Answers, WorkerInv, QueueHolds
    <3>3. QED
      BY <3>2 DEF NoticesGo
  <2>4. CASE dir = "in"
    <3>1. Len(log) + 1 \in Unanswered'
      <4>1. Len(log) + 1 \in Inbound'
        BY <2>1, <2>4 DEF Inbound
      <4>2. \A k \in Answers' : k < Len(log) + 1
        BY <2>1, <2>4 DEF Answers
      <4>3. QED
        BY <4>1, <4>2 DEF Unanswered
    <3>2. QED
      BY <3>1 DEF NoticesGo
  <2>5. CASE dir = "auto"
    <3>1. Answers' = Answers /\ Inbound' = Inbound
      BY <2>1, <2>5 DEF Answers, Inbound
    <3>2. Unanswered' = Unanswered
      BY <3>1 DEF Unanswered
    <3>3. \A t \in DOMAIN tasks : Clears(t) => Clears(t)'
      <4>1. \A t \in DOMAIN tasks : tasks[t].msg \in DOMAIN log
        BY DEF WorkerInv, QueueHolds
      <4>2. QED
        BY <1>0, <2>1, <4>1 DEF Clears, Past, Clearing
    <3>4. \A m : Untold(m) => Untold(m)'
      BY <2>1 DEF Untold
    <3>5. UNCHANGED <<mode, todo, row, tasks>>
      BY <1>0, <2>1 DEF workVars
    <3>6. QED
      BY <2>2, <3>1, <3>2, <3>3, <3>4, <3>5 DEF NoticesGo
  <2>6. QED
    BY <2>3, <2>4, <2>5
<1>2. ASSUME NEW m \in 1..MaxMessages, EnqueueTask(m) PROVE NoticesGo'
  <2>1. /\ m \in DOMAIN log /\ Enqueue(Kind(m), m) /\ UNCHANGED <<log, rows, slot, mode, todo, row>>
        /\ Kind(m) \in {"inbound", "outbound", "notify"}
    BY <1>2 DEF EnqueueTask, workVars, rowVars, Kind
  <2>2. QED
    BY <1>0, <2>1, GrownGo
<1>3. CASE (\E S \in Teams : Reassign(S)) \/ Dismiss \/ \E t \in DOMAIN tasks : Wake(t)
  <2>1. UNCHANGED <<log, tasks, rows, slot, mode, todo, row>>
    BY <1>3 DEF Reassign, Dismiss, Wake, webVars, rowVars, workVars
  <2>2. \A t \in DOMAIN tasks : Clears(t) => ~Past(t)'
    BY <1>0 DEF Clears, Past
  <2>3. Live' = Live
    BY <2>1 DEF Live
  <2>4. QED
    BY <2>1, <2>2, <2>3, GoSame
<1>4. QED
  BY <1>1, <1>2, <1>3 DEF Outside

LEMMA NextGo == ASSUME WorkerInv, KindsHold, NoticesGo, [Next]_notifyVars PROVE NoticesGo'
<1>1. CASE Poll \/ Sweep \/ TakeInbound
  <2>1. UNCHANGED <<log, tasks, rows, slot>> /\ ~Passing'
    BY <1>1 DEF Poll, Sweep, TakeInbound, Through, webVars, rowVars, Passing, Busy, Resting, WorkerInv,
       StageHolds, Stages
  <2>2. QED
    BY <2>1, TurnedGo DEF Live
<1>2. CASE TakeOutbound
  <2>1. /\ UNCHANGED <<log, tasks, ready, rows, slot>> /\ mode' = "clear" /\ mode = "none" /\ 0 < left
        /\ op # "enqueue" /\ ~Busy /\ task.kind = "outbound"
    BY <1>2 DEF TakeOutbound, Through, webVars, rowVars, WorkerInv, StageHolds, Stages, Busy, Resting
  <2>2. Live' = Live /\ cur' = cur /\ task = tasks[cur]
    BY <2>1, TaskSame, CurNow DEF Live
  <2>3. CASE log[task.msg] = "auto"
    <3>1. \A t \in DOMAIN tasks : Clears(t) => ~Past(t)'
      BY <2>1, <2>2, <2>3 DEF Clears, Clearing, Past
    <3>2. QED
      BY <2>1, <2>2, <3>1, GoSame
  <2>4. CASE log[task.msg] # "auto"
    <3>1. todo' = Live
      BY <1>2, <2>4 DEF TakeOutbound, Through
    <3>2. QED
      BY <2>1, <2>2, <3>1 DEF NoticesGo
  <2>5. QED
    BY <2>3, <2>4
<1>3. CASE TakeNotify
  <2>1. /\ UNCHANGED <<log, tasks, ready, rows, slot, mode>> /\ mode = "none" /\ 0 < left
        /\ op' = IF Newer THEN "skip" ELSE "stats"
        /\ op # "enqueue" /\ ~Busy /\ task.kind = "notify"
    BY <1>3 DEF TakeNotify, webVars, rowVars, WorkerInv, StageHolds, Stages, Busy, Resting
  <2>2. Live' = Live /\ cur' = cur /\ cur \in Nat
    BY <2>1, TaskSame, CurNow DEF Live
  <2>3. CASE Newer
    <3>1. PICK t \in DOMAIN tasks :
            t > cur /\ tasks[t].kind = "notify" /\ tasks[t].status \in {"queued", "retrying"}
      BY <2>3 DEF Newer
    <3>2. tasks'[t].status # "done" /\ Clearing(t)' /\ t # cur
      BY <2>1, <2>2, <3>1, TypesNow DEF Clearing
    <3>3. Clears(t)' /\ t \in DOMAIN tasks'
      BY <2>1, <2>2, <3>2 DEF Clears, Past
    <3>4. QED
      BY <3>3 DEF NoticesGo
  <2>4. CASE ~Newer
    <3>1. ~Passing'
      BY <2>1, <2>4 DEF Passing
    <3>2. QED
      BY <2>1, <2>2, <3>1, TurnedGo
  <2>5. QED
    BY <2>3, <2>4
<1>4. CASE Sync \/ Apply
  <2>1. UNCHANGED <<log, tasks, ready, rows, slot, mode>> /\ mode = "none" /\ Busy
    BY <1>4 DEF Sync, Apply, webVars, rowVars, WorkerInv, StageHolds, Stages, Busy, Resting
  <2>2. Live' = Live /\ cur' = cur /\ task = tasks[cur]
    BY <2>1, TaskSame, BusyNow, CurNow DEF Live
  <2>3. task.kind = "inbound" \/ Passing
    BY <1>4, <2>1 DEF Sync, Apply, KindsHold, Passing
  <2>4. \A t \in DOMAIN tasks : Clears(t) => ~Past(t)'
    BY <2>2, <2>3 DEF Clears, Clearing, Past
  <2>5. QED
    BY <2>1, <2>2, <2>4, GoSame
<1>5. CASE MarkDone
  <2>1. /\ Settle("done", task.attempts) /\ UNCHANGED <<log, rows, slot>> /\ mode = "none" /\ Busy /\ Passing
        /\ ~Busy'
    BY <1>5 DEF MarkDone, rowVars, WorkerInv, StageHolds, Stages, Busy, Resting, Passing
  <2>2. task.attempts \in Nat /\ 0 < left /\ op # "enqueue"
    BY <2>1, BusyNow, CurNow
  <2>3. QED
    BY <2>1, <2>2, SettledGo
<1>6. CASE FailOrRetry
  <2>1. UNCHANGED <<log, rows, slot>> /\ mode = "none" /\ Busy /\ ~Busy'
    BY <1>6 DEF FailOrRetry, rowVars, WorkerInv, StageHolds, Stages, Busy, Resting
  <2>2. task.attempts + 1 \in Nat /\ 0 < left /\ op # "enqueue"
    BY <2>1, BusyNow, CurNow
  <2>3. PICK st \in {"retrying", "failed"} : Settle(st, task.attempts + 1)
    BY <1>6 DEF FailOrRetry
  <2>4. QED
    BY <2>1, <2>2, <2>3, SettledGo
<1>7. CASE EnqueueNotify
  <2>1. /\ Enqueue("notify", upto) /\ UNCHANGED <<log, rows, slot, mode, todo, row>> /\ ~Busy'
        /\ upto \in DOMAIN log
    BY <1>7 DEF EnqueueNotify, rowVars, Busy, Resting, WorkerInv, QueueHolds
  <2>2. QED
    BY <2>1, GrownGo DEF Passing
<1>8. CASE Stats
  <2>1. UNCHANGED <<log, rows, slot>>
    BY <1>8 DEF Stats, webVars, rowVars
  <2>2. CASE Unanswered = {}
    <3>1. Live' = Live /\ mode' = "clear" /\ todo' = Live
      BY <1>8, <2>1, <2>2 DEF Stats, Through, Live
    <3>2. QED
      BY <3>1 DEF NoticesGo
  <2>3. CASE Unanswered # {}
    BY <2>1, <2>3 DEF NoticesGo, Unanswered, Inbound, Answers
  <2>4. QED
    BY <2>2, <2>3
<1>9. CASE Upsert \/ StatsFails
  <2>1. /\ UNCHANGED <<log, tasks>> /\ Busy /\ task.kind = "notify"
        /\ (op' = "retry" /\ mode' = "none") \/ (op' = "row" /\ mode' = "render")
    BY <1>9 DEF Upsert, StatsFails, Raise, Loose, Through, webVars, Busy, Resting, KindsHold, WorkerInv,
       StageHolds, Stages
  <2>2. ~Passing'
    BY <2>1 DEF Passing
  <2>3. QED
    BY <2>1, <2>2, CurClears
<1>10. CASE Recheck
  <2>1. UNCHANGED <<log, rows, slot>> /\ Live' = Live /\ Live \subseteq rows
    BY <1>10 DEF Recheck, webVars, rowVars, Live
  <2>2. CASE Unanswered = {}
    <3>1. mode' = "undo" /\ todo' = rows
      BY <1>10, <2>2 DEF Recheck, Through
    <3>2. QED
      BY <2>1, <3>1 DEF NoticesGo
  <2>3. CASE Unanswered # {}
    BY <2>1, <2>3 DEF NoticesGo, Unanswered, Inbound, Answers
  <2>4. QED
    BY <2>2, <2>3
<1>11. CASE SyncFails \/ ApplyFails \/ DeleteFails \/ PostFails \/ Crash \/ EnqueueFails
  <2>1. UNCHANGED <<log, tasks, rows, slot>> /\ ~Passing'
    BY <1>11 DEF SyncFails, ApplyFails, DeleteFails, PostFails, Crash, EnqueueFails, Raise, Abandon, Loose,
       webVars, rowVars, Passing, Busy, Resting, WorkerInv, StageHolds, Stages
  <2>2. QED
    BY <2>1, TurnedGo DEF Live
<1>12. CASE SaveFails
  <2>1. /\ UNCHANGED <<log, tasks>> /\ ~Passing' /\ op = "save"
        /\ Saved \/ UNCHANGED rowVars
    BY <1>12 DEF SaveFails, Raise, Loose, webVars, Passing
  <2>2. CASE mode = "render"
    <3>1. Busy /\ task.kind = "notify"
      BY <2>1, <2>2 DEF Busy, Resting, KindsHold
    <3>2. QED
      BY <2>1, <3>1, CurClears
  <2>3. CASE mode # "render"
    <3>1. Live' \subseteq Live
      <4>1. CASE Saved
        <5>1. row \in Recipient /\ fresh = 0 /\ slot' = [slot EXCEPT ![row] = 0] /\ rows' \subseteq rows
          BY <2>1, <2>3, <4>1 DEF Saved, WorkerInv, StageHolds
        <5>2. QED
          BY <5>1, TypesNow DEF Live
      <4>2. CASE UNCHANGED rowVars
        BY <4>2 DEF rowVars, Live
      <4>3. QED
        BY <2>1, <4>1, <4>2
    <3>2. QED
      BY <2>1, <3>1, TurnedGo
  <2>4. QED
    BY <2>2, <2>3
<1>13. CASE MarkFails
  <2>1. CASE op = "done"
    <3>1. /\ UNCHANGED <<log, rows, slot>> /\ mode = "none" /\ Busy /\ Passing /\ ~Busy'
          /\ Settle("done", task.attempts) \/ UNCHANGED <<tasks, ready>>
      BY <1>13, <2>1 DEF MarkFails, Abandon, rowVars, WorkerInv, StageHolds, Stages, Busy, Resting, Passing
    <3>2. task.attempts \in Nat /\ 0 < left /\ op # "enqueue"
      BY <3>1, BusyNow, CurNow
    <3>3. CASE Settle("done", task.attempts)
      BY <3>1, <3>2, <3>3, SettledGo
    <3>4. CASE UNCHANGED <<tasks, ready>>
      BY <3>1, <3>4, TurnedGo DEF Live, Passing
    <3>5. QED
      BY <3>1, <3>3, <3>4
  <2>2. CASE op # "done"
    <3>1. UNCHANGED <<log, tasks, rows, slot>> /\ ~Passing'
      BY <1>13, <2>2 DEF MarkFails, Raise, Loose, rowVars, Passing
    <3>2. QED
      BY <3>1, TurnedGo DEF Live
  <2>3. QED
    BY <2>1, <2>2
<1>14. CASE RowsDone \/ (\E r \in Recipient : NextRow(r)) \/ Delete \/ DeleteRefused \/ Post \/ Save
  BY <1>14, RowsGo
<1>15. CASE Outside
  BY <1>15, OutsideGo
<1>16. CASE UNCHANGED notifyVars
  <2>1. UNCHANGED <<log, tasks, rows, slot, mode, todo, row, op>> /\ cur' = cur
    BY <1>16, TaskSame DEF notifyVars, webVars, rowVars, workVars
  <2>2. \A t \in DOMAIN tasks : Clears(t) => ~Past(t)'
    BY <2>1 DEF Clears, Past, Passing, Busy
  <2>3. Live' = Live
    BY <2>1 DEF Live
  <2>4. QED
    BY <2>1, <2>2, <2>3, GoSame
<1>17. QED
  BY <1>1, <1>2, <1>3, <1>4, <1>5, <1>6, <1>7, <1>8, <1>9, <1>10, <1>11, <1>12, <1>13, <1>14, <1>15, <1>16
     DEF Next, Handle, Failing

(* When the client has been answered and the queue has come to rest, no    *)
(* recipient is told that the client waits, however answers, renderings,   *)
(* retries and crashes were interleaved.                                   *)
THEOREM AnsweredClientsAreCleared == Spec => []AnsweredIsCleared
<1>1. Init => WorkerInv /\ KindsHold /\ NoticesGo
  <2> SUFFICES ASSUME Init PROVE WorkerInv /\ KindsHold /\ NoticesGo
    OBVIOUS
  <2>1. Live = {} /\ op = "rest" /\ mode = "none"
    BY DEF Init, Live
  <2>2. QED
    BY <2>1, InitWorker DEF NoticesGo, KindsHold
<1>2. WorkerInv /\ KindsHold /\ NoticesGo /\ [Next]_notifyVars => (WorkerInv /\ KindsHold /\ NoticesGo)'
  BY NextWorker, NextKinds, NextGo
<1>3. WorkerInv /\ NoticesGo => AnsweredIsCleared
  <2> SUFFICES ASSUME WorkerInv, NoticesGo, AtRest, NoneFailed, Unanswered = {}, Live # {} PROVE FALSE
    BY DEF AnsweredIsCleared
  <2>1. mode = "none"
    BY DEF AtRest, WorkerInv, StageHolds, Stages, Resting
  <2>2. ~\E t \in DOMAIN tasks : Clears(t)
    BY DEF NoneFailed, Clears
  <2>3. ~\E m \in Answers : Untold(m)
    BY DEF AtRest, Answers, Untold
  <2>4. QED
    BY <2>1, <2>2, <2>3 DEF NoticesGo
<1>4. QED
  BY <1>1, <1>2, <1>3, PTL DEF Spec

-----------------------------------------------------------------------------
(* A first contact is shown to everyone who is to be told.                 *)

(* What is still to come stays so while the worker does something else.    *)
LEMMA ToSame ==
  ASSUME UNCHANGED <<log, tasks>>, op # "enqueue" \/ UNCHANGED <<op, upto>>, NEW m, ToRender(m),
         \A t \in DOMAIN tasks : tasks[t].kind = "notify" /\ ~Deciding(t) => ~Deciding(t)'
  PROVE  ToRender(m)'
<1>1. CASE Untold(m)
  BY <1>1 DEF ToRender, Untold
<1>2. ASSUME NEW t \in DOMAIN tasks, tasks[t].kind = "inbound", tasks[t].msg = m, Open(t) PROVE ToRender(m)'
  <2>1. t \in DOMAIN tasks' /\ tasks'[t].kind = "inbound" /\ tasks'[t].msg = m /\ Open(t)'
    BY <1>2 DEF Open
  <2>2. QED
    BY <2>1 DEF ToRender
<1>3. CASE op = "enqueue" /\ upto = m
  BY <1>3 DEF ToRender
<1>4. ASSUME NEW t \in DOMAIN tasks, tasks[t].kind = "notify", Open(t), ~Deciding(t) PROVE ToRender(m)'
  <2>1. t \in DOMAIN tasks' /\ tasks'[t].kind = "notify" /\ Open(t)' /\ ~Deciding(t)'
    BY <1>4 DEF Open
  <2>2. QED
    BY <2>1 DEF ToRender
<1>5. QED
  BY <1>1, <1>2, <1>3, <1>4 DEF ToRender

(* A new task is one more to come, or the one of the message itself.       *)
LEMMA ToGrown ==
  ASSUME WorkerInv, NEW k \in {"inbound", "outbound", "notify"}, NEW a \in DOMAIN log, Enqueue(k, a), log' = log,
         NEW m, m \in Inbound, ToRender(m), a = m => k = "inbound" \/ k = "notify",
         \A t : ~Deciding(t) => ~Deciding(t)', k # "notify" => UNCHANGED <<op, upto>>,
         \A t : Deciding(t)' => t \in DOMAIN tasks
  PROVE  ToRender(m)'
<1>1. /\ Len(tasks) + 1 \in DOMAIN tasks' /\ Len(tasks) + 1 \notin DOMAIN tasks
      /\ tasks'[Len(tasks) + 1].kind = k /\ tasks'[Len(tasks) + 1].msg = a
      /\ tasks'[Len(tasks) + 1].status = "queued"
      /\ \A t \in DOMAIN tasks : t \in DOMAIN tasks' /\ tasks'[t] = tasks[t]
      /\ \A t \in DOMAIN tasks' : t \in DOMAIN tasks \/ t = Len(tasks) + 1
  <2>1. a \in Nat
    BY TypesNow
  <2>2. QED
    BY <2>1, EnqueueFacts
<1>2. PICK n \in DOMAIN tasks' : n = Len(tasks) + 1
  BY <1>1
<1>3. tasks'[n].kind = k /\ tasks'[n].msg = a /\ Open(n)' /\ ~Deciding(n)'
  BY <1>1, <1>2 DEF Open
<1>4. CASE k = "notify" \/ a = m
  BY <1>3, <1>4 DEF ToRender
<1>5. CASE k # "notify" /\ a # m
  <2>1. CASE Untold(m)
    BY <1>1, <1>5, <2>1 DEF ToRender, Untold
  <2>2. ASSUME NEW t \in DOMAIN tasks, tasks[t].kind = "inbound", tasks[t].msg = m, Open(t) PROVE ToRender(m)'
    <3>1. t \in DOMAIN tasks' /\ tasks'[t].kind = "inbound" /\ tasks'[t].msg = m /\ Open(t)'
      BY <1>1, <2>2 DEF Open
    <3>2. QED
      BY <3>1 DEF ToRender
  <2>3. CASE op = "enqueue" /\ upto = m
    BY <1>5, <2>3 DEF ToRender
  <2>4. ASSUME NEW t \in DOMAIN tasks, tasks[t].kind = "notify", Open(t), ~Deciding(t) PROVE ToRender(m)'
    <3>1. t \in DOMAIN tasks' /\ tasks'[t].kind = "notify" /\ Open(t)' /\ ~Deciding(t)'
      BY <1>1, <2>4 DEF Open
    <3>2. QED
      BY <3>1 DEF ToRender
  <2>5. QED
    BY <2>1, <2>2, <2>3, <2>4 DEF ToRender
<1>6. QED
  BY <1>4, <1>5

(* A settled inbound task hands over to the notify task it enqueues.       *)
LEMMA ToSettled ==
  ASSUME WorkerInv, MarkDone, NEW m, ToRender(m)
  PROVE  ToRender(m)'
<1>1. Busy /\ op \in {"done", "skip"}
  BY DEF MarkDone, WorkerInv, StageHolds, Stages, Busy, Resting
<1>2. 0 < left /\ op # "enqueue" /\ task.attempts \in Nat /\ task = tasks[cur]
  BY <1>1, BusyNow, CurNow
<1>3. /\ DOMAIN tasks' = DOMAIN tasks
      /\ \A t \in DOMAIN tasks :
           /\ tasks'[t].kind = tasks[t].kind /\ tasks'[t].msg = tasks[t].msg
           /\ t # cur => tasks'[t].status = tasks[t].status
  BY <1>2, SettleFacts DEF MarkDone
<1>4. ~Busy'
  BY DEF MarkDone, Busy, Resting
<1>5. CASE Untold(m)
  BY <1>3, <1>5 DEF ToRender, Untold
<1>6. ASSUME NEW t \in DOMAIN tasks, tasks[t].kind = "inbound", tasks[t].msg = m, Open(t) PROVE ToRender(m)'
  <2>1. CASE t = cur
    BY <1>2, <1>6, <2>1 DEF MarkDone, ToRender
  <2>2. CASE t # cur
    <3>1. t \in DOMAIN tasks' /\ tasks'[t].kind = "inbound" /\ tasks'[t].msg = m /\ Open(t)'
      BY <1>3, <1>6, <2>2 DEF Open
    <3>2. QED
      BY <3>1 DEF ToRender
  <2>3. QED
    BY <2>1, <2>2
<1>7. ASSUME NEW t \in DOMAIN tasks, tasks[t].kind = "notify", Open(t), ~Deciding(t) PROVE ToRender(m)'
  <2>1. t # cur
    BY <1>1, <1>7 DEF Deciding
  <2>2. t \in DOMAIN tasks' /\ tasks'[t].kind = "notify" /\ Open(t)' /\ ~Deciding(t)'
    BY <1>3, <1>4, <1>7, <2>1 DEF Open, Deciding
  <2>3. QED
    BY <2>2 DEF ToRender
<1>8. QED
  BY <1>1, <1>5, <1>6, <1>7 DEF ToRender

(* What is shown stays shown while the rows stay.                          *)
LEMMA RenderedSame ==
  ASSUME NEW m, Rendered(m), UNCHANGED <<rows, slot, dismissed, feed>>, op' # "upsert",
         mode' \notin {"purge", "render"}, todo' = {}, row' = NoRow
  PROVE  Rendered(m)'
BY DEF Rendered, Shows

(* The batch and the tasks.                                                *)
LEMMA BatchKept ==
  ASSUME WorkerInv, NEW m, Answers = {}, Last(m), Kept(m),
         Poll \/ Sweep \/ TakeInbound \/ TakeOutbound \/ TakeNotify
  PROVE  Kept(m)'
<1>1. /\ UNCHANGED <<log, tasks, ready, rows, slot, dismissed, feed, row>> /\ op \in {"rest", "next"}
      /\ mode = "none" /\ todo = {} /\ row = NoRow /\ ~Busy
  BY DEF Poll, Sweep, TakeInbound, TakeOutbound, TakeNotify, Through, webVars, rowVars, b24Vars, WorkerInv,
     StageHolds, Stages, Busy, Resting
<1>2. cur' = cur
  BY <1>1, TaskSame
<1>3. op' # "upsert" /\ mode' \notin {"purge", "render"}
  BY <1>1 DEF Poll, Sweep, TakeInbound, TakeOutbound, TakeNotify, Through
<1>4. CASE ToRender(m)
  <2>1. CASE Poll \/ Sweep
    <3>1. ~Busy'
      BY <2>1 DEF Poll, Sweep, Through, Busy, Resting
    <3>2. QED
      BY <1>1, <1>4, <3>1, ToSame DEF Kept, Deciding
  <2>2. CASE TakeInbound \/ TakeOutbound
    <3>1. 0 < left /\ op # "enqueue" /\ task.kind # "notify"
      BY <1>1, <2>2 DEF TakeInbound, TakeOutbound
    <3>2. tasks[cur].kind # "notify"
      BY <3>1, CurNow
    <3>3. \A t \in DOMAIN tasks : tasks[t].kind = "notify" => ~Deciding(t)'
      BY <1>2, <3>2 DEF Deciding
    <3>4. QED
      BY <1>1, <1>4, <3>3, ToSame DEF Kept
  <2>3. CASE TakeNotify
    <3>1. 0 < left /\ op # "enqueue" /\ op' = IF Newer THEN "skip" ELSE "stats"
      BY <1>1, <2>3 DEF TakeNotify
    <3>2. CASE Newer
      <4>1. PICK t \in DOMAIN tasks :
              t > cur /\ tasks[t].kind = "notify" /\ tasks[t].status \in {"queued", "retrying"}
        BY <3>2 DEF Newer
      <4>2. t # cur
        BY <3>1, <4>1, CurNow, TypesNow
      <4>3. t \in DOMAIN tasks' /\ tasks'[t].kind = "notify" /\ Open(t)' /\ ~Deciding(t)'
        BY <1>1, <1>2, <4>1, <4>2 DEF Open, Deciding
      <4>4. QED
        BY <4>3 DEF Kept, ToRender
    <3>3. CASE ~Newer
      <4>1. op' = "stats"
        BY <3>1, <3>3
      <4>2. QED
        BY <1>1, <1>4, <4>1, ToSame DEF Kept, Deciding
    <3>4. QED
      BY <3>2, <3>3
  <2>4. QED
    BY <2>1, <2>2, <2>3
<1>5. CASE Rendering(m)
  BY <1>1, <1>5 DEF Rendering
<1>6. CASE Rendered(m)
  <2>1. todo' = {}
    <3>1. CASE Poll \/ TakeInbound \/ TakeNotify
      BY <1>1, <3>1 DEF Poll, TakeInbound, TakeNotify
    <3>2. CASE Sweep
      <4>1. dismissed \intersect Live = {}
        BY <1>6 DEF Rendered, Shows, Live
      <4>2. QED
        BY <3>2, <4>1 DEF Sweep, Through
    <3>3. CASE TakeOutbound
      <4>1. 0 < left /\ op # "enqueue" /\ task.kind = "outbound"
        BY <1>1, <3>3 DEF TakeOutbound
      <4>2. task.msg \in DOMAIN log /\ log[task.msg] \in {"in", "out", "auto"} /\ task.kind = Kind(task.msg)
        BY <4>1, CurNow, TypesNow
      <4>3. log[task.msg] = "auto"
        BY <4>1, <4>2 DEF Kind, Answers
      <4>4. QED
        BY <3>3, <4>3 DEF TakeOutbound, Through
    <3>4. QED
      BY <3>1, <3>2, <3>3
  <2>2. QED
    BY <1>1, <1>3, <1>6, <2>1, RenderedSame DEF Kept
<1>7. QED
  BY <1>4, <1>5, <1>6 DEF Kept

LEMMA TaskKept ==
  ASSUME WorkerInv, NEW m, Last(m), Kept(m), Sync \/ Apply \/ MarkDone \/ EnqueueNotify
  PROVE  Kept(m)'
<1>1. /\ UNCHANGED <<log, rows, slot, dismissed, feed, row, mode, todo>> /\ op \in Stages \ {"upsert", "stats"}
      /\ mode = "none" /\ todo = {} /\ row = NoRow /\ op' \in Stages \ {"upsert"}
  BY DEF Sync, Apply, MarkDone, EnqueueNotify, webVars, rowVars, b24Vars, WorkerInv, StageHolds, Stages, Resting
<1>2. CASE ToRender(m)
  <2>1. CASE Sync \/ Apply
    <3>1. UNCHANGED <<log, tasks, ready>> /\ Busy /\ op # "enqueue" /\ op # "stats"
      BY <1>1, <2>1 DEF Sync, Apply, webVars, Busy, Resting
    <3>2. \A t : ~Deciding(t) => ~Deciding(t)'
      BY <3>1, TaskSame DEF Deciding
    <3>3. QED
      BY <1>2, <3>1, <3>2, ToSame DEF Kept
  <2>2. CASE MarkDone
    BY <1>2, <2>2, ToSettled DEF Kept
  <2>3. CASE EnqueueNotify
    <3>1. /\ Enqueue("notify", upto) /\ log' = log /\ upto \in DOMAIN log /\ \A t : ~Deciding(t)'
      BY <2>3 DEF EnqueueNotify, WorkerInv, QueueHolds, Deciding, Busy, Resting
    <3>2. QED
      BY <1>2, <3>1, ToGrown DEF Kept, Last
  <2>4. QED
    BY <2>1, <2>2, <2>3
<1>3. CASE Rendering(m)
  BY <1>1, <1>3 DEF Rendering
<1>4. CASE Rendered(m)
  BY <1>1, <1>4, RenderedSame DEF Kept
<1>5. QED
  BY <1>2, <1>3, <1>4 DEF Kept

(* The statistics, and the rows to be rendered.                            *)
LEMMA RenderStarts ==
  ASSUME WorkerInv, NEW m, Answers = {}, Last(m), Kept(m), Stats \/ Upsert \/ Recheck,
         op = "upsert" => told # {}
  PROVE  Kept(m)'
<1>1. /\ UNCHANGED <<log, tasks, ready, slot, dismissed, feed, row>> /\ Busy /\ op # "enqueue"
      /\ mode = "none" /\ todo = {} /\ row = NoRow /\ op' = "row"
  BY DEF Stats, Upsert, Recheck, Through, webVars, rowVars, b24Vars, WorkerInv, StageHolds, Stages, Busy, Resting
<1>2. m \in Unanswered
  BY DEF Last, Unanswered
<1>3. CASE Stats
  <2>1. mode' = "purge" /\ upto' = CHOOSE a \in Inbound : \A k \in Inbound : k <= a
    BY <1>2, <1>3 DEF Stats, Through, Unanswered
  <2>2. m \in Inbound /\ \A k \in Inbound : k <= m
    BY DEF Last
  <2>3. \A a \in Inbound : (\A k \in Inbound : k <= a) => a = m
    <3>1. Inbound \subseteq Nat
      BY TypesNow DEF Inbound
    <3>2. QED
      BY <2>2, <3>1
  <2>4. upto' = m
    BY <2>1, <2>2, <2>3
  <2>5. QED
    BY <2>1, <2>4 DEF Kept, Rendering
<1>4. CASE ToRender(m) /\ op # "stats"
  <2>1. \A t : ~Deciding(t) => ~Deciding(t)'
    BY <1>1, <1>4, TaskSame DEF Deciding
  <2>2. QED
    BY <1>1, <1>4, <2>1, ToSame DEF Kept
<1>5. CASE Upsert /\ ~ToRender(m)
  <2>1. Rendering(m)
    BY <1>5 DEF Kept, Rendered, Upsert
  <2>2. told # {}
    BY <1>5 DEF Upsert
  <2>3. upto' = m /\ rows' = rows \union told /\ todo' = rows' /\ mode' = "render"
    BY <1>5, <2>1 DEF Upsert, Through, Rendering
  <2>4. QED
    BY <2>2, <2>3 DEF Kept, Rendering
<1>6. CASE Recheck /\ ~ToRender(m)
  <2>1. Rendered(m) /\ mode' = "undo" /\ todo' = {} /\ rows' = rows
    BY <1>1, <1>2, <1>6 DEF Kept, Rendering, Recheck, Through, rowVars
  <2>2. QED
    BY <1>1, <2>1, RenderedSame DEF Kept
<1>7. QED
  BY <1>3, <1>4, <1>5, <1>6 DEF Upsert, Recheck

(* The rows: the work ends with the last message shown in all of them.     *)
LEMMA RowsKept ==
  ASSUME WorkerInv, NEW m, Kept(m),
         RowsDone \/ (\E r \in Recipient : NextRow(r)) \/ Delete \/ Post \/ Save
  PROVE  Kept(m)'
<1>1. /\ UNCHANGED <<log, tasks, ready, upto>> /\ op \in {"row", "delete", "post", "save"} /\ mode # "none"
      /\ op \in {"delete", "post", "save"} => row \in Recipient
      /\ op = "row" => row = NoRow
      /\ op' # "stats"
      /\ rows \subseteq Recipient /\ NoRow \notin Recipient
  <2>1. UNCHANGED <<log, tasks, ready, upto>> /\ op \in {"row", "delete", "post", "save"}
    BY DEF RowsDone, NextRow, Delete, Post, Save, webVars
  <2>2. op' # "stats"
    BY DoneNow DEF NextRow, Delete, Post, Save
  <2>3. QED
    BY <2>1, <2>2, TypesNow DEF WorkerInv, StageHolds, Stages, Resting
<1>2. CASE ToRender(m)
  <2>1. CASE mode = "sweep"
    <3>1. ~Busy'
      BY <1>1, <2>1, DoneNow DEF NextRow, Delete, Post, Save, Busy, Resting
    <3>2. QED
      BY <1>1, <1>2, <3>1, ToSame DEF Kept, Deciding
  <2>2. CASE mode # "sweep"
    <3>1. \A t : ~Deciding(t) => ~Deciding(t)'
      BY <1>1, <2>2, TaskSame DEF Deciding, Busy, Resting
    <3>2. QED
      BY <1>1, <1>2, <3>1, ToSame DEF Kept
  <2>3. QED
    BY <2>1, <2>2
<1>3. CASE Rendering(m) /\ mode = "purge"
  <2>1. upto' = m
    BY <1>1, <1>3 DEF Rendering
  <2>2. op' = "upsert" \/ mode' = "purge"
    BY <1>3, DoneNow DEF NextRow, Delete, Post, Save
  <2>3. mode' # "render"
    BY <1>3, DoneNow DEF NextRow, Delete, Post, Save
  <2>4. QED
    BY <2>1, <2>2, <2>3 DEF Kept, Rendering
<1>4. CASE Rendering(m) /\ mode = "render"
  <2>1. upto = m /\ rows # {} /\ \A r \in rows \ (todo \union {row}) : Shows(r, m)
    BY <1>4 DEF Rendering
  <2>2. CASE RowsDone
    <3>1. UNCHANGED <<rows, slot, dismissed, feed, todo, row>> /\ todo = {} /\ row = NoRow
      BY <2>2, DoneNow DEF RowsDone, rowVars, b24Vars
    <3>2. \A r \in rows : Shows(r, m)
      BY <1>1, <2>1, <3>1
    <3>3. op' = "recheck" /\ mode' = "none"
      BY <1>4, <2>2, DoneNow
    <3>4. QED
      BY <2>1, <3>1, <3>2, <3>3 DEF Kept, Rendered, Shows
  <2>3. CASE \E r \in Recipient : NextRow(r)
    <3>1. UNCHANGED <<rows, slot, dismissed, feed, mode>> /\ todo' \union {row'} = todo /\ row = NoRow
      BY <1>1, <2>3 DEF NextRow, rowVars, b24Vars
    <3>2. \A r \in rows \ (todo' \union {row'}) : Shows(r, m)
      BY <1>1, <2>1, <3>1
    <3>3. QED
      BY <1>1, <1>4, <2>1, <3>1, <3>2 DEF Kept, Rendering, Shows
  <2>4. CASE Delete \/ Post
    <3>1. UNCHANGED <<rows, slot, dismissed, mode, todo, row>>
      BY <2>4 DEF Delete, Post, rowVars
    <3>2. \A r \in rows \ (todo \union {row}) : Shows(r, m)'
      <4> SUFFICES ASSUME NEW r \in rows \ (todo \union {row}) PROVE Shows(r, m)'
        OBVIOUS
      <4>1. PICK f \in feed : f.id = slot[r] /\ f.upto = m /\ r \notin dismissed
        BY <2>1 DEF Shows
      <4>2. f \in feed'
        <5>1. CASE Post
          BY <4>1, <5>1 DEF Post, NewNotice
        <5>2. CASE Delete
          <6>1. f.id # 0 /\ r # row /\ row \in Recipient /\ r \in Recipient
            BY <1>1, <4>1, <5>2, TypesNow DEF Delete, NoticeType
          <6>2. f.id # slot[row]
            BY <4>1, <6>1 DEF WorkerInv, IdsHold
          <6>3. QED
            BY <4>1, <5>2, <6>2 DEF Delete, Deleted
        <5>3. QED
          BY <2>4, <5>1, <5>2
      <4>3. QED
        BY <3>1, <4>1, <4>2 DEF Shows
    <3>3. QED
      BY <1>1, <1>4, <2>1, <3>1, <3>2 DEF Kept, Rendering
  <2>5. CASE Save
    <3>1. /\ row \in Recipient /\ fresh # 0 /\ rows' = rows /\ row' = NoRow /\ UNCHANGED <<feed, mode, todo>>
          /\ slot' = [slot EXCEPT ![row] = fresh] /\ dismissed' = dismissed \ {row}
      BY <1>4, <2>5 DEF Save, Saved, WorkerInv, StageHolds, b24Vars
    <3>2. slot'[row] = fresh /\ \A r \in Recipient : r # row => slot'[r] = slot[r]
      BY <3>1, TypesNow
    <3>3. PICK f \in feed : f.id = fresh /\ f.upto = m
      BY <2>1, <3>1 DEF WorkerInv, IdsHold
    <3>4. \A r \in rows \ (todo' \union {row'}) : Shows(r, m)'
      <4> SUFFICES ASSUME NEW r \in rows \ (todo' \union {row'}) PROVE Shows(r, m)'
        OBVIOUS
      <4>1. CASE r = row
        BY <3>1, <3>2, <3>3, <4>1 DEF Shows
      <4>2. CASE r # row
        <5>1. Shows(r, m) /\ r \in Recipient
          BY <1>1, <2>1, <3>1, <4>2
        <5>2. QED
          BY <3>1, <3>2, <4>2, <5>1 DEF Shows
      <4>3. QED
        BY <4>1, <4>2
    <3>5. QED
      BY <1>1, <1>4, <2>1, <3>1, <3>4 DEF Kept, Rendering
  <2>6. QED
    BY <2>2, <2>3, <2>4, <2>5
<1>5. CASE Rendered(m)
  <2>1. RowsDone /\ mode \notin {"purge", "render"}
    BY <1>1, <1>5 DEF Rendered, NextRow, Delete, Post, Save
  <2>2. UNCHANGED <<rows, slot, dismissed, feed, todo, row>> /\ mode' = "none" /\ op' # "upsert"
    BY <2>1, DoneNow DEF RowsDone, rowVars, b24Vars, Modes
  <2>3. QED
    BY <1>5, <2>2, RenderedSame DEF Kept, Rendered
<1>6. QED
  BY <1>1, <1>2, <1>3, <1>4, <1>5 DEF Kept, Rendering

LEMMA OutsideKept ==
  ASSUME WorkerInv, Outside, NEW m, Last(m)', Answers' = {}, clicked' < m,
         Last(m) /\ clicked < m /\ Answers = {} => Kept(m)
  PROVE  Kept(m)'
<1>0. /\ UNCHANGED workVars /\ (Busy' <=> Busy) /\ (Busy => cur' = cur /\ cur \in DOMAIN tasks)
      /\ \A t : Deciding(t)' <=> Deciding(t)
      /\ \A t : Deciding(t) => t \in DOMAIN tasks
  BY OutsideTask, BusyNow, CurNow DEF workVars, Busy, Deciding
<1>1. ASSUME NEW dir \in {"in", "out", "auto"}, Message(dir) PROVE Kept(m)'
  <2>1. /\ DOMAIN log = 1..Len(log) /\ Len(log) \in Nat /\ DOMAIN log' = 1..(Len(log) + 1)
        /\ log'[Len(log) + 1] = dir /\ \A k \in DOMAIN log : k \in DOMAIN log' /\ log'[k] = log[k] /\ k \in Nat
        /\ \A k \in DOMAIN log' : k \in DOMAIN log \/ k = Len(log) + 1
        /\ UNCHANGED <<tasks, ready, rows, slot, dismissed, feed, clicked>>
    BY SMTT(30), <1>1, TypesNow, AppendFacts DEF Message, rowVars, b24Vars, histVars
  <2>2. CASE dir = "in"
    <3>1. Len(log) + 1 \in Inbound'
      BY <2>1, <2>2 DEF Inbound
    <3>2. m = Len(log) + 1
      BY <2>1, <3>1 DEF Last, Inbound
    <3>3. Untold(m)'
      BY <2>1, <3>2 DEF Untold, WorkerInv, QueueHolds
    <3>4. QED
      BY <3>3 DEF Kept, ToRender
  <2>3. CASE dir # "in"
    <3>1. Inbound' = Inbound /\ Answers = {}
      BY <2>1, <2>3 DEF Inbound, Answers
    <3>2. Kept(m)
      BY <2>1, <3>1 DEF Last
    <3>3. CASE ToRender(m)
      <4>1. \A k : Untold(k) => Untold(k)'
        BY <2>1 DEF Untold
      <4>2. QED
        BY <1>0, <2>1, <3>3, <4>1 DEF Kept, ToRender, Open, workVars
    <3>4. CASE Rendering(m) \/ Rendered(m)
      BY <1>0, <2>1, <3>4 DEF Kept, Rendering, Rendered, Shows, workVars
    <3>5. QED
      BY <3>2, <3>3, <3>4 DEF Kept
  <2>4. QED
    BY <2>2, <2>3
<1>2. CASE Dismiss
  <2>1. clicked' = Len(log) /\ log' = log /\ m \in DOMAIN log
    BY <1>2 DEF Dismiss, webVars, Last, Inbound
  <2>2. QED
    BY <2>1, TypesNow
<1>3. CASE (\E S \in Teams : Reassign(S)) \/ (\E t \in DOMAIN tasks : Wake(t))
  <2>1. UNCHANGED <<log, tasks, rows, slot, dismissed, feed, clicked>>
    BY <1>3 DEF Reassign, Wake, rowVars, b24Vars, histVars
  <2>2. Kept(m)
    BY <2>1 DEF Last, Inbound, Answers
  <2>3. CASE ToRender(m)
    BY <1>0, <2>1, <2>3, ToSame DEF Kept, workVars
  <2>4. CASE Rendering(m) \/ Rendered(m)
    BY <1>0, <2>1, <2>4 DEF Kept, Rendering, Rendered, Shows, workVars
  <2>5. QED
    BY <2>2, <2>3, <2>4 DEF Kept
<1>4. ASSUME NEW a \in 1..MaxMessages, EnqueueTask(a) PROVE Kept(m)'
  <2>1. /\ a \in DOMAIN log /\ Enqueue(Kind(a), a) /\ Kind(a) \in {"inbound", "outbound"}
        /\ UNCHANGED <<log, rows, slot, dismissed, feed, clicked>>
    BY <1>4 DEF EnqueueTask, rowVars, b24Vars, histVars, Kind
  <2>2. Kept(m) /\ m \in Inbound
    BY <2>1 DEF Last, Inbound, Answers
  <2>3. CASE ToRender(m)
    <3>1. a = m => Kind(a) = "inbound"
      BY <2>2 DEF Kind, Inbound
    <3>2. ToRender(m)'
      BY <1>0, <2>1, <2>2, <2>3, <3>1, ToGrown DEF workVars
    <3>3. QED
      BY <3>2 DEF Kept
  <2>4. CASE Rendering(m) \/ Rendered(m)
    BY <1>0, <2>1, <2>4 DEF Kept, Rendering, Rendered, Shows, workVars
  <2>5. QED
    BY <2>2, <2>3, <2>4 DEF Kept
<1>5. QED
  BY <1>1, <1>2, <1>3, <1>4 DEF Outside

LEMMA FaultsCount == ASSUME WorkerInv, Failing PROVE faults' # 0
BY TypesNow DEF Failing, SyncFails, ApplyFails, MarkFails, EnqueueFails, StatsFails, DeleteRefused,
   DeleteFails, PostFails, SaveFails, Crash, Fault

LEMMA ToldKept ==
  ASSUME {} \notin Teams, WorkerInv, SomebodyTold, [Next]_notifyVars
  PROVE  SomebodyTold'
<1> USE DEF SomebodyTold
<1>1. CASE Poll \/ Sweep \/ TakeInbound \/ TakeOutbound
  BY <1>1 DEF Poll, Sweep, TakeInbound, TakeOutbound, Through, WorkerInv, StageHolds, Stages, Resting
<1>2. CASE TakeNotify
  BY <1>2, TypesNow DEF TakeNotify
<1>3. CASE Sync \/ Apply \/ MarkDone \/ EnqueueNotify \/ FailOrRetry
  BY <1>3 DEF Sync, Apply, MarkDone, EnqueueNotify, FailOrRetry, WorkerInv, StageHolds, Stages, Resting
<1>4. CASE Stats \/ Upsert \/ Recheck
  BY <1>4 DEF Stats, Upsert, Recheck, Through
<1>5. CASE RowsDone
  BY <1>5, DoneNow DEF RowsDone, Modes
<1>6. CASE (\E r \in Recipient : NextRow(r)) \/ Delete \/ DeleteRefused \/ Post \/ Save
  BY <1>6 DEF NextRow, Delete, DeleteRefused, Post, Save
<1>7. CASE EnqueueFails
  BY <1>7 DEF EnqueueFails, WorkerInv, StageHolds, Stages, Resting
<1>8. CASE SyncFails \/ ApplyFails \/ MarkFails \/ StatsFails
  BY <1>8 DEF SyncFails, ApplyFails, MarkFails, StatsFails, Raise, Abandon, Loose
<1>9. CASE DeleteFails \/ PostFails \/ SaveFails \/ Crash
  BY <1>9 DEF DeleteFails, PostFails, SaveFails, Crash, Raise, Abandon, Loose
<1>10. CASE Outside
  BY <1>10, OutsideTask DEF workVars
<1>11. CASE UNCHANGED notifyVars
  BY <1>11 DEF notifyVars, workVars
<1>12. QED
  BY <1>1, <1>2, <1>3, <1>4, <1>5, <1>6, <1>7, <1>8, <1>9, <1>10, <1>11 DEF Next, Handle, Failing

(* Without a fault no task is retried.                                     *)
LEMMA NoRetry ==
  ASSUME WorkerInv, faults = 0 => op # "retry", [Next]_notifyVars, faults' = 0
  PROVE  op' # "retry"
<1>1. ~Failing
  BY FaultsCount
<1>2. CASE Poll \/ Sweep \/ TakeInbound \/ TakeOutbound \/ TakeNotify \/ Sync \/ Apply \/ MarkDone
           \/ EnqueueNotify \/ FailOrRetry \/ Stats \/ Upsert \/ Recheck
  BY <1>2 DEF Poll, Sweep, TakeInbound, TakeOutbound, TakeNotify, Sync, Apply, MarkDone, EnqueueNotify,
     FailOrRetry, Stats, Upsert, Recheck, Through
<1>3. CASE RowsDone \/ (\E r \in Recipient : NextRow(r)) \/ Delete \/ Post \/ Save
  BY <1>3, DoneNow DEF NextRow, Delete, Post, Save
<1>4. CASE Outside
  <2>1. faults' = faults /\ op' = op
    BY <1>4 DEF Outside, Message, EnqueueTask, Reassign, Wake, Dismiss, histVars, workVars
  <2>2. QED
    BY <2>1
<1>5. CASE UNCHANGED notifyVars
  BY <1>5 DEF notifyVars, workVars, histVars
<1>6. QED
  BY <1>1, <1>2, <1>3, <1>4, <1>5 DEF Next, Handle

LEMMA NextContact ==
  ASSUME {} \notin Teams, WorkerInv, ContactKept, [Next]_notifyVars PROVE ContactKept'
<1>1. SomebodyTold' /\ (faults' = 0 => op' # "retry")
  BY ToldKept, NoRetry DEF ContactKept
<1>2. ASSUME NEW m, faults' = 0, Answers' = {}, Last(m)', clicked' < m PROVE Kept(m)'
  <2>1. ~Failing
    BY <1>2, FaultsCount
  <2>2. CASE Poll \/ Sweep \/ Handle
    <3>1. UNCHANGED <<log, clicked, faults>>
      BY <2>2 DEF Poll, Sweep, Handle, TakeInbound, TakeOutbound, TakeNotify, Sync, Apply, MarkDone,
         EnqueueNotify, FailOrRetry, Stats, Upsert, Recheck, NextRow, RowsDone, Delete, Post, Save, webVars,
         histVars
    <3>2. faults = 0 /\ Answers = {} /\ Last(m) /\ clicked < m
      BY <1>2, <3>1 DEF Answers, Last, Inbound
    <3>3. Kept(m) /\ ~FailOrRetry
      BY <3>2 DEF ContactKept, FailOrRetry
    <3>4. op = "upsert" => told # {}
      BY DEF ContactKept, SomebodyTold
    <3>5. QED
      BY <2>2, <3>2, <3>3, <3>4, BatchKept, TaskKept, RenderStarts, RowsKept DEF Handle
  <2>3. CASE Outside
    <3>1. faults = 0
      BY <1>2, <2>3 DEF Outside, Message, EnqueueTask, Reassign, Wake, Dismiss, histVars
    <3>2. Last(m) /\ clicked < m /\ Answers = {} => Kept(m)
      BY <3>1 DEF ContactKept
    <3>3. QED
      BY <1>2, <2>3, <3>2, OutsideKept
  <2>4. CASE UNCHANGED notifyVars
    <3>1. faults = 0 /\ Answers = {} /\ Last(m) /\ clicked < m
      BY <1>2, <2>4 DEF notifyVars, webVars, histVars, Answers, Last, Inbound
    <3>2. Kept(m) /\ cur' = cur
      BY <2>4, <3>1, TaskSame DEF ContactKept, notifyVars, webVars
    <3>3. ToRender(m) => ToRender(m)'
      BY <2>4, <3>2, ToSame DEF notifyVars, webVars, workVars, Deciding, Busy
    <3>4. QED
      BY <2>4, <3>2, <3>3 DEF Kept, Rendering, Rendered, Shows, notifyVars, rowVars, b24Vars, workVars
  <2>5. QED
    BY <2>1, <2>2, <2>3, <2>4 DEF Next
<1>3. QED
  BY <1>1, <1>2 DEF ContactKept

(* At rest, and without faults, everyone who is to be told of a client     *)
(* nobody has answered has a notice of the last message, unless it was     *)
(* dismissed after that message.  Somebody is to be told: with an empty    *)
(* list of recipients there would be nobody to show it to.                 *)
THEOREM FirstContactsAreShown ==
  ASSUME {} \notin Teams PROVE Spec => []FirstContactIsShown
<1>1. Init => WorkerInv /\ ContactKept
  <2> SUFFICES ASSUME Init PROVE WorkerInv /\ ContactKept
    OBVIOUS
  <2>1. op = "rest" /\ mode = "none" /\ Inbound = {}
    BY DEF Init, Inbound
  <2>2. QED
    BY <2>1, InitWorker DEF ContactKept, SomebodyTold, Last
<1>2. WorkerInv /\ ContactKept /\ [Next]_notifyVars => (WorkerInv /\ ContactKept)'
  BY NextWorker, NextContact
<1>3. WorkerInv /\ ContactKept => FirstContactIsShown
  <2> SUFFICES ASSUME WorkerInv, ContactKept, AtRest, faults = 0, Waits, Answers = {}
               PROVE  /\ rows # {}
                      /\ \A r \in rows : \E f \in feed :
                           f.id = slot[r] /\ \A m \in Inbound : m <= f.upto
    BY DEF FirstContactIsShown
  <2>1. PICK k \in Inbound : clicked < k
    BY TypesNow DEF Waits, Unanswered, Inbound
  <2>2. PICK m \in Inbound : \A j \in Inbound : j <= m
    BY <2>1, InboundLast
  <2>3. Last(m) /\ clicked < m
    <3>1. k \in Nat /\ m \in Nat /\ k <= m
      BY <2>1, <2>2, TypesNow DEF Inbound
    <3>2. QED
      BY <2>1, <2>2, <3>1, TypesNow DEF Last
  <2>4. Kept(m)
    BY <2>3 DEF ContactKept
  <2>5. op = "rest" /\ mode = "none"
    BY DEF AtRest, WorkerInv, StageHolds, Stages, Resting
  <2>6. ~Rendering(m)
    BY <2>5 DEF Rendering
  <2>7. ~ToRender(m)
    <3>1. ~Untold(m)
      BY <2>2 DEF AtRest, Untold, Inbound
    <3>2. \A t \in DOMAIN tasks : ~Open(t)
      BY DEF AtRest, Settled, Open
    <3>3. QED
      BY <2>5, <3>1, <3>2 DEF ToRender
  <2>8. Rendered(m)
    BY <2>4, <2>6, <2>7 DEF Kept
  <2>9. QED
    BY <2>2, <2>8 DEF Rendered, Shows
<1>4. QED
  BY <1>1, <1>2, <1>3, PTL DEF Spec
=============================================================================
