------------------------------- MODULE Outbox -------------------------------
(***************************************************************************)
(* The outgoing message queue: the web process commits a Message together  *)
(* with its outbox row, the bridge's OutboxWorker polls due rows and sends *)
(* them one at a time through the account's provider, and every outcome is *)
(* recorded in one database transaction of its own.                        *)
(*                                                                         *)
(* A step of the worker is what runs between two awaits, so faults, other  *)
(* processes and the channel interleave exactly where they can in the      *)
(* code: during the provider's request, before the transaction that        *)
(* records its result, and before the hook that queues the CRM task.       *)
(*                                                                         *)
(* Time appears only as order.  ready lists the due rows by                *)
(* next_attempt_at; a rescheduled row leaves it and comes back at any      *)
(* later moment (Wake), which over-approximates every delay.               *)
(***************************************************************************)
EXTENDS Naturals, Sequences, Functions, FiniteSets

CONSTANTS
  Item,           (* outgoing messages; each has one outbox row            *)
  NoItem,         (* "no current item"                                     *)
  Account,        (* messenger accounts of the bridge                      *)
  AcctOf,         (* AcctOf[m]: the row's tg_account_id                    *)
  Media,          (* items with an attachment                              *)
  MaxAttempts,    (* OutboxWorker._max_attempts (5)                        *)
  BatchSize,      (* OutboxWorker._batch_size (50)                         *)
  MaxFaults       (* bound: crashes, database errors, lost answers, failed *)
                  (* hooks                                                 *)

ASSUME OutboxAssumption ==
  /\ NoItem \notin Item
  /\ AcctOf \in [Item -> Account]
  /\ Media \subseteq Item
  /\ MaxAttempts \in Nat \ {0}
  /\ BatchSize \in Nat \ {0}
  /\ MaxFaults \in Nat

VARIABLES
  \* Postgres: table outbox and the columns of messages the worker writes
  item,           (* OutboxItem.status                                     *)
  attempts,       (* OutboxItem.attempts                                   *)
  lastError,      (* OutboxItem.last_error                                 *)
  ready,          (* rows due now, in the order of next_attempt_at         *)
  aged,           (* rows whose created_at is more than 24 hours ago       *)
  msg,            (* Message.status                                        *)
  ext,            (* Message.external_message_id, 0 for NULL               *)
  crm,            (* items with a crm_sync task of kind "outbound"         *)
  \* memory of the bridge process
  up,             (* accounts whose provider is in the SessionManager pool *)
  batch,          (* what is left of the rows _process_once fetched        *)
  cur,            (* the row in _handle                                    *)
  op,             (* where _handle stands                                  *)
  outcome,        (* the error text to be recorded                         *)
  got,            (* SendResult.external_message_id                        *)
  \* the messenger's side
  copies,         (* copies of m the channel accepted                      *)
  lastExt,        (* last message id the channel gave out                  *)
  stray,          (* requests given up on that the channel may still take  *)
  \* history
  failures,       (* real send failures the worker saw for m               *)
  strikes,        (* faults between m's request and its record             *)
  faults          (* all faults, bounded by MaxFaults                      *)

rowVars   == <<item, attempts, lastError, ready, msg, ext>>
dbVars    == <<item, attempts, lastError, ready, aged, msg, ext, crm>>
taskVars  == <<batch, cur, op, outcome, got>>
chanVars  == <<copies, lastExt, stray>>
histVars  == <<failures, strikes, faults>>
outboxVars == <<dbVars, up, taskVars, chanVars, histVars>>

Open     == {"queued", "retrying"}
Statuses == {"absent", "queued", "retrying", "sent", "failed"}
Errors   == {"none", "no_provider", "throttled", "rate_limited", "error",
             "no_provider_timeout", "attachment_missing", "media_not_supported"}
Ops      == {"idle", "send", "sent", "fail", "later", "burn", "hook"}

(* The position of m in s, and s without it.                               *)
IndexOf(s, m) == CHOOSE i \in 1..Len(s) : s[i] = m
Without(s, m) ==
  IF m \in Range(s)
    THEN SubSeq(s, 1, IndexOf(s, m) - 1) \o SubSeq(s, IndexOf(s, m) + 1, Len(s))
    ELSE s

Init ==
  /\ item      = [m \in Item |-> "absent"]
  /\ attempts  = [m \in Item |-> 0]
  /\ lastError = [m \in Item |-> "none"]
  /\ ready     = <<>>
  /\ aged      = {}
  /\ msg       = [m \in Item |-> "none"]
  /\ ext       = [m \in Item |-> 0]
  /\ crm       = {}
  /\ up        = {}
  /\ batch     = <<>>
  /\ cur       = NoItem
  /\ op        = "idle"
  /\ outcome   = "none"
  /\ got       = 0
  /\ copies    = [m \in Item |-> 0]
  /\ lastExt   = 0
  /\ stray     = {}
  /\ failures  = [m \in Item |-> 0]
  /\ strikes   = [m \in Item |-> 0]
  /\ faults    = 0

-----------------------------------------------------------------------------
(* The web process and the passing of time.                                *)

(* POST /dialogs/{id}/messages and its siblings: the Message (pending) and *)
(* the outbox row (queued, due now) are inserted by one commit.            *)
Enqueue(m) ==
  /\ item[m] = "absent"
  /\ item'  = [item EXCEPT ![m] = "queued"]
  /\ msg'   = [msg EXCEPT ![m] = "pending"]
  /\ ready' = Append(ready, m)
  /\ UNCHANGED <<attempts, lastError, aged, ext, crm, up, taskVars, chanVars, histVars>>

(* Mutant: rows are fetched by age, not by next_attempt_at.                *)
WakeFirst(m) ==
  /\ item[m] = "retrying"
  /\ m \notin Range(ready)
  /\ ready' = <<m>> \o ready
  /\ UNCHANGED <<item, attempts, lastError, aged, msg, ext, crm, up, taskVars, chanVars, histVars>>

(* next_attempt_at of a rescheduled row is reached.                        *)
Wake(m) ==
  /\ item[m] = "retrying"
  /\ m \notin Range(ready)
  /\ ready' = Append(ready, m)
  /\ UNCHANGED <<item, attempts, lastError, aged, msg, ext, crm, up, taskVars, chanVars, histVars>>

(* A day goes by: created_at of every open row falls more than 24 hours    *)
(* behind the clock.                                                       *)
DayPasses ==
  /\ aged' = aged \union {m \in Item : item[m] \in Open}
  /\ UNCHANGED <<rowVars, crm, up, taskVars, chanVars, histVars>>

-----------------------------------------------------------------------------
(* The provider pool, seen from get_provider.                              *)

AccountUp(a) ==
  /\ up' = up \union {a}
  /\ UNCHANGED <<dbVars, taskVars, chanVars, histVars>>

AccountDown(a) ==
  /\ up' = up \ {a}
  /\ UNCHANGED <<dbVars, taskVars, chanVars, histVars>>

-----------------------------------------------------------------------------
(* OutboxWorker._process_once and the first half of _handle.               *)

(* fetch_due: the first BatchSize due rows.                                *)
Poll ==
  /\ op = "idle" /\ batch = <<>>
  /\ ready # <<>>
  /\ batch' = SubSeq(ready, 1, IF Len(ready) < BatchSize THEN Len(ready) ELSE BatchSize)
  /\ UNCHANGED <<dbVars, up, cur, op, outcome, got, chanVars, histVars>>

(* The next row of the batch becomes the current one; next is where the    *)
(* decision leads, err what will be recorded.                              *)
Take(m, next, err) ==
  /\ op = "idle" /\ batch # <<>> /\ m = Head(batch)
  /\ batch'   = Tail(batch)
  /\ cur'     = m
  /\ op'      = next
  /\ outcome' = err
  /\ UNCHANGED <<dbVars, up, got, chanVars, histVars>>

NoProvider(m) ==
  /\ AcctOf[m] \notin up
  /\ \/ m \in aged    /\ Take(m, "fail", "no_provider_timeout")
     \/ m \notin aged /\ Take(m, "later", "no_provider")

(* Throttler.acquire refused; see Throttler for when it may.               *)
Throttled(m) ==
  /\ AcctOf[m] \in up
  /\ Take(m, "later", "throttled")

(* _send_attachment: the file is not (or no longer) on the media volume,   *)
(* or this provider cannot send media.                                     *)
BadAttachment(m) ==
  /\ AcctOf[m] \in up
  /\ m \in Media
  /\ \E err \in {"attachment_missing", "media_not_supported"} : Take(m, "fail", err)

(* A slot was granted: provider.send_message or send_media is awaited.     *)
Send(m) ==
  /\ AcctOf[m] \in up
  /\ Take(m, "send", "none")

Decide == \E m \in Item : NoProvider(m) \/ Throttled(m) \/ BadAttachment(m) \/ Send(m)

-----------------------------------------------------------------------------
(* The channel's answer to the awaited request.                            *)

(* The channel takes a copy and gives it the next id.                      *)
Accepted(m) ==
  /\ copies'  = [copies EXCEPT ![m] = @ + 1]
  /\ lastExt' = lastExt + 1

AnswerOk ==
  /\ op = "send"
  /\ Accepted(cur)
  /\ op'  = "sent"
  /\ got' = lastExt + 1
  /\ UNCHANGED <<dbVars, up, batch, cur, outcome, stray, histVars>>

(* FloodWait, 429: nothing was sent, no attempt is used.                   *)
AnswerFlood ==
  /\ op = "send"
  /\ op'      = "later"
  /\ outcome' = "rate_limited"
  /\ UNCHANGED <<dbVars, up, batch, cur, got, chanVars, histVars>>

(* The fate of a row whose send failed for real.                           *)
AfterFailure(m) == IF attempts[m] + 1 >= MaxAttempts THEN "fail" ELSE "burn"

SawFailure ==
  /\ op'       = AfterFailure(cur)
  /\ outcome'  = "error"
  /\ failures' = [failures EXCEPT ![cur] = @ + 1]

AnswerError ==
  /\ op = "send"
  /\ SawFailure
  /\ UNCHANGED <<dbVars, up, batch, cur, got, chanVars, strikes, faults>>

(* A fault is spent; it is a strike when it hits an item's window.         *)
Fault(S) ==
  /\ faults < MaxFaults
  /\ faults'  = faults + 1
  /\ strikes' = [m \in Item |-> IF m \in S THEN strikes[m] + 1 ELSE strikes[m]]

(* Timeout or a broken connection: the worker sees a failure, the request  *)
(* may still be on its way.                                                *)
AnswerLost ==
  /\ op = "send"
  /\ SawFailure
  /\ Fault({cur})
  /\ stray' \in {stray, stray \union {cur}}
  /\ UNCHANGED <<dbVars, up, batch, cur, got, copies, lastExt>>

StrayAccepted(m) ==
  /\ m \in stray
  /\ stray' = stray \ {m}
  /\ Accepted(m)
  /\ UNCHANGED <<dbVars, up, taskVars, histVars>>

-----------------------------------------------------------------------------
(* The transaction that records the outcome (SqlAlchemyOutboxRepository).  *)

(* Mutant: the outbox row is left open.                                    *)
SentMessageOnly(m) ==
  /\ msg'   = [msg EXCEPT ![m] = "sent"]
  /\ ext'   = [ext EXCEPT ![m] = got]
  /\ UNCHANGED <<item, ready, attempts, lastError>>

(* mark_sent: the row and its message, in one commit.                      *)
SentRows(m) ==
  /\ item'  = [item EXCEPT ![m] = "sent"]
  /\ msg'   = [msg EXCEPT ![m] = "sent"]
  /\ ext'   = [ext EXCEPT ![m] = got]
  /\ ready' = Without(ready, m)
  /\ UNCHANGED <<attempts, lastError>>

(* Mutant: the message keeps its status.                                   *)
FailedRowOnly(m) ==
  /\ item'      = [item EXCEPT ![m] = "failed"]
  /\ lastError' = [lastError EXCEPT ![m] = outcome]
  /\ ready'     = Without(ready, m)
  /\ UNCHANGED <<attempts, msg, ext>>

(* mark_failed: the row and its message, in one commit.                    *)
FailedRows(m) ==
  /\ item'      = [item EXCEPT ![m] = "failed"]
  /\ msg'       = [msg EXCEPT ![m] = "error"]
  /\ lastError' = [lastError EXCEPT ![m] = outcome]
  /\ ready'     = Without(ready, m)
  /\ UNCHANGED <<attempts, ext>>

(* reschedule: next_attempt_at moves into the future; count_attempt burns  *)
(* one of the attempts.                                                    *)
RescheduledRow(m, countAttempt) ==
  /\ item'      = [item EXCEPT ![m] = "retrying"]
  /\ lastError' = [lastError EXCEPT ![m] = outcome]
  /\ attempts'  = [attempts EXCEPT ![m] = IF countAttempt THEN @ + 1 ELSE @]
  /\ ready'     = Without(ready, m)
  /\ UNCHANGED <<msg, ext>>

(* The worker turns to the next row of its batch.                          *)
Done ==
  /\ op' = "idle" /\ cur' = NoItem /\ outcome' = "none" /\ got' = 0

(* Mutant: the hook is skipped.                                            *)
MarkSentNoHook ==
  /\ op = "sent"
  /\ SentRows(cur)
  /\ Done
  /\ UNCHANGED <<aged, crm, up, batch, chanVars, histVars>>

MarkSent ==
  /\ op = "sent"
  /\ SentRows(cur)
  /\ op' = "hook"
  /\ got' = 0
  /\ UNCHANGED <<aged, crm, up, batch, cur, outcome, chanVars, histVars>>

MarkFailed ==
  /\ op = "fail"
  /\ FailedRows(cur)
  /\ Done
  /\ UNCHANGED <<aged, crm, up, batch, chanVars, histVars>>

(* Mutant: a deferred send uses up an attempt too.                         *)
RescheduleCounted ==
  /\ op \in {"later", "burn"}
  /\ RescheduledRow(cur, TRUE)
  /\ Done
  /\ UNCHANGED <<aged, crm, up, batch, chanVars, histVars>>

Reschedule ==
  /\ op \in {"later", "burn"}
  /\ RescheduledRow(cur, op = "burn")
  /\ Done
  /\ UNCHANGED <<aged, crm, up, batch, chanVars, histVars>>

(* Items between the request to the channel and the record of its result.  *)
InWindow ==
  IF op \in {"send", "sent", "burn"} \/ (op = "fail" /\ outcome = "error") THEN {cur} ELSE {}

(* The commit raises, applied or not: the exception leaves _process_once,  *)
(* the rest of the batch is dropped and the next poll starts afresh.       *)
DbError ==
  /\ op \in {"sent", "fail", "later", "burn"}
  /\ \/ UNCHANGED rowVars
     \/ op = "sent" /\ SentRows(cur)
     \/ op = "fail" /\ FailedRows(cur)
     \/ op \in {"later", "burn"} /\ RescheduledRow(cur, op = "burn")
  /\ Fault(InWindow)
  /\ batch' = <<>>
  /\ Done
  /\ UNCHANGED <<aged, crm, up, chanVars, failures>>

-----------------------------------------------------------------------------
(* _after_sent: the CRM task of the sent message, in a transaction of its  *)
(* own; an exception is logged and swallowed.                              *)

HookDone ==
  /\ op = "hook"
  /\ crm' = crm \union {cur}
  /\ Done
  /\ UNCHANGED <<rowVars, aged, up, batch, chanVars, histVars>>

HookFails ==
  /\ op = "hook"
  /\ Fault({})
  /\ Done
  /\ UNCHANGED <<dbVars, up, batch, chanVars, failures>>

(* The bridge process dies and starts again with an empty provider pool;   *)
(* a request in flight may still be taken by the channel.                  *)
Crash ==
  /\ Fault(InWindow)
  /\ batch' = <<>>
  /\ Done
  /\ up' = {}
  /\ \/ UNCHANGED stray
     \/ op = "send" /\ stray' = stray \union {cur}
  /\ UNCHANGED <<dbVars, copies, lastExt, failures>>

-----------------------------------------------------------------------------
Answer == AnswerOk \/ AnswerFlood \/ AnswerError \/ AnswerLost
Record == MarkSent \/ MarkFailed \/ Reschedule

Next ==
  \/ \E m \in Item : Enqueue(m) \/ Wake(m) \/ StrayAccepted(m)
  \/ \E a \in Account : AccountUp(a) \/ AccountDown(a)
  \/ DayPasses \/ Poll \/ Decide \/ Answer \/ Record \/ DbError
  \/ HookDone \/ HookFails \/ Crash

Spec == Init /\ [][Next]_outboxVars

(* Fairness of the loops and timers: run() polls for ever with a sleep of  *)
(* poll_interval, the clock advances, and every request is answered or     *)
(* times out (httpx timeout for WhatsApp, request timeout for MAX,         *)
(* wait_for for Telegram media).  Commits eventually succeed because       *)
(* DbError, the alternative, is bounded.                                   *)
WorkerFairness ==
  /\ \A m \in Item : WF_outboxVars(Wake(m))
  /\ WF_outboxVars(DayPasses) /\ WF_outboxVars(Poll) /\ WF_outboxVars(Decide) /\ WF_outboxVars(Record)
  /\ WF_outboxVars(HookDone \/ HookFails)

FairSpec == Spec /\ WorkerFairness /\ WF_outboxVars(Answer)

-----------------------------------------------------------------------------
(* Types of the variables.                                                 *)
TypeOK ==
  /\ item \in [Item -> Statuses]
  /\ attempts \in [Item -> Nat]
  /\ lastError \in [Item -> Errors]
  /\ ready \in Seq(Item)
  /\ aged \subseteq Item
  /\ msg \in [Item -> {"none", "pending", "sent", "read", "error"}]
  /\ ext \in [Item -> Nat]
  /\ crm \subseteq Item
  /\ up \subseteq Account
  /\ batch \in Seq(Item)
  /\ cur \in Item \union {NoItem}
  /\ op \in Ops
  /\ outcome \in Errors
  /\ got \in Nat
  /\ copies \in [Item -> Nat]
  /\ lastExt \in Nat
  /\ stray \subseteq Item
  /\ failures \in [Item -> Nat]
  /\ strikes \in [Item -> Nat]
  /\ faults \in Nat

(* The outbox row and the Message it belongs to never disagree: mark_sent  *)
(* and mark_failed close both in one commit, so a manager never sees a     *)
(* message as pending whose row will not be tried again, nor as failed     *)
(* while the worker may still send it.                                     *)
Agree(m) ==
  /\ item[m] = "absent" <=> msg[m] = "none"
  /\ item[m] \in Open   <=> msg[m] = "pending"
  /\ item[m] = "sent"   <=> msg[m] \in {"sent", "read"}
  /\ item[m] = "failed" <=> msg[m] = "error"
StatusAgreement == \A m \in Item : Agree(m)

(* The worker holds, as current row or in the rest of its batch, only rows *)
(* that are still open and due, each of them once, although the batch is a *)
(* snapshot taken many transactions ago: nothing sent or given up is sent  *)
(* again, whatever faults cut the batch short.                             *)
Held == Range(batch) \union (IF op \in {"idle", "hook"} THEN {} ELSE {cur})
HeldRowsAreOpen ==
  /\ \A m \in Held : item[m] \in Open /\ m \in Range(ready)
  /\ IsInjective(batch)
  /\ op # "idle" => cur \notin Range(batch)

(* A message is given up as a send error only after MaxAttempts real       *)
(* failures: throttling, flood waits and a missing provider never use up   *)
(* an attempt (outbox_worker.py: "attempts are spent only by real sends"). *)
GiveUpIsEarned ==
  \A m \in Item : item[m] = "failed" /\ lastError[m] = "error" => failures[m] >= MaxAttempts

(* Retrying is bounded: beyond MaxAttempts real failures, each further     *)
(* failing send of a message needs a fault that kept an attempt from being *)
(* counted.                                                                *)
RetriesBounded == \A m \in Item : failures[m] <= MaxAttempts + strikes[m]

(* At-least-once with an account of the duplicates: the client gets a copy *)
(* beyond the recorded one, or of a message that is not recorded as sent,  *)
(* only if a timeout, a database error or a crash hit the message between  *)
(* the request and the record of its result.                               *)
One(P) == IF P THEN 1 ELSE 0
DuplicatesAreAccounted ==
  \A m \in Item :
    copies[m] <= strikes[m] + One(msg[m] \in {"sent", "read"} \/ (cur = m /\ op = "sent"))

(* A message shown as sent was accepted by the channel, and carries the id *)
(* the channel gave to one of its copies.                                  *)
SentWasAccepted ==
  \A m \in Item : msg[m] \in {"sent", "read"} => copies[m] > 0 /\ ext[m] \in 1..lastExt

(* Each sent message whose CRM task (timeline comment, clearing of the     *)
(* "waiting for answer" notice) is missing for good was hit by a fault of  *)
(* its own: between mark_sent and the hook, or in the hook.                *)
CrmTaskPerSent ==
  Cardinality({m \in Item :
    msg[m] \in {"sent", "read"} /\ m \notin crm /\ ~(op = "hook" /\ cur = m)}) <= faults

(* A row that is not deferred for ever (by the throttler, a flood wait, an *)
(* absent provider younger than a day) is eventually settled, even if      *)
(* other rows of the queue are deferred again and again.                   *)
EveryMessageSettles ==
  \A m \in Item :
    <>[]~(op = "later" /\ cur = m) => (msg[m] = "pending" ~> msg[m] # "pending")

-----------------------------------------------------------------------------
(* The inductive invariant behind these properties.                        *)

(* A due row is listed once and is open; the worker has a current row      *)
(* exactly while it is handling one.                                       *)
QueueShape ==
  /\ IsInjective(ready)
  /\ \A m \in Range(ready) : item[m] \in Open
  /\ op = "idle" <=> cur = NoItem
  /\ op = "later" => outcome # "error"

FailedForReal == op = "burn" \/ (op = "fail" /\ outcome = "error")

(* Attempts are failures that were recorded; the failure in hand is one    *)
(* more, and it is the last one only when the limit is reached.            *)
AttemptsCounted ==
  /\ \A m \in Item : attempts[m] <= failures[m] /\ attempts[m] < MaxAttempts
  /\ FailedForReal => attempts[cur] < failures[cur]
  /\ op = "burn" => attempts[cur] + 1 < MaxAttempts
  /\ op = "fail" /\ outcome = "error" => attempts[cur] + 1 >= MaxAttempts

(* Failures are attempts, strikes, and the one being or last recorded.     *)
FailuresCounted ==
  \A m \in Item :
    failures[m] <= attempts[m] + strikes[m]
                   + One((cur = m /\ FailedForReal) \/ item[m] = "failed")

(* Copies, and requests that may still become one, are strikes and the one *)
(* that is or is just being recorded.                                      *)
CopiesCounted ==
  \A m \in Item :
    copies[m] + One(m \in stray)
      <= strikes[m] + One((cur = m /\ op = "sent") \/ item[m] = "sent")

(* What mark_sent is about to record happened; only sent rows pass the     *)
(* hook; a stray request belongs to a message that exists.                 *)
RecordIsTrue ==
  /\ op = "sent" => copies[cur] > 0 /\ got \in 1..lastExt
  /\ op = "hook" => item[cur] = "sent"
  /\ \A m \in stray : item[m] # "absent"

IInv ==
  /\ TypeOK
  /\ StatusAgreement
  /\ QueueShape
  /\ HeldRowsAreOpen
  /\ AttemptsCounted
  /\ FailuresCounted
  /\ CopiesCounted
  /\ RecordIsTrue
  /\ SentWasAccepted
  /\ GiveUpIsEarned

(* The queue implements the promise of Delivery.                           *)
D == INSTANCE Delivery WITH phase <- msg
DeliverySpec == D!Spec
=============================================================================
