----------------------------- MODULE NotifyFeed -----------------------------
(***************************************************************************)
(* The crm_sync queue (bridge/crm_sync_worker.py) for one dialog, and the  *)
(* feed it keeps in sync, where each recipient has one notice "a client    *)
(* waits for an answer" as long as the client does.  The bridge enqueues a *)
(* task for each message, an inbound task enqueues a notify task; a notify *)
(* task shows the notice again, the task of a manager's answer clears it,  *)
(* and so does the sweep of the rows that the web marked with "no answer   *)
(* needed".                                                                *)
(*                                                                         *)
(* A step of the worker is what runs between two awaits: one transaction   *)
(* or one REST call.  Messages, the web and the team of the line change    *)
(* between any two of them.  A handler that goes through rows of           *)
(* dialog_notifications does so in one of five modes:                      *)
(*   "purge"  rows of managers who left the line: delete notice and row    *)
(*   "render" all rows: delete the old notice, post the new, save its id   *)
(*   "undo"   rows just rendered, if an answer came meanwhile              *)
(*   "clear"  rows with a notice, before the comment of an answer          *)
(*   "sweep"  dismissed rows with a notice                                 *)
(***************************************************************************)
EXTENDS Naturals, Sequences, FiniteSets

CONSTANTS
  Recipient,      (* managers of the line                                  *)
  Teams,          (* possible values of collect()'s notify_user_ids        *)
  NoRow,          (* "no current row"                                      *)
  MaxAttempts,    (* CrmSyncWorker._max_attempts (5)                       *)
  BatchSize,      (* CrmSyncWorker._batch_size (20)                        *)
  MaxMessages,    (* bound on the messages of the dialog                   *)
  MaxFaults       (* bound on crashes and failing calls                    *)

ASSUME NotifyAssumption ==
  /\ NoRow \notin Recipient
  /\ Teams \subseteq SUBSET Recipient
  /\ MaxAttempts \in Nat \ {0} /\ BatchSize \in Nat \ {0}
  /\ MaxMessages \in Nat /\ MaxFaults \in Nat

VARIABLES
  \* Postgres
  log,            (* messages of the dialog by id: "in", "out" or "auto"   *)
  team,           (* who is to be notified (responsible, or line members)  *)
  tasks,          (* rows of crm_sync by id                                *)
  ready,          (* tasks that are due, in the order of next_attempt_at   *)
  rows,           (* recipients with a row in dialog_notifications         *)
  slot,           (* DialogNotification.b24_message_id, 0 for NULL         *)
  dismissed,      (* rows with dismissed_at                                *)
  \* Bitrix24
  feed,           (* notices in the recipients' chats                      *)
  posted,         (* ids given to notices so far                           *)
  \* memory of the worker
  left,           (* tasks of the fetched batch that are not handled yet   *)
  op,             (* where _process_once stands                            *)
  mode,           (* what is being done to the rows                        *)
  todo,           (* rows still to be done                                 *)
  row,            (* the row in work                                       *)
  fresh,          (* id of the notice just posted, 0 for none              *)
  told,           (* notify_user_ids, read by collect() with the task      *)
  upto,           (* last_inbound_id of the statistics                     *)
  \* history
  clicked,        (* last message when "no answer needed" was clicked      *)
  faults

webVars    == <<log, team, tasks, ready>>
rowVars    == <<rows, slot, dismissed>>
b24Vars    == <<feed, posted>>
workVars   == <<left, op, mode, todo, row, fresh, told, upto>>
histVars   == <<clicked, faults>>
notifyVars == <<webVars, rowVars, b24Vars, workVars, histVars>>

Init ==
  /\ log = <<>> /\ team \in Teams /\ tasks = <<>> /\ ready = <<>>
  /\ rows = {} /\ slot = [r \in Recipient |-> 0] /\ dismissed = {}
  /\ feed = {} /\ posted = 0
  /\ left = 0 /\ op = "rest" /\ mode = "none" /\ todo = {} /\ row = NoRow
  /\ fresh = 0 /\ told = {} /\ upto = 0
  /\ clicked = 0 /\ faults = 0

Inbound  == {m \in DOMAIN log : log[m] = "in"}
Answers  == {m \in DOMAIN log : log[m] = "out"}

(* notify_dialog_stats: inbound messages after the last answer, which      *)
(* counts from its creation, before it is sent and even if it never is.    *)
Unanswered == {m \in Inbound : \A k \in Answers : k < m}

-----------------------------------------------------------------------------
(* Messages, their tasks, the team, and the button in the notice.          *)

(* A message is committed by IncomingHandler, the web or the autoreply.    *)
Message(dir) ==
  /\ Len(log) < MaxMessages
  /\ log' = Append(log, dir)
  /\ UNCHANGED <<team, tasks, ready, rowVars, b24Vars, workVars, histVars>>

Kind(m) == IF log[m] = "in" THEN "inbound" ELSE "outbound"

Enqueue(kind, m) ==
  /\ tasks' = Append(tasks, [kind |-> kind, msg |-> m, status |-> "queued", attempts |-> 0])
  /\ ready' = Append(ready, Len(tasks) + 1)

(* Its task follows in a transaction of its own: for an inbound message    *)
(* after the commit, for an outgoing one when the outbox has sent it.      *)
EnqueueTask(m) ==
  /\ m \in DOMAIN log
  /\ \A t \in DOMAIN tasks : tasks[t].msg # m
  /\ Enqueue(Kind(m), m)
  /\ UNCHANGED <<log, team, rowVars, b24Vars, workVars, histVars>>

Reassign(S) ==
  /\ team' = S
  /\ UNCHANGED <<log, tasks, ready, rowVars, b24Vars, workVars, histVars>>

(* The link or the bot command of a notice posted at some time, which may  *)
(* be gone already: dismissed_at is set in all rows.                       *)
Dismiss ==
  /\ posted > 0
  /\ dismissed' = rows
  /\ clicked' = Len(log)
  /\ UNCHANGED <<webVars, rows, slot, b24Vars, workVars, faults>>

(* Mutant: only queued tasks are fetched, none in retry.                   *)
WakeQueuedOnly(t) ==
  /\ t \in DOMAIN tasks
  /\ tasks[t].status = "queued" /\ \A i \in DOMAIN ready : ready[i] # t
  /\ ready' = Append(ready, t)
  /\ UNCHANGED <<log, team, tasks, rowVars, b24Vars, workVars, histVars>>

(* next_attempt_at of a task in retry is reached.                          *)
Wake(t) ==
  /\ t \in DOMAIN tasks
  /\ tasks[t].status = "retrying" /\ \A i \in DOMAIN ready : ready[i] # t
  /\ ready' = Append(ready, t)
  /\ UNCHANGED <<log, team, tasks, rowVars, b24Vars, workVars, histVars>>

-----------------------------------------------------------------------------
(* The loop of the worker.                                                 *)

cur  == Head(ready)
task == tasks[cur]

(* fetch_due; what becomes due later waits for the next batch.             *)
Poll ==
  /\ op = "rest"
  /\ left' = IF Len(ready) < BatchSize THEN Len(ready) ELSE BatchSize
  /\ op' = "next"
  /\ UNCHANGED <<webVars, rowVars, b24Vars, mode, todo, row, fresh, told, upto, histVars>>

(* The rows in S are to be worked through.                                 *)
Through(m, S) == mode' = m /\ todo' = S /\ op' = "row"

Live == {r \in rows : slot[r] # 0}

TakeInbound ==
  /\ op = "next" /\ left > 0 /\ task.kind = "inbound"
  /\ op' = "sync"
  /\ UNCHANGED <<webVars, rowVars, b24Vars, left, mode, todo, row, fresh, told, upto, histVars>>

(* Mutant: the notices stay when the answer is sent.                       *)
TakeOutboundNoClear ==
  /\ op = "next" /\ left > 0 /\ task.kind = "outbound"
  /\ Through("clear", {})
  /\ UNCHANGED <<webVars, rowVars, b24Vars, left, row, fresh, told, upto, histVars>>

(* Mutant: an automatic reply clears them, too.                            *)
TakeOutboundAny ==
  /\ op = "next" /\ left > 0 /\ task.kind = "outbound"
  /\ Through("clear", Live)
  /\ UNCHANGED <<webVars, rowVars, b24Vars, left, row, fresh, told, upto, histVars>>

(* An answer clears the notices first; an automatic reply does not.        *)
TakeOutbound ==
  /\ op = "next" /\ left > 0 /\ task.kind = "outbound"
  /\ Through("clear", IF log[task.msg] = "auto" THEN {} ELSE Live)
  /\ UNCHANGED <<webVars, rowVars, b24Vars, left, row, fresh, told, upto, histVars>>

(* has_newer_queued_notify: the newer task will show the newer state.      *)
Newer == \E t \in DOMAIN tasks :
  t > cur /\ tasks[t].kind = "notify" /\ tasks[t].status \in {"queued", "retrying"}

TakeNotify ==
  /\ op = "next" /\ left > 0 /\ task.kind = "notify"
  /\ told' = team
  /\ op' = IF Newer THEN "skip" ELSE "stats"
  /\ UNCHANGED <<webVars, rowVars, b24Vars, left, mode, todo, row, fresh, upto, histVars>>

(* The end of the batch: pending_dismissed.                                *)
Sweep ==
  /\ op = "next" /\ left = 0
  /\ Through("sweep", dismissed \intersect Live)
  /\ UNCHANGED <<webVars, rowVars, b24Vars, left, row, fresh, told, upto, histVars>>

-----------------------------------------------------------------------------
(* Faults: a call that raises, with or without its effect, or a crash.     *)

Fault == faults < MaxFaults /\ faults' = faults + 1

(* The local variables of the handler are gone.                            *)
Loose ==
  row' = NoRow /\ todo' = {} /\ mode' = "none" /\ fresh' = 0 /\ told' = {} /\ upto' = 0

(* An exception in a handler leads to _fail_or_retry; in the sweep it is   *)
(* logged and the next batch follows.                                      *)
Raise ==
  /\ op' = IF mode = "sweep" THEN "rest" ELSE "retry"
  /\ Loose
  /\ UNCHANGED <<left, clicked>>

(* The process dies, or an exception outside the handlers' try leaves      *)
(* _process_once: the rest of the batch is left to the next poll, and the  *)
(* same rows are still due.                                                *)
Abandon ==
  /\ left' = 0 /\ op' = "rest" /\ Loose
  /\ UNCHANGED clicked

Crash ==
  /\ Fault
  /\ Abandon
  /\ UNCHANGED <<webVars, rowVars, b24Vars>>

-----------------------------------------------------------------------------
(* _handle_inbound and _handle_outbound: the comment in the timeline.      *)

(* process_inbound, process_outbound: the CRM calls (see CrmCard).         *)
Sync ==
  /\ op \in {"sync", "comment"}
  /\ op' = IF op = "sync" THEN "apply" ELSE "record"
  /\ UNCHANGED <<webVars, rowVars, b24Vars, left, mode, todo, row, fresh, told, upto, histVars>>

(* A CRM call raises.                                                      *)
SyncFails ==
  /\ op \in {"sync", "comment"}
  /\ Fault
  /\ Raise
  /\ UNCHANGED <<webVars, rowVars, b24Vars>>

(* apply_inbound_result, set_timeline_comment.                             *)
Apply ==
  /\ op \in {"apply", "record"}
  /\ op' = "done"
  /\ UNCHANGED <<webVars, rowVars, b24Vars, left, mode, todo, row, fresh, told, upto, histVars>>

ApplyFails ==
  /\ op \in {"apply", "record"}
  /\ Fault
  /\ Raise
  /\ UNCHANGED <<webVars, rowVars, b24Vars>>

(* The task leaves the due rows; the worker goes on with the next one.     *)
Settle(status, attempts) ==
  /\ tasks' = [tasks EXCEPT ![cur].status = status, ![cur].attempts = attempts]
  /\ ready' = Tail(ready)

(* mark_done.  The hook of an inbound task comes after it.                 *)
MarkDone ==
  /\ op \in {"done", "skip"}
  /\ Settle("done", task.attempts)
  /\ IF task.kind = "inbound"
       THEN op' = "enqueue" /\ upto' = task.msg /\ UNCHANGED left
       ELSE op' = "next" /\ left' = left - 1 /\ upto' = 0
  /\ told' = {}
  /\ UNCHANGED <<log, team, rowVars, b24Vars, mode, todo, row, fresh, histVars>>

(* mark_done raises, committed or not, and leaves _process_once; for a     *)
(* skipped notify task it is inside the try, and the retry overwrites it.  *)
MarkFails ==
  /\ Fault
  /\ \/ /\ op = "done"
        /\ Settle("done", task.attempts) \/ UNCHANGED <<tasks, ready>>
        /\ Abandon
     \/ /\ op = "skip"
        /\ Raise
        /\ UNCHANGED <<tasks, ready>>
  /\ UNCHANGED <<log, team, rowVars, b24Vars>>

EnqueueNotify ==
  /\ op = "enqueue"
  /\ Enqueue("notify", upto)
  /\ op' = "next" /\ left' = left - 1 /\ upto' = 0
  /\ UNCHANGED <<log, team, rowVars, b24Vars, mode, todo, row, fresh, told, histVars>>

EnqueueFails ==
  /\ op = "enqueue"
  /\ Fault
  /\ op' = "next" /\ left' = left - 1 /\ upto' = 0
  /\ UNCHANGED <<webVars, rowVars, b24Vars, mode, todo, row, fresh, told, clicked>>

(* _fail_or_retry: mark_failed after the last attempt, or reschedule.      *)
FailOrRetry ==
  /\ op = "retry"
  /\ Settle(IF task.attempts + 1 >= MaxAttempts THEN "failed" ELSE "retrying", task.attempts + 1)
  /\ op' = "next" /\ left' = left - 1
  /\ UNCHANGED <<log, team, rowVars, b24Vars, mode, todo, row, fresh, told, upto, histVars>>

-----------------------------------------------------------------------------
(* _handle_notify.                                                         *)

(* The statistics decide: nothing to answer clears, else render.           *)
Stats ==
  /\ op = "stats"
  /\ IF Unanswered = {}
       THEN Through("clear", Live)
       ELSE Through("purge", rows \ told)
  /\ upto' = IF Inbound = {} THEN 0 ELSE CHOOSE m \in Inbound : \A k \in Inbound : k <= m
  /\ UNCHANGED <<webVars, rowVars, b24Vars, left, row, fresh, told, histVars>>

(* upsert_notification_rows for everyone who is to be told.                *)
Upsert ==
  /\ op = "upsert"
  /\ rows' = rows \union told
  /\ Through("render", rows')
  /\ UNCHANGED <<webVars, slot, dismissed, b24Vars, left, row, fresh, told, upto, histVars>>

(* The second look at the statistics: an answer came while rendering.      *)
Recheck ==
  /\ op = "recheck"
  /\ Through("undo", IF Unanswered = {} THEN rows ELSE {})
  /\ UNCHANGED <<webVars, rowVars, b24Vars, left, row, fresh, told, upto, histVars>>

(* One of these transactions, or the token, raises.                        *)
StatsFails ==
  /\ op \in {"stats", "upsert", "recheck"}
  /\ Fault
  /\ Raise
  /\ rows' \in IF op = "upsert" THEN {rows, rows \union told} ELSE {rows}
  /\ UNCHANGED <<webVars, slot, dismissed, b24Vars>>

-----------------------------------------------------------------------------
(* One row after the other.                                                *)

NextRow(r) ==
  /\ op = "row" /\ r \in todo
  /\ row' = r /\ todo' = todo \ {r}
  /\ op' = IF slot[r] # 0 THEN "delete" ELSE IF mode = "render" THEN "post" ELSE "save"
  /\ UNCHANGED <<webVars, rowVars, b24Vars, left, mode, fresh, told, upto, histVars>>

RowsDone ==
  /\ op = "row" /\ todo = {}
  /\ mode' = "none"
  /\ op' = CASE mode = "purge"  -> "upsert"
             [] mode = "render" -> "recheck"
             [] mode = "undo"   -> "done"
             [] mode = "clear"  -> IF task.kind = "outbound" THEN "comment" ELSE "done"
             [] mode = "sweep"  -> "rest"
  /\ UNCHANGED <<webVars, rowVars, b24Vars, left, todo, row, fresh, told, upto, histVars>>

Deleted == {f \in feed : f.id # slot[row]}

(* Mutant: the old notice is not deleted before the new one is posted.     *)
DeleteNot ==
  /\ op = "delete"
  /\ op' = IF mode = "render" THEN "post" ELSE "save"
  /\ UNCHANGED <<webVars, rowVars, b24Vars, left, mode, todo, row, fresh, told, upto, histVars>>

(* _delete_im_quietly; a notice that is gone already is tolerated.         *)
Delete ==
  /\ op = "delete"
  /\ feed' = Deleted
  /\ op' = IF mode = "render" THEN "post" ELSE "save"
  /\ UNCHANGED <<webVars, rowVars, posted, left, mode, todo, row, fresh, told, upto, histVars>>

(* CANT_EDIT_MESSAGE: the notice stays, the handler goes on.               *)
DeleteRefused ==
  /\ op = "delete"
  /\ Fault
  /\ op' = IF mode = "render" THEN "post" ELSE "save"
  /\ UNCHANGED <<webVars, rowVars, b24Vars, left, mode, todo, row, fresh, told, upto, clicked>>

DeleteFails ==
  /\ op = "delete"
  /\ Fault
  /\ feed' \in {feed, Deleted}
  /\ Raise
  /\ UNCHANGED <<webVars, rowVars, posted>>

NewNotice == feed \union {[to |-> row, id |-> posted + 1, upto |-> upto]}

(* send_notification, with the text of the statistics read before.         *)
Post ==
  /\ op = "post"
  /\ feed' = NewNotice
  /\ posted' = posted + 1 /\ fresh' = posted + 1
  /\ op' = "save"
  /\ UNCHANGED <<webVars, rowVars, left, mode, todo, row, told, upto, histVars>>

PostFails ==
  /\ op = "post"
  /\ Fault
  /\ \/ UNCHANGED <<feed, posted>>
     \/ feed' = NewNotice /\ posted' = posted + 1
  /\ Raise
  /\ UNCHANGED <<webVars, rowVars>>

(* remove_notification_row, or set_notification_message, which resets      *)
(* dismissed_at whatever it finds there.                                   *)
Saved ==
  /\ slot' = [slot EXCEPT ![row] = fresh]
  /\ dismissed' = dismissed \ {row}
  /\ rows' = IF mode = "purge" THEN rows \ {row} ELSE rows

Save ==
  /\ op = "save"
  /\ Saved
  /\ op' = "row" /\ row' = NoRow /\ fresh' = 0
  /\ UNCHANGED <<webVars, b24Vars, left, mode, todo, told, upto, histVars>>

SaveFails ==
  /\ op = "save"
  /\ Fault
  /\ Saved \/ UNCHANGED rowVars
  /\ Raise
  /\ UNCHANGED <<webVars, b24Vars>>

-----------------------------------------------------------------------------
Handle ==
  \/ TakeInbound \/ TakeOutbound \/ TakeNotify
  \/ Sync \/ Apply \/ MarkDone \/ EnqueueNotify \/ FailOrRetry
  \/ Stats \/ Upsert \/ Recheck
  \/ \E r \in Recipient : NextRow(r)
  \/ RowsDone \/ Delete \/ Post \/ Save

Failing ==
  \/ SyncFails \/ ApplyFails \/ MarkFails \/ EnqueueFails \/ StatsFails
  \/ DeleteRefused \/ DeleteFails \/ PostFails \/ SaveFails \/ Crash

Outside ==
  \/ \E dir \in {"in", "out", "auto"} : Message(dir)
  \/ \E m \in 1..MaxMessages : EnqueueTask(m)
  \/ \E S \in Teams : Reassign(S)
  \/ \E t \in DOMAIN tasks : Wake(t)
  \/ Dismiss

Next == Poll \/ Sweep \/ Handle \/ Failing \/ Outside

Spec == Init /\ [][Next]_notifyVars

(* run() polls for ever, REST calls and commits return (httpx timeout);    *)
(* next_attempt_at of a task in retry is reached.                          *)
FairSpec ==
  /\ Spec
  /\ WF_notifyVars(Poll \/ Sweep \/ Handle)
  /\ \A t \in 1..(2 * MaxMessages) : WF_notifyVars(Wake(t))

-----------------------------------------------------------------------------
(* A recipient has one notice of the dialog (dialog_notification.py:5-6:   *)
(* "at most one line in the feed per dialog and recipient").  Each notice  *)
(* that no row knows, and that the worker does not hold, was left by a     *)
(* fault of its own: a crash or an error between posting and saving, or a  *)
(* refused deletion.                                                       *)
Orphans == {f \in feed : f.id # slot[f.to] /\ f.id # fresh}
OneNoticeEach == Cardinality(Orphans) <= faults

(* The queue has come to rest: every message has its task, every task is   *)
(* settled, and the worker stands between two batches with nothing to      *)
(* sweep.                                                                  *)
Settled == \A t \in DOMAIN tasks : tasks[t].status \in {"done", "failed"}
AtRest ==
  /\ op = "rest" /\ dismissed \intersect Live = {}
  /\ \A m \in DOMAIN log : \E t \in DOMAIN tasks : tasks[t].msg = m
  /\ Settled
NoneFailed == \A t \in DOMAIN tasks : tasks[t].status = "done"

(* When the client has been answered, no recipient is told any more that   *)
(* the client waits, however the answer raced with the rendering, and      *)
(* whatever was retried on the way.                                        *)
AnsweredIsCleared == AtRest /\ NoneFailed /\ Unanswered = {} => Live = {}

(* NULL means there is nothing to show (dialog_notification.py:4: "answered*)
(* / dismissed / not sent yet"): at rest, and without faults, a client who *)
(* waits is shown to everyone with a row, unless the notice was dismissed  *)
(* after the last message came.                                            *)
Waits == Unanswered # {} /\ \E m \in Unanswered : m > clicked
NullMeansNothingToShow ==
  AtRest /\ faults = 0 /\ Waits => \A r \in rows : slot[r] # 0

(* The same while nobody but the bot has answered yet; then the notice     *)
(* also speaks of the last message, and everyone to be told had one.       *)
FirstContactIsShown ==
  AtRest /\ faults = 0 /\ Waits /\ Answers = {} =>
    /\ rows # {}
    /\ \A r \in rows : \E f \in feed :
         f.id = slot[r] /\ \A m \in Inbound : m <= f.upto

(* The queue always drains: whatever fails, every task is done or given up *)
(* for good, so the feed comes to the rest the properties above speak of.  *)
QueueDrains == ~Settled ~> Settled
=============================================================================
