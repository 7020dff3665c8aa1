---------------------------- MODULE Conversation ----------------------------
(***************************************************************************)
(* How the dialog of one client on one line is written down: what the      *)
(* client writes (bridge/incoming_handler.py), what the manager writes on  *)
(* his telephone, the echo of our own messages (the providers of MAX and   *)
(* WhatsApp), automatic replies (bridge/autoreply.py), messages from the   *)
(* panel, and the first message to a client who never wrote                *)
(* (bridge/initiation_worker.py).                                          *)
(*                                                                         *)
(* Two workers write at once, the pump of the line and the worker of       *)
(* initiations, and the panel in one step.  A row gets its id when it is   *)
(* flushed and is visible when its transaction commits; an insert under a  *)
(* unique key that another transaction holds waits for its end.            *)
(***************************************************************************)
EXTENDS Naturals, FiniteSets, SequencesExt

CONSTANTS
  MaxWritten,     (* bound on the messages the messenger accepts           *)
  MaxFaults,      (* bound on faults                                       *)
  MaxClock,       (* bound on time                                         *)
  WorkTicks,      (* times within the working hours                        *)
  DedupTicks,     (* OFFHOURS_DEDUP_SEC                                    *)
  EchoMax,        (* _ECHO_MAX_IDS                                         *)
  MaxAttempts     (* _MAX_ATTEMPTS of an initiation                        *)

ASSUME ConversationAssumption ==
  /\ MaxWritten \in Nat /\ MaxFaults \in Nat /\ MaxClock \in Nat /\ DedupTicks \in Nat
  /\ EchoMax \in Nat \ {0} /\ MaxAttempts \in Nat \ {0} /\ WorkTicks \subseteq Nat

VARIABLES
  clock,
  written,        (* messages of the messenger: [from, ts]; ids are 1, ... *)
  pushes,         (* _push_queue of the provider                           *)
  worker,         (* the message of the push worker that waits, 0: none    *)
  known,          (* _recent_send_ids, _known_sends                        *)
  incoming,       (* _incoming_queue                                       *)
  up,             (* the provider is connected                             *)
  contact, dialog,(* unique keys: "free", "row" or the writer that holds it*)
  rows,           (* messages: [ext, dir, auto, ts, out, state]            *)
  tasks,          (* rows with a task in the CRM queue                     *)
  writer,         (* the transactions: [at, id, row] of each writer        *)
  cmd,            (* the initiation: [status, attempts, ts]                *)
  again,          (* _apply has been tried before                          *)
  sender,         (* the outbox worker: [at, row, ext]                     *)
  hit,            (* messages a fault has touched                          *)
  late,           (* messages whose grace was over before their answer     *)
  faults

provVars == <<pushes, worker, known, incoming, up>>
dbVars   == <<contact, dialog, rows, tasks>>
initVars == <<cmd, again>>
histVars == <<hit, late, faults>>
vars == <<clock, written, provVars, dbVars, writer, initVars, sender, histVars>>

Writers == {"pump", "init"}
Idle    == [at |-> "idle", id |-> 0, row |-> 0]
Resting == [at |-> "idle", row |-> 0, ext |-> 0]

Init ==
  /\ clock = 0 /\ written = <<>>
  /\ pushes = <<>> /\ worker = 0 /\ known = <<>> /\ incoming = <<>> /\ up = TRUE
  /\ contact = "free" /\ dialog = "free" /\ rows = <<>> /\ tasks = {}
  /\ writer = [w \in Writers |-> Idle]
  /\ cmd = [status |-> "none", attempts |-> 0, ts |-> 0] /\ again = FALSE
  /\ sender = Resting /\ hit = {} /\ late = {} /\ faults = 0

Fault(ids) ==
  faults < MaxFaults /\ faults' = faults + 1 /\ hit' = hit \union ids /\ UNCHANGED late

At(w)        == writer[w].at
Goto(w, at)  == writer' = [writer EXCEPT ![w].at = at]
Rest(w)      == writer' = [writer EXCEPT ![w] = Idle]
IsRow(i)     == rows[i].state = "row"
FromClient(m)== written[m].from = "client"

-----------------------------------------------------------------------------
(* The messenger.                                                          *)

Write(from) ==
  /\ Len(written) < MaxWritten
  /\ written' = Append(written, [from |-> from, ts |-> clock])
  /\ pushes' = Append(pushes, Len(written) + 1)

ClientOrPhoneWrites ==
  /\ Write("client") \/ Write("phone")
  /\ UNCHANGED <<clock, worker, known, incoming, up, dbVars, writer, initVars, sender, histVars>>

(* A channel delivers a message once more.                                 *)
Redeliver ==
  /\ Fault({})
  /\ \E m \in DOMAIN written : pushes' = Append(pushes, m)
  /\ UNCHANGED <<clock, written, worker, known, incoming, up, dbVars, writer, initVars, sender>>

(* Assumed of the clock: a message is handled within a tick.               *)
Tick ==
  /\ At("pump") = "idle"
  /\ clock < MaxClock /\ clock' = clock + 1
  /\ UNCHANGED <<written, provVars, dbVars, writer, initVars, sender, histVars>>

LinkChanges ==
  /\ up' = ~ up
  /\ IF up THEN Fault({}) ELSE UNCHANGED histVars
  /\ UNCHANGED <<clock, written, pushes, worker, known, incoming, dbVars, writer, initVars, sender>>

-----------------------------------------------------------------------------
(* The provider: one push at a time.                                       *)

Knows(m) == \E i \in DOMAIN known : known[i] = m

(* _remember_send: a bounded set in the order of insertion.                *)
Place(m)   == CHOOSE i \in DOMAIN known : known[i] = m
Without(m) == IF Knows(m) THEN RemoveAt(known, Place(m)) ELSE known
Remembered(m) ==
  LET s == Append(Without(m), m)
  IN  IF Len(s) > EchoMax THEN Tail(s) ELSE s

(* Mutant: what the provider has sent itself comes back as a message.      *)
TakePushAny ==
  /\ worker = 0 /\ pushes # <<>>
  /\ pushes' = Tail(pushes)
  /\ incoming' = Append(incoming, Head(pushes)) /\ UNCHANGED worker
  /\ UNCHANGED <<clock, written, known, up, dbVars, writer, initVars, sender, histVars>>

(* _process_push, _handle_sent: messages of the client go on; our own are  *)
(* echoes if their id is known, and get a grace else.                      *)
TakePush ==
  /\ worker = 0 /\ pushes # <<>>
  /\ pushes' = Tail(pushes)
  /\ LET m == Head(pushes) IN
       IF FromClient(m) THEN incoming' = Append(incoming, m) /\ UNCHANGED worker
       ELSE worker' = (IF Knows(m) THEN 0 ELSE m) /\ UNCHANGED incoming
  /\ UNCHANGED <<clock, written, known, up, dbVars, writer, initVars, sender, histVars>>

(* The grace is a fixed pause (_ECHO_GRACE_SEC): the answer may be under   *)
(* way still when it is over.  WhatsApp then remembers the id of what it   *)
(* takes for a message from the telephone, MAX does not.                   *)
Answering(m) == sender.at = "asked" /\ sender.ext = m

GraceOver ==
  /\ worker # 0 /\ worker' = 0
  /\ IF Knows(worker) THEN UNCHANGED <<incoming, known, late>>
     ELSE /\ incoming' = Append(incoming, worker)
          /\ known' \in {known, Remembered(worker)}
          /\ late' = IF Answering(worker) THEN late \union {worker} ELSE late
  /\ UNCHANGED <<clock, written, pushes, up, dbVars, writer, initVars, sender, hit, faults>>

(* An exception in the worker: logged, the push is lost.                   *)
PushFails ==
  /\ worker = 0 /\ pushes # <<>> /\ Fault({Head(pushes)})
  /\ pushes' = Tail(pushes)
  /\ UNCHANGED <<clock, written, worker, known, incoming, up, dbVars, writer, initVars, sender>>

-----------------------------------------------------------------------------
(* Transactions.                                                           *)

Open(m) == [ext |-> m, dir |-> IF FromClient(m) THEN "in" ELSE "out", auto |-> FALSE,
            ts |-> 0, out |-> "none", state |-> "open"]

(* A row of our own, with its row of the outbox.                           *)
Stored(ext, auto, out) == [ext |-> ext, dir |-> "out", auto |-> auto,
                           ts |-> IF auto THEN clock ELSE 0, out |-> out, state |-> "row"]

(* The unique keys that w holds, at the end of its transaction.            *)
Released(key, w, to) == IF key = w THEN to ELSE key
Commit(w) == contact' = Released(contact, w, "row") /\ dialog' = Released(dialog, w, "row")

RollBack(w) ==
  /\ rows' = [i \in DOMAIN rows |->
               IF w = "pump" /\ ~ IsRow(i) THEN [rows[i] EXCEPT !.state = "void"] ELSE rows[i]]
  /\ contact' = Released(contact, w, "free") /\ dialog' = Released(dialog, w, "free")

FindContact(w) ==
  /\ At(w) = "contact"
  /\ Goto(w, IF contact = "row" THEN "dialog" ELSE "addContact")
  /\ UNCHANGED <<dbVars, again>>

FindDialog(w) ==
  /\ At(w) = "dialog"
  /\ Goto(w, IF dialog = "row" THEN "insert" ELSE "addDialog")
  /\ UNCHANGED <<dbVars, again>>

AddContact(w) ==
  /\ At(w) = "addContact" /\ contact = "free"
  /\ contact' = w /\ Goto(w, "dialog")
  /\ UNCHANGED <<dialog, rows, tasks, again>>

AddDialog(w) ==
  /\ At(w) = "addDialog" /\ dialog = "free"
  /\ dialog' = w /\ Goto(w, "insert")
  /\ UNCHANGED <<contact, rows, tasks, again>>

(* Mutant: the handler gives the message up.                               *)
ConflictLoses(w) ==
  /\ \/ At(w) = "addContact" /\ contact = "row"
     \/ At(w) = "addDialog" /\ dialog = "row"
  /\ RollBack(w) /\ Rest(w)
  /\ UNCHANGED <<tasks, again>>

(* IntegrityError.  The handler rolls back, takes the contact that is      *)
(* there, or both anew; _apply is tried as a whole once more.              *)
Conflict(w) ==
  /\ \/ At(w) = "addContact" /\ contact = "row"
     \/ At(w) = "addDialog" /\ dialog = "row"
  /\ RollBack(w)
  /\ IF w = "pump"
       THEN Goto(w, IF At(w) = "addContact" THEN "dialog" ELSE "contact") /\ UNCHANGED again
       ELSE again' = ~ again /\ IF again THEN Rest(w) ELSE Goto(w, "contact")
  /\ UNCHANGED tasks

Keys(w) ==
  /\ FindContact(w) \/ FindDialog(w) \/ AddContact(w) \/ AddDialog(w) \/ Conflict(w)
  /\ UNCHANGED <<clock, written, provVars, cmd, sender, histVars>>

-----------------------------------------------------------------------------
(* IncomingHandler: one message at a time.                                 *)

(* A message from the telephone goes into a dialog that exists or nowhere. *)
Handle ==
  /\ At("pump") = "idle" /\ incoming # <<>>
  /\ incoming' = Tail(incoming)
  /\ LET m == Head(incoming)
         at == IF FromClient(m) THEN "contact" ELSE IF dialog = "row" THEN "insert" ELSE "idle"
     IN  writer' = [writer EXCEPT !["pump"] = IF at = "idle" THEN Idle ELSE [at |-> at, id |-> m, row |-> 0]]
  /\ UNCHANGED <<clock, written, pushes, worker, known, up, dbVars, initVars, sender, histVars>>

(* _message_exists, in either direction.                                   *)
Exists(m) == \E i \in DOMAIN rows : IsRow(i) /\ rows[i].ext = m

Persist ==
  /\ At("pump") = "insert"
  /\ LET m == writer["pump"].id IN
       IF Exists(m)
         THEN Rest("pump") /\ Commit("pump") /\ UNCHANGED rows
         ELSE /\ rows' = Append(rows, Open(m))
              /\ writer' = [writer EXCEPT !["pump"].at = "commit", !["pump"].row = Len(rows) + 1]
              /\ UNCHANGED <<contact, dialog>>
  /\ UNCHANGED <<clock, written, provVars, tasks, initVars, sender, histVars>>

Persisted ==
  /\ At("pump") = "commit"
  /\ rows' = [rows EXCEPT ![writer["pump"].row].state = "row"] /\ Commit("pump")
  /\ Goto("pump", "enqueue")
  /\ UNCHANGED <<clock, written, provVars, tasks, initVars, sender, histVars>>

(* The task of the CRM has a transaction of its own; its failure is logged.*)
EnqueueTask ==
  /\ At("pump") = "enqueue"
  /\ LET t == writer["pump"] IN
       /\ \/ tasks' = tasks \union {t.row} /\ UNCHANGED histVars
          \/ Fault({t.id}) /\ UNCHANGED tasks
       /\ IF FromClient(t.id) THEN Goto("pump", "reply") ELSE Rest("pump")
  /\ UNCHANGED <<clock, written, provVars, contact, dialog, rows, initVars, sender>>

-----------------------------------------------------------------------------
(* AutoReplier.on_inbound for the row r.                                   *)

(* The last of these rows, 0: there is none.                               *)
LastRow(s) == IF s = {} THEN 0 ELSE CHOOSE i \in s : \A j \in s : j <= i

Visible        == {i \in DOMAIN rows : IsRow(i)}
LastAutoreply  == LastRow({i \in Visible : rows[i].auto})
PrevInbound(r) == LastRow({i \in Visible : rows[i].dir = "in" /\ i < r})
LastRealOut    == LastRow({i \in Visible : rows[i].dir = "out" /\ ~ rows[i].auto})
ManagerAnswered(r) == PrevInbound(r) # 0 /\ LastRealOut > PrevInbound(r)

(* Mutant: the window is a tick too short.                                 *)
RecentShort(ts) == LastAutoreply # 0 /\ ts + 1 < rows[LastAutoreply].ts + DedupTicks

(* Younger than the window; the age counts from the time of the message.   *)
Recent(ts) == LastAutoreply # 0 /\ ts < rows[LastAutoreply].ts + DedupTicks

(* pick_reply, both replies being on.                                      *)
Picked(r, ts) ==
  IF ts \notin WorkTicks THEN ~ ManagerAnswered(r) /\ ~ Recent(ts)
  ELSE PrevInbound(r) = 0

Autoreply ==
  /\ At("pump") = "reply" /\ Rest("pump")
  /\ LET t == writer["pump"] IN
       rows' = IF Picked(t.row, written[t.id].ts)
                 THEN Append(rows, Stored(0, TRUE, "pending")) ELSE rows
  /\ UNCHANGED <<clock, written, provVars, contact, dialog, tasks, initVars, sender, histVars>>

(* A database error: the message is logged and given up, its reply too.    *)
HandlerFails ==
  /\ At("pump") \notin {"idle", "enqueue"}
  /\ Fault(IF At("pump") = "reply" THEN {} ELSE {writer["pump"].id})
  /\ RollBack("pump") /\ Rest("pump")
  /\ UNCHANGED <<clock, written, provVars, tasks, initVars, sender>>

-----------------------------------------------------------------------------
(* Initiations, and messages from the panel.                               *)

(* initiate_dialog (the number is not being processed already).            *)
Initiate ==
  /\ cmd.status = "none" /\ clock < MaxClock
  /\ cmd' = [status |-> "pending", attempts |-> 0, ts |-> clock]
  /\ UNCHANGED <<clock, written, provVars, dbVars, writer, again, sender, histVars>>

Ready == cmd.status = "pending" /\ At("init") = "idle"

(* Mutant: it is put off for ever.                                         *)
OfflineTooLongNot == Ready /\ FALSE /\ UNCHANGED vars

(* Off line it is put off, until its deadline.                             *)
OfflineTooLong ==
  /\ Ready /\ ~ up /\ clock > cmd.ts
  /\ cmd' = [cmd EXCEPT !.status = "failed"]
  /\ UNCHANGED <<clock, written, provVars, dbVars, writer, again, sender, histVars>>

Resolve ==
  /\ Ready /\ up
  /\ Goto("init", "contact") /\ again' = FALSE
  /\ UNCHANGED <<clock, written, provVars, dbVars, cmd, sender, histVars>>

(* Not found, or hidden by the privacy settings.                           *)
NotFound ==
  /\ Ready /\ up
  /\ cmd' = [cmd EXCEPT !.status = "failed"]
  /\ UNCHANGED <<clock, written, provVars, dbVars, writer, again, sender, histVars>>

ResolveFails ==
  /\ Ready /\ up /\ Fault({})
  /\ cmd' = IF cmd.attempts + 1 >= MaxAttempts THEN [cmd EXCEPT !.status = "failed"]
            ELSE [cmd EXCEPT !.attempts = @ + 1]
  /\ UNCHANGED <<clock, written, provVars, dbVars, writer, again, sender>>

Linked ==
  /\ At("init") = "insert" /\ Rest("init")
  /\ rows' = Append(rows, Stored(0, FALSE, "pending")) /\ Commit("init")
  /\ cmd' = [cmd EXCEPT !.status = "linked"]
  /\ UNCHANGED <<clock, written, provVars, tasks, again, sender, histVars>>

ApplyFails ==
  /\ At("init") # "idle" /\ Fault({})
  /\ RollBack("init") /\ Rest("init")
  /\ UNCHANGED <<clock, written, provVars, tasks, initVars, sender>>

(* send_message, in a dialog that exists.                                  *)
PanelSends ==
  /\ dialog = "row" /\ Len(rows) < MaxWritten
  /\ rows' = Append(rows, Stored(0, FALSE, "pending"))
  /\ UNCHANGED <<clock, written, provVars, contact, dialog, tasks, writer, initVars, sender, histVars>>

-----------------------------------------------------------------------------
(* The outbox worker, as far as echoes are concerned (all of it: Outbox).  *)

Send ==
  /\ sender.at = "idle" /\ up /\ Write("us")
  /\ \E i \in DOMAIN rows :
       /\ IsRow(i) /\ rows[i].out = "pending"
       /\ \A j \in 1..i - 1 : ~ (IsRow(j) /\ rows[j].out = "pending")
       /\ sender' = [at |-> "asked", row |-> i, ext |-> Len(written) + 1]
  /\ UNCHANGED <<clock, worker, known, incoming, up, dbVars, writer, initVars, histVars>>

(* _send_result registers the id before anybody else runs.                 *)
Answer ==
  /\ sender.at = "asked"
  /\ known' = Remembered(sender.ext)
  /\ sender' = [sender EXCEPT !.at = "answered"]
  /\ UNCHANGED <<clock, written, pushes, worker, incoming, up, dbVars, writer, initVars, histVars>>

MarkSent ==
  /\ sender.at = "answered"
  /\ rows' = [rows EXCEPT ![sender.row].out = "sent", ![sender.row].ext = sender.ext]
  /\ sender' = Resting
  /\ UNCHANGED <<clock, written, provVars, contact, dialog, tasks, writer, initVars, histVars>>

(* The answer is lost, or its record: the message is sent again.           *)
AnswerLost ==
  /\ sender.at # "idle" /\ Fault({sender.ext})
  /\ sender' = Resting
  /\ UNCHANGED <<clock, written, provVars, dbVars, writer, initVars>>

-----------------------------------------------------------------------------
(* The bridge process dies.                                                *)

InFlight ==
  ({pushes[i] : i \in DOMAIN pushes} \union {incoming[i] : i \in DOMAIN incoming}
     \union {worker, writer["pump"].id, sender.ext}) \ {0}

Crash ==
  /\ Fault(InFlight)
  /\ pushes' = <<>> /\ worker' = 0 /\ known' = <<>> /\ incoming' = <<>>
  /\ rows' = [i \in DOMAIN rows |->
               IF ~ IsRow(i) THEN [rows[i] EXCEPT !.state = "void"] ELSE rows[i]]
  /\ contact' = IF contact = "row" THEN contact ELSE "free"
  /\ dialog' = IF dialog = "row" THEN dialog ELSE "free"
  /\ writer' = [w \in Writers |-> Idle]
  /\ sender' = Resting
  /\ UNCHANGED <<clock, written, up, tasks, initVars>>

-----------------------------------------------------------------------------
Provider == TakePush \/ GraceOver
Pump     == Keys("pump") \/ Handle \/ Persist \/ Persisted \/ EnqueueTask \/ Autoreply
Apply    == Keys("init") \/ Resolve \/ OfflineTooLong \/ Linked

Next ==
  \/ ClientOrPhoneWrites \/ Redeliver \/ Tick \/ LinkChanges
  \/ Provider \/ PushFails \/ Pump \/ HandlerFails
  \/ Initiate \/ Apply \/ NotFound \/ ResolveFails \/ ApplyFails
  \/ PanelSends \/ Send \/ Answer \/ MarkSent \/ AnswerLost \/ Crash

Spec == Init /\ [][Next]_vars

(* Every loop of the bridge goes on, every request is answered or times    *)
(* out, every transaction ends, and time passes.                           *)
FairSpec ==
  /\ Spec /\ WF_vars(Provider) /\ WF_vars(Pump) /\ WF_vars(Apply) /\ WF_vars(Answer)
  /\ WF_vars(Tick)

-----------------------------------------------------------------------------
(* Properties.                                                             *)

(* A message of the messenger has one row, whatever is delivered twice,    *)
(* sent by ourselves or written on the telephone: the echo set, its grace  *)
(* and the direction-blind look-up close every window but a lost answer.   *)
(* They leave one open without a fault: an answer slower than the grace.   *)
(* Then the message may have two rows, the one of the outbox and, after    *)
(* it, one of the echo, and never more.  The client's messages are stored  *)
(* in his order.                                                           *)
StoredOnceInOrder ==
  \A i, j \in DOMAIN rows :
    (i < j /\ rows[i].state # "void" /\ rows[j].state # "void"
       /\ rows[i].ext # 0 /\ rows[j].ext # 0 /\ {rows[i].ext, rows[j].ext} \cap hit = {})
      => /\ rows[i].ext = rows[j].ext =>
              rows[i].ext \in late /\ rows[i].out = "sent" /\ rows[j].out = "none"
         /\ (rows[i].dir = "in" /\ rows[j].dir = "in") => rows[i].ext < rows[j].ext

(* OFFHOURS_DEDUP_SEC, "at most one per dialog and window": automatic      *)
(* replies are that far apart.                                             *)
RepliesApart ==
  \A i, j \in DOMAIN rows :
    (i < j /\ IsRow(i) /\ IsRow(j) /\ rows[i].auto /\ rows[j].auto)
      => rows[j].ts >= rows[i].ts + DedupTicks

(* "Never lost": what the client writes gets a row and a task for the CRM, *)
(* unless an error of the channel or the database, or a crash, strikes     *)
(* that very message; races for the contact and the dialog do not count.   *)
ClientIsHeard ==
  \A m \in 1..MaxWritten :
    (m \in DOMAIN written /\ FromClient(m))
      ~> (m \in hit \/ \E i \in tasks : IsRow(i) /\ rows[i].ext = m)

(* A manager who writes first gets an answer: the message is in the queue, *)
(* once, or the command has failed.                                        *)
InitiationEnds == (cmd.status = "pending") ~> (cmd.status \in {"linked", "failed"})

=============================================================================
