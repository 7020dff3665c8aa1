-------------------------------- MODULE OpenLine --------------------------------
(***************************************************************************)
(* Open lines of Bitrix24: the slider that binds an account to a line      *)
(* (web/routes/placement.py), the webhook that takes what operators write  *)
(* (web/routes/openline.py), and the tasks of the CRM queue that carry     *)
(* messages into the chat of the line (bridge/crm_sync_worker.py).         *)
(*                                                                         *)
(* One dialog, of the account "ours"; another account may take the line.   *)
(* Requests of the slider and deliveries of the webhook overlap; the       *)
(* portal repeats an event until it is answered, and may repeat it after.  *)
(***************************************************************************)
EXTENDS Naturals, Sequences, FiniteSets

CONSTANTS
  Lines,          (* lines of the portal, positive numbers                 *)
  Savers,         (* requests of the slider that may overlap               *)
  Handlers,       (* deliveries of the webhook that may overlap, 1..n      *)
  Sizes,          (* how many messages an event carries                    *)
  Mirror,         (* ol_panel_mirror                                       *)
  MaxRows, MaxEvents,
  MaxUsed,        (* bound on requests, changes at the portal, repeated    *)
                  (* deliveries and faults together                        *)
  MaxAttempts     (* max_attempts                                          *)

ASSUME OpenLineAssumption ==
  /\ Lines \union Sizes \union Handlers \subseteq Nat \ {0} /\ Mirror \in BOOLEAN /\ MaxAttempts \in Nat \ {0}
  /\ {MaxRows, MaxEvents, MaxUsed} \subseteq Nat

VARIABLES
  line, active,   (* ol_line_id (0: none) and ol_active of the accounts    *)
  portal,         (* a line at the portal: active, off or deleted          *)
  news,           (* STATUSDELETE and LINEDELETE under way                 *)
  savers,         (* [at, acc, line, read, was]                            *)
  events,         (* MESSAGEADD events: [line, msgs, state]                *)
  handlers,       (* [at, event, pos, acc]                                 *)
  rows,           (* messages: [from, op, task, attempts, shown]           *)
  worker,         (* [row, line, active]: what collect has read            *)
  used            (* how often each of them happened                       *)

binding == <<line, active>>
vars == <<binding, portal, news, savers, events, handlers, rows, worker, used>>

Accounts == {"ours", "other"}
NoSave  == [at |-> "idle", acc |-> "ours", line |-> 0, read |-> 0, was |-> FALSE]
NoEvent == [at |-> "idle", event |-> 0, pos |-> 0, acc |-> "none"]
Idle    == [row |-> 0, line |-> 0, active |-> FALSE]

Init ==
  /\ \E l \in Lines : line = [ours |-> l, other |-> 0]
  /\ active = [ours |-> TRUE, other |-> FALSE]
  /\ portal = [l \in Lines |-> IF l = line.ours THEN "active" ELSE "off"]
  /\ news = {} /\ savers = [s \in Savers |-> NoSave]
  /\ events = <<>> /\ handlers = [h \in Handlers |-> NoEvent]
  /\ rows = <<>> /\ worker = Idle
  /\ used = [saves |-> 0, portal |-> 0, deliveries |-> 0, faults |-> 0]

Use(b) ==
  /\ used.saves + used.portal + used.deliveries + used.faults < MaxUsed
  /\ used' = [used EXCEPT ![b] = @ + 1]

-----------------------------------------------------------------------------
(* The slider.                                                             *)

(* The account and the conflict are read before the line is activated.     *)
Save(s, a, l) ==
  /\ Use("saves") /\ savers[s].at = "idle"
  /\ \A b \in Accounts \ {a} : line[b] # l
  /\ savers' = [savers EXCEPT ![s] = [at |-> "activate", acc |-> a, line |-> l,
                                      read |-> line[a], was |-> active[a]]]
  /\ UNCHANGED <<binding, portal, news, events, handlers, rows, worker>>

Activate(s) ==
  /\ savers[s].at = "activate"
  /\ IF portal[savers[s].line] = "deleted"
       THEN savers' = [savers EXCEPT ![s] = NoSave] /\ UNCHANGED portal
     ELSE /\ portal' = [portal EXCEPT ![savers[s].line] = "active"]
          /\ savers' = [savers EXCEPT ![s].at = "commit"]
  /\ UNCHANGED <<binding, news, events, handlers, rows, worker, used>>

(* The commit writes the columns that differ from what was read; a line    *)
(* bound meanwhile is a conflict of the unique key.                        *)
CommitSave(s) ==
  /\ savers[s].at = "commit"
  /\ LET v == savers[s]
         taken == v.read # v.line /\ \E b \in Accounts \ {v.acc} : line[b] = v.line
     IN IF taken THEN /\ savers' = [savers EXCEPT ![s].at = "deactivate"]
                      /\ UNCHANGED binding
        ELSE /\ line'   = IF v.read # v.line THEN [line EXCEPT ![v.acc] = v.line] ELSE line
             /\ active' = IF ~v.was THEN [active EXCEPT ![v.acc] = TRUE] ELSE active
             /\ savers' = [savers EXCEPT ![s] =
                  IF v.read \in {0, v.line} THEN NoSave
                  ELSE [v EXCEPT !.at = "deactivate", !.line = v.read]]
  /\ UNCHANGED <<portal, news, events, handlers, rows, worker, used>>

Unbind(s, l) ==
  /\ Use("saves") /\ savers[s].at = "idle"
  /\ line'   = [a \in Accounts |-> IF line[a] = l THEN 0 ELSE line[a]]
  /\ active' = [a \in Accounts |-> active[a] /\ line[a] # l]
  /\ savers' = [savers EXCEPT ![s] = [NoSave EXCEPT !.at = "deactivate", !.line = l]]
  /\ UNCHANGED <<portal, news, events, handlers, rows, worker>>

Deactivate(s) ==
  /\ savers[s].at = "deactivate"
  /\ portal' = [portal EXCEPT ![savers[s].line] = IF @ = "active" THEN "off" ELSE @]
  /\ savers' = [savers EXCEPT ![s] = NoSave]
  /\ UNCHANGED <<binding, news, events, handlers, rows, worker, used>>

(* A call fails, or the process dies in the request.                       *)
SaverFails(s) ==
  /\ Use("faults") /\ savers[s].at # "idle"
  /\ savers' = [savers EXCEPT ![s] = NoSave]
  /\ UNCHANGED <<binding, portal, news, events, handlers, rows, worker>>

Saver(s) ==
  \/ \E l \in Lines : Unbind(s, l) \/ \E a \in Accounts : Save(s, a, l)
  \/ Activate(s) \/ CommitSave(s) \/ Deactivate(s) \/ SaverFails(s)

-----------------------------------------------------------------------------
(* Lines switched off or deleted at the portal; the events come later.     *)

PortalChanges(l, state) ==
  /\ Use("portal") /\ portal[l] # "deleted"
  /\ portal' = [portal EXCEPT ![l] = state]
  /\ news' = news \union {[line |-> l, full |-> state = "deleted"]}
  /\ UNCHANGED <<binding, savers, events, handlers, rows, worker>>

(* Mutant: the line that was deleted keeps its account.                    *)
LineGoneKeeps(n) ==
  /\ n \in news /\ news' = news \ {n}
  /\ active' = [a \in Accounts |-> active[a] /\ line[a] # n.line]
  /\ UNCHANGED <<line, portal, savers, events, handlers, rows, worker, used>>

LineGone(n) ==
  /\ n \in news /\ news' = news \ {n}
  /\ active' = [a \in Accounts |-> active[a] /\ line[a] # n.line]
  /\ line' = IF n.full THEN [a \in Accounts |-> IF line[a] = n.line THEN 0 ELSE line[a]]
             ELSE line
  /\ UNCHANGED <<portal, savers, events, handlers, rows, worker, used>>

-----------------------------------------------------------------------------
(* The webhook.                                                            *)

Written == UNION {{e.msgs[k] : k \in DOMAIN e.msgs} : e \in {events[j] : j \in DOMAIN events}}

(* An event carries one or more messages of the operator.                  *)
OperatorWrites(l, n) ==
  /\ Len(events) < MaxEvents /\ portal[l] = "active"
  /\ events' = Append(events, [line |-> l, state |-> "open",
                               msgs |-> [k \in 1..n |-> Cardinality(Written) + k]])
  /\ UNCHANGED <<binding, portal, news, savers, handlers, rows, worker, used>>

Deliver(h, e) ==
  /\ handlers[h].at = "idle" /\ \A g \in Handlers : g < h => handlers[g].at # "idle"
  /\ IF events[e].state = "open" /\ \A g \in Handlers : handlers[g].event # e
       THEN UNCHANGED used ELSE Use("deliveries")
  /\ handlers' = [handlers EXCEPT ![h] = [at |-> "bound", event |-> e, pos |-> 1, acc |-> "none"]]
  /\ UNCHANGED <<binding, portal, news, savers, events, rows, worker>>

Answer(h, state) ==     (* 200: the portal need not repeat the event       *)
  /\ handlers' = [handlers EXCEPT ![h] = NoEvent]
  /\ events' = [events EXCEPT ![handlers[h].event].state = IF @ = "open" THEN state ELSE @]

FindAccount(h) ==
  /\ handlers[h].at = "bound"
  /\ LET bound == {a \in Accounts : line[a] = events[handlers[h].event].line /\ active[a]}
     IN IF bound = {} THEN Answer(h, "ignored")
        ELSE /\ \E a \in bound : handlers' = [handlers EXCEPT ![h].at = "read", ![h].acc = a]
             /\ UNCHANGED events
  /\ UNCHANGED <<binding, portal, news, savers, rows, worker, used>>

Current(h)   == events[handlers[h].event].msgs[handlers[h].pos]
Last(h)      == handlers[h].pos = Len(events[handlers[h].event].msgs)
Has(op)      == \E i \in DOMAIN rows : rows[i].op = op
NextMsg(h)   ==
  IF Last(h) THEN Answer(h, IF handlers[h].acc = "ours" THEN "stored" ELSE "ignored")
  ELSE /\ handlers' = [handlers EXCEPT ![h].at = "read", ![h].pos = @ + 1]
       /\ UNCHANGED events

(* Skipped: there is a row already, or the dialog is of another account.   *)
ReadMsg(h) ==
  /\ handlers[h].at \in {"read", "expired"}
  /\ IF Has(Current(h)) THEN NextMsg(h)
     ELSE IF handlers[h].at = "expired"      (* the account cannot be read: 500 *)
       THEN handlers' = [handlers EXCEPT ![h] = NoEvent] /\ UNCHANGED events
     ELSE IF handlers[h].acc # "ours" THEN NextMsg(h)
     ELSE handlers' = [handlers EXCEPT ![h].at = "insert"] /\ UNCHANGED events
  /\ UNCHANGED <<binding, portal, news, savers, rows, worker, used>>

Row(from, op) ==
  [from |-> from, op |-> op, task |-> "queued", attempts |-> 0, shown |-> <<>>]

(* Mutant: no unique index on the message of the operator.                 *)
InsertAny(h) ==
  /\ handlers[h].at = "insert"
  /\ rows' = Append(rows, Row("operator", Current(h))) /\ NextMsg(h)
  /\ UNCHANGED <<binding, portal, news, savers, worker, used>>

(* The row and the outbox item in one commit.  The rollback of a conflict  *)
(* expires the account: the rest of the event cannot use it.               *)
Insert(h) ==
  /\ handlers[h].at = "insert"
  /\ IF ~Has(Current(h))
       THEN rows' = Append(rows, Row("operator", Current(h))) /\ NextMsg(h)
     ELSE /\ IF Last(h) THEN Answer(h, "stored")
             ELSE /\ handlers' = [handlers EXCEPT ![h].at = "expired", ![h].pos = @ + 1]
                  /\ UNCHANGED events
          /\ UNCHANGED rows
  /\ UNCHANGED <<binding, portal, news, savers, worker, used>>

HandlerFails(h) ==      (* the database fails, or the process dies         *)
  /\ Use("faults") /\ handlers[h].at # "idle"
  /\ handlers' = [handlers EXCEPT ![h] = NoEvent]
  /\ UNCHANGED <<binding, portal, news, savers, events, rows, worker>>

Handler(h) == FindAccount(h) \/ ReadMsg(h) \/ Insert(h)

-----------------------------------------------------------------------------
(* Messages of the client and the panel.  The task of a message that goes   *)
(* out is there from the start: the outbox enqueues it when it is sent, and *)
(* the worker may take it as late.                                          *)

Room == Cardinality({i \in DOMAIN rows : rows[i].op = 0}) < MaxRows

ClientWrites ==
  /\ Room /\ rows' = Append(rows, Row("client", 0))
  /\ UNCHANGED <<binding, portal, news, savers, events, handlers, worker, used>>

PanelSends ==
  /\ Room /\ rows' = Append(rows, Row("panel", 0))
  /\ UNCHANGED <<binding, portal, news, savers, events, handlers, worker, used>>

-----------------------------------------------------------------------------
(* The worker of the CRM queue.                                            *)

Message(i) == IF rows[i].from = "client" THEN "message" ELSE "mirror"
Settled(r) == [r EXCEPT !.task = "done"]
Shown(r, as) == [r EXCEPT !.shown = Append(@, as)]

FailOrRetry(r) ==       (* _fail_or_retry                                  *)
  [r EXCEPT !.attempts = @ + 1,
            !.task = IF r.attempts + 1 >= MaxAttempts THEN "failed" ELSE @]

(* Mutant: a task that waits for the line loses an attempt.                *)
WaitsCounting(r) == FailOrRetry(r)

(* Off line: the task is put off, its attempts are not spent.              *)
Waits(r) == r

Take(i) ==
  /\ worker = Idle /\ rows[i].task = "queued"
  /\ worker' = [row |-> i, line |-> line.ours, active |-> active.ours]
  /\ UNCHANGED <<binding, portal, news, savers, events, handlers, rows, used>>

(* Mutant: what the operator wrote comes back into his chat.               *)
AsPlain(i) == IF worker.line = 0 THEN "card" ELSE Message(i)

As(i) ==
  IF worker.line = 0 THEN "card"
  ELSE IF rows[i].op # 0 THEN "delivery"
  ELSE Message(i)

(* The task needs no call, or must wait before it.                         *)
Skips(i) == As(i) = "mirror" /\ worker.active /\ ~Mirror
Held(i)  == As(i) \in {"message", "mirror"} /\ ~worker.active
Works(i) == worker.line = 0 \/ portal[worker.line] = "active"

Send ==
  /\ worker.row # 0
  /\ LET i == worker.row
         r == rows[i]
     IN rows' = [rows EXCEPT ![i] =
          IF Held(i) THEN Waits(r)
          ELSE IF Skips(i) THEN Settled(r)
          ELSE IF Works(i) THEN Settled(Shown(r, As(i)))
          ELSE IF portal[worker.line] = "deleted" THEN FailOrRetry(r)
          ELSE IF As(i) = "message" THEN Waits(r)     (* NOT_ACTIVE_LINE   *)
          ELSE Settled(r)]
  /\ worker' = Idle
  /\ UNCHANGED <<binding, portal, news, savers, events, handlers, used>>

(* The call fails, or its answer or the commit after it is lost.           *)
SendFails ==
  /\ Use("faults") /\ worker.row # 0
  /\ LET i == worker.row
     IN /\ ~Held(i) /\ ~Skips(i)
        /\ \E r \in {rows[i], IF Works(i) THEN Shown(rows[i], As(i)) ELSE rows[i]} :
             rows' \in {[rows EXCEPT ![i] = r], [rows EXCEPT ![i] = FailOrRetry(r)]}
  /\ worker' = Idle
  /\ UNCHANGED <<binding, portal, news, savers, events, handlers>>

Worker == Send \/ \E i \in DOMAIN rows : Take(i)

-----------------------------------------------------------------------------

Next ==
  \/ \E s \in Savers : Saver(s)
  \/ \E l \in Lines :
       \/ \E state \in {"off", "deleted"} : PortalChanges(l, state)
       \/ \E n \in Sizes : OperatorWrites(l, n)
  \/ \E n \in news : LineGone(n)
  \/ \E h \in Handlers :
       \/ \E e \in DOMAIN events : Deliver(h, e)
       \/ Handler(h) \/ HandlerFails(h)
  \/ ClientWrites \/ PanelSends
  \/ Worker \/ SendFails

Spec == Init /\ [][Next]_vars

(* The events of lines are delivered, requests of the slider end; a task   *)
(* that waits is put off and so does not keep the worker from the others   *)
(* (fetch_due takes them by next_retry_at).                                *)
FairSpec ==
  /\ Spec
  /\ \A s \in Savers : WF_vars(Activate(s) \/ CommitSave(s) \/ Deactivate(s))
  /\ WF_vars(\E n \in news : LineGone(n))
  /\ WF_vars(Send)
  /\ SF_vars(\E i \in DOMAIN rows : (line.ours = 0 \/ active.ours) /\ Take(i))

-----------------------------------------------------------------------------
(* Properties.                                                             *)

(* "Дубль события = дубль отправки клиенту", and "не терять сообщения"     *)
(* (openline.py:5, 15): a message of the operator goes to the client once, *)
(* whatever is delivered twice or fails, and an event answered as stored   *)
(* has left every message of it.                                           *)
OperatorOnce ==
  /\ \A i, j \in DOMAIN rows : rows[i].op # 0 /\ rows[i].op = rows[j].op => i = j
  /\ \A e \in DOMAIN events : events[e].state = "stored" =>
       \A k \in DOMAIN events[e].msgs : Has(events[e].msgs[k])

(* The chat of the line and the card take turns: a message is shown in one *)
(* of them and once, one too many costs a fault; the operator never reads  *)
(* himself as the client.                                                  *)
ShownOnce ==
  \A i \in DOMAIN rows :
    /\ Len(rows[i].shown) <= 1 + used.faults
    /\ \A k \in DOMAIN rows[i].shown : rows[i].op # 0 => rows[i].shown[k] \in {"delivery", "card"}

(* "Попытки не сжигаем": a task fails only by faults, or by a line that    *)
(* was deleted, never by waiting.                                          *)
WaitingIsFree ==
  \A i \in DOMAIN rows :
    rows[i].task = "failed" => used.faults >= MaxAttempts \/ \E l \in Lines : portal[l] = "deleted"

(* "LINEDELETE почистит привязку - очередь вернётся к классическому        *)
(* CRM-синку": lines deleted while the slider is at rest release every     *)
(* task, whatever came before and comes late.                              *)
DeletedLineReleases ==
  /\ \A l \in Lines : portal[l] = "deleted"
  /\ \A s \in Savers : savers[s].at = "idle"
  /\ \A a \in Accounts : line[a] # 0 => [line |-> line[a], full |-> TRUE] \in news
  ~> \A i \in DOMAIN rows : rows[i].task # "queued"

-----------------------------------------------------------------------------
(* The inductive invariant behind the safety properties.                   *)

IsSequence(s) == Len(s) \in Nat /\ s = [i \in 1..Len(s) |-> s[i]]

LineOrNone == Lines \union {0}
SaverAt    == {"idle", "activate", "commit", "deactivate"}
HandlerAt  == {"idle", "bound", "read", "expired", "insert"}

BindingTypes ==
  /\ line \in [Accounts -> LineOrNone] /\ active \in [Accounts -> BOOLEAN]
  /\ portal \in [Lines -> {"active", "off", "deleted"}]
  /\ savers \in [Savers -> [at : SaverAt, acc : Accounts, line : LineOrNone,
                            read : LineOrNone, was : BOOLEAN]]
  /\ \A s \in Savers : savers[s].at # "idle" => savers[s].line \in Lines
  /\ worker.line \in LineOrNone
  /\ used \in [saves : Nat, portal : Nat, deliveries : Nat, faults : Nat]

(* An event carries a message; a delivery stands at one of its messages,   *)
(* and one for our account has left all before it.                         *)
EventShape ==
  \A e \in 1..Len(events) :
    /\ events[e] \in [line : Lines, state : {"open", "ignored", "stored"}, msgs : {events[e].msgs}]
    /\ Len(events[e].msgs) \in Nat \ {0} /\ DOMAIN events[e].msgs = 1..Len(events[e].msgs)
HandlerCovers(h) ==
  handlers[h].at # "idle" =>
    /\ handlers[h].event \in 1..Len(events)
    /\ handlers[h].pos \in 1..Len(events[handlers[h].event].msgs)
    /\ handlers[h].at = "bound" => handlers[h].pos = 1
    /\ handlers[h].at \in {"insert", "expired"} => handlers[h].acc = "ours"
    /\ handlers[h].acc = "ours" =>
         \A k \in 1..(handlers[h].pos - 1) : Has(events[handlers[h].event].msgs[k])
DeliveriesCover ==
  /\ IsSequence(events)
  /\ EventShape
  /\ handlers \in [Handlers -> [at : HandlerAt, event : Nat, pos : Nat, acc : Accounts \union {"none"}]]
  /\ \A h \in Handlers : HandlerCovers(h)

(* Only the worker's task may be half done, and it is queued: what it      *)
(* shows and the attempts it spends on the way are faults.                 *)
RowShape(r) ==
  r \in [from : {"client", "panel", "operator"}, op : {r.op}, task : {"queued", "done", "failed"},
         attempts : Nat, shown : Seq({"card", "delivery", "message", "mirror"})]
TasksCounted ==
  /\ IsSequence(rows)
  /\ \A i \in 1..Len(rows) :
       /\ RowShape(rows[i])
       /\ rows[i].task = "queued" => Len(rows[i].shown) <= used.faults
       /\ rows[i].task = "failed" => rows[i].attempts >= MaxAttempts
       /\ rows[i].attempts > used.faults => \E l \in Lines : portal[l] = "deleted"
  /\ worker.row # 0 => worker.row \in 1..Len(rows) /\ rows[worker.row].task = "queued"

OpenLineInv == BindingTypes /\ DeliveriesCover /\ TasksCounted /\ OperatorOnce /\ ShownOnce
=============================================================================
