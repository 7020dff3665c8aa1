--------------------------- MODULE OpenLineProofs ---------------------------
(***************************************************************************)
(* Proofs about OpenLine, for any number of lines, overlapping requests of *)
(* the slider, overlapping deliveries, messages per event and faults.      *)
(***************************************************************************)
EXTENDS OpenLine, SequenceTheorems, TLAPS

Budget == {"saves", "portal", "deliveries", "faults"}
Gone(l) == portal[l] = "deleted"

LEMMA UseCounts ==
  ASSUME OpenLineInv, NEW b \in Budget, Use(b)
  PROVE  /\ used' \in [saves : Nat, portal : Nat, deliveries : Nat, faults : Nat]
         /\ used'.faults \in Nat /\ used.faults \in Nat /\ used.faults <= used'.faults
         /\ b = "faults" => used'.faults = used.faults + 1
<1>1. used \in [saves : Nat, portal : Nat, deliveries : Nat, faults : Nat]
  BY DEF OpenLineInv, BindingTypes
<1>2. used' = [used EXCEPT ![b] = @ + 1]
  BY DEF Use
<1>3. QED
  BY <1>1, <1>2 DEF Budget

-----------------------------------------------------------------------------
(* Rows keep their message; tasks that are left alone stay counted.        *)

OpsKept ==
  /\ DOMAIN rows' = 1..Len(rows') /\ Len(rows') \in Nat
  /\ \A i \in 1..Len(rows) : i \in 1..Len(rows') /\ rows'[i].op = rows[i].op

LEMMA Sequence ==
  ASSUME NEW s, IsSequence(s)
  PROVE  DOMAIN s = 1..Len(s) /\ Len(s) \in Nat /\ s \in Seq({s[i] : i \in 1..Len(s)})
BY DEF IsSequence

LEMMA IsASequence ==
  ASSUME NEW S, NEW s \in Seq(S)
  PROVE  IsSequence(s)
BY DEF IsSequence

LEMMA AppendSequence ==
  ASSUME NEW s, IsSequence(s), NEW x
  PROVE  /\ IsSequence(Append(s, x)) /\ Len(Append(s, x)) = Len(s) + 1
         /\ Append(s, x)[Len(s) + 1] = x
         /\ \A i \in 1..Len(s) : Append(s, x)[i] = s[i]
<1> DEFINE S == {s[i] : i \in 1..Len(s)} \union {x}
<1>1. s \in [1..Len(s) -> S] /\ Len(s) \in Nat
  BY DEF IsSequence
<1>2. s \in Seq(S)
  BY <1>1
<1>3. Append(s, x) \in Seq(S)
  BY <1>2
<1>4. IsSequence(Append(s, x))
  BY <1>3, IsASequence
<1>5. x \in S
  OBVIOUS
<1> HIDE DEF S
<1>6. QED
  BY <1>2, <1>4, <1>5, AppendProperties

LEMMA ExceptSequence ==
  ASSUME NEW s, IsSequence(s), NEW i \in 1..Len(s), NEW x
  PROVE  /\ IsSequence([s EXCEPT ![i] = x]) /\ Len([s EXCEPT ![i] = x]) = Len(s)
         /\ [s EXCEPT ![i] = x][i] = x
         /\ \A j \in 1..Len(s) \ {i} : [s EXCEPT ![i] = x][j] = s[j]
<1> DEFINE S == {s[j] : j \in 1..Len(s)} \union {x}
           t == [s EXCEPT ![i] = x]
<1>1. s \in [1..Len(s) -> S] /\ Len(s) \in Nat
  BY DEF IsSequence
<1>2. t \in [1..Len(s) -> S] /\ t[i] = x /\ \A j \in 1..Len(s) \ {i} : t[j] = s[j]
  BY <1>1
<1> HIDE DEF t
<1>3. t \in Seq(S) /\ Len(t) = Len(s)
  BY <1>1, <1>2
<1>4. IsSequence(t)
  BY <1>3, IsASequence
<1>5. QED
  BY <1>2, <1>3, <1>4 DEF t

LEMMA SameRowsOps == ASSUME OpenLineInv, rows' = rows PROVE OpsKept
BY Sequence DEF OpsKept, OpenLineInv, TasksCounted

LEMMA HasStays ==
  ASSUME OpenLineInv, OpsKept, NEW m, Has(m)
  PROVE  Has(m)'
BY Sequence DEF Has, OpsKept, OpenLineInv, TasksCounted

LEMMA TasksStay ==
  ASSUME OpenLineInv, UNCHANGED <<rows, worker>>,
         used'.faults \in Nat, used.faults <= used'.faults,
         \A l \in Lines : Gone(l) => Gone(l)'
  PROVE  TasksCounted' /\ ShownOnce'
<1>1. used.faults \in Nat
  BY DEF OpenLineInv, BindingTypes
<1>2. ASSUME NEW i \in 1..Len(rows)
      PROVE  /\ RowShape(rows[i])
             /\ rows[i].attempts \in Nat /\ Len(rows[i].shown) \in Nat
             /\ rows[i].task = "queued" => Len(rows[i].shown) <= used.faults
             /\ Len(rows[i].shown) <= 1 + used.faults
             /\ rows[i].task = "failed" => rows[i].attempts >= MaxAttempts
             /\ rows[i].attempts > used.faults => \E l \in Lines : portal[l] = "deleted"
  BY DEF OpenLineInv, TasksCounted, RowShape, ShownOnce
<1>3. TasksCounted'
  <2>1. ASSUME NEW i \in 1..Len(rows)
        PROVE  /\ RowShape(rows[i])
               /\ rows[i].task = "queued" => Len(rows[i].shown) <= used'.faults
               /\ rows[i].task = "failed" => rows[i].attempts >= MaxAttempts
               /\ rows[i].attempts > used'.faults => \E l \in Lines : portal'[l] = "deleted"
    <3>1. rows[i].attempts > used'.faults => rows[i].attempts > used.faults
      BY <1>1, <1>2
    <3>2. rows[i].task = "queued" => Len(rows[i].shown) <= used'.faults
      BY <1>1, <1>2
    <3>3. QED
      BY <1>2, <3>1, <3>2 DEF Gone
  <2>2. QED
    BY <2>1 DEF OpenLineInv, TasksCounted, RowShape
<1>4. ShownOnce'
  <2>1. \A i \in DOMAIN rows : Len(rows[i].shown) <= 1 + used'.faults
    BY <1>1, <1>2, Sequence DEF OpenLineInv, TasksCounted
  <2>2. QED
    BY <2>1 DEF OpenLineInv, ShownOnce
<1>5. QED
  BY <1>3, <1>4

(* A new row: no attempt is spent, nothing is shown.                       *)
LEMMA RowAppended ==
  ASSUME OpenLineInv, NEW from \in {"client", "panel", "operator"}, NEW op,
         rows' = Append(rows, Row(from, op)), UNCHANGED <<worker, used, portal>>
  PROVE  /\ TasksCounted' /\ ShownOnce' /\ OpsKept
         /\ DOMAIN rows = 1..Len(rows) /\ Len(rows) \in Nat
         /\ Len(rows') = Len(rows) + 1
         /\ rows'[Len(rows) + 1].op = op
<1> DEFINE r == Row(from, op)
<1>1. DOMAIN rows = 1..Len(rows) /\ Len(rows) \in Nat /\ IsSequence(rows)
  BY Sequence DEF OpenLineInv, TasksCounted
<1>2. RowShape(r) /\ r.op = op /\ r.task = "queued" /\ r.attempts = 0 /\ r.shown = <<>>
  BY DEF Row, RowShape
<1> HIDE DEF r
<1>3. /\ IsSequence(rows') /\ Len(rows') = Len(rows) + 1 /\ DOMAIN rows' = 1..Len(rows') /\ Len(rows') \in Nat
      /\ rows'[Len(rows) + 1] = r
      /\ \A i \in 1..Len(rows) : rows'[i] = rows[i]
  BY <1>1, AppendSequence, Sequence DEF r
<1>4. \A i \in 1..Len(rows') : (i \in 1..Len(rows) /\ rows'[i] = rows[i]) \/ rows'[i] = r
  BY <1>1, <1>3
<1>5. used.faults \in Nat
  BY DEF OpenLineInv, BindingTypes
<1>6. /\ RowShape(r)
      /\ Len(r.shown) = 0 /\ 0 <= used.faults /\ 0 <= 1 + used.faults /\ ~(r.attempts > used.faults)
      /\ DOMAIN r.shown = {}
  BY <1>2, <1>5
<1>7. TasksCounted'
  <2>1. \A i \in 1..Len(rows') :
          /\ RowShape(rows'[i])
          /\ rows'[i].task = "queued" => Len(rows'[i].shown) <= used.faults
          /\ rows'[i].task = "failed" => rows'[i].attempts >= MaxAttempts
          /\ rows'[i].attempts > used.faults => \E l \in Lines : portal[l] = "deleted"
    BY <1>2, <1>4, <1>6 DEF OpenLineInv, TasksCounted
  <2>2. worker.row # 0 => worker.row \in 1..Len(rows') /\ rows'[worker.row].task = "queued"
    BY <1>1, <1>3 DEF OpenLineInv, TasksCounted
  <2>3. QED
    BY <1>3, <2>1, <2>2 DEF TasksCounted, RowShape
<1>8. ShownOnce'
  <2>1. \A i \in 1..Len(rows') :
          /\ Len(rows'[i].shown) <= 1 + used.faults
          /\ \A k \in DOMAIN rows'[i].shown : rows'[i].op # 0 => rows'[i].shown[k] \in {"delivery", "card"}
    BY <1>1, <1>4, <1>6 DEF OpenLineInv, ShownOnce
  <2>2. QED
    BY <1>3, <2>1 DEF ShownOnce
<1>9. OpsKept
  BY <1>1, <1>3 DEF OpsKept
<1>10. QED
  BY <1>1, <1>2, <1>3, <1>7, <1>8, <1>9

-----------------------------------------------------------------------------
(* Deliveries whose part of the state is left alone still cover.           *)

MsgsKept ==
  /\ DOMAIN events' = 1..Len(events') /\ Len(events') \in Nat
  /\ \A e \in 1..Len(events) : e \in 1..Len(events') /\ events'[e].msgs = events[e].msgs

LEMMA DeliveryStays ==
  ASSUME OpenLineInv, OpsKept, MsgsKept, NEW g \in Handlers, handlers'[g] = handlers[g]
  PROVE  HandlerCovers(g)'
<1>1. HandlerCovers(g)
  BY DEF OpenLineInv, DeliveriesCover
<1>2. \A m : Has(m) => Has(m)'
  BY HasStays
<1>3. SUFFICES ASSUME handlers[g].at # "idle"
               PROVE  HandlerCovers(g)'
  BY DEF HandlerCovers
<1>4. events'[handlers[g].event].msgs = events[handlers[g].event].msgs
  BY <1>1, <1>3 DEF HandlerCovers, MsgsKept
<1>5. handlers[g].event \in 1..Len(events')
  BY <1>1, <1>3 DEF HandlerCovers, MsgsKept
<1>6. handlers[g].acc = "ours" =>
         \A k \in 1..(handlers[g].pos - 1) : Has(events[handlers[g].event].msgs[k])'
  <2>1. ASSUME handlers[g].acc = "ours", NEW k \in 1..(handlers[g].pos - 1)
        PROVE  Has(events[handlers[g].event].msgs[k])'
    <3>1. PICK m : m = events[handlers[g].event].msgs[k]
      OBVIOUS
    <3>2. Has(m)'
      BY <1>1, <1>2, <1>3, <2>1, <3>1 DEF HandlerCovers
    <3>3. events'[handlers'[g].event].msgs[k] = m
      BY <1>4, <3>1
    <3>4. QED
      BY <3>2, <3>3 DEF Has
  <2>2. QED
    BY <2>1
<1>7. QED
  BY <1>1, <1>3, <1>4, <1>5, <1>6 DEF HandlerCovers

-----------------------------------------------------------------------------
(* The second half of OperatorOnce: an event answered as stored has left   *)
(* all its messages.                                                       *)
OpsApart == \A i, j \in DOMAIN rows : rows[i].op # 0 /\ rows[i].op = rows[j].op => i = j
Complete(e) == events[e].state = "stored" => \A k \in DOMAIN events[e].msgs : Has(events[e].msgs[k])

LEMMA OperatorOnceParts ==
  OperatorOnce <=> OpsApart /\ \A e \in DOMAIN events : Complete(e)
BY DEF OperatorOnce, OpsApart, Complete

(* Steps that write neither events nor deliveries.                         *)
LEMMA WebhookRests ==
  ASSUME OpenLineInv, OpsKept, UNCHANGED <<events, handlers>>
  PROVE  DeliveriesCover' /\ \A e \in DOMAIN events' : Complete(e)'
<1>1. IsSequence(events) /\ DOMAIN events = 1..Len(events) /\ Len(events) \in Nat
  BY Sequence DEF OpenLineInv, DeliveriesCover
<1>2. MsgsKept
  BY <1>1 DEF MsgsKept
<1>3. \A g \in Handlers : HandlerCovers(g)'
  BY <1>2, DeliveryStays
<1>4. DeliveriesCover'
  BY <1>3 DEF OpenLineInv, DeliveriesCover, EventShape
<1>5. ASSUME NEW e \in DOMAIN events, events[e].state = "stored", NEW k \in DOMAIN events[e].msgs
      PROVE  Has(events[e].msgs[k])'
  <2>1. PICK m : m = events[e].msgs[k]
    OBVIOUS
  <2>2. Has(m)
    BY <1>5, <2>1, OperatorOnceParts DEF OpenLineInv, Complete
  <2>3. Has(m)'
    BY <2>2, HasStays
  <2>4. QED
    BY <2>1, <2>3 DEF Has
<1>6. QED
  BY <1>4, <1>5 DEF Complete

(* A delivery moves on while the events keep their state, or ends and      *)
(* gives its event a state; "stored" only when all messages have rows.     *)
LEMMA DeliveryMoves ==
  ASSUME OpenLineInv, OpsKept, NEW h \in Handlers,
         NEW v \in [at : HandlerAt, event : Nat, pos : Nat, acc : Accounts \union {"none"}],
         handlers' = [handlers EXCEPT ![h] = v],
         events' = events, HandlerCovers(h)'
  PROVE  DeliveriesCover' /\ \A e \in DOMAIN events' : Complete(e)'
<1>1. IsSequence(events) /\ DOMAIN events = 1..Len(events) /\ Len(events) \in Nat
  BY Sequence DEF OpenLineInv, DeliveriesCover
<1>2. MsgsKept
  BY <1>1 DEF MsgsKept
<1>3. handlers \in [Handlers -> [at : HandlerAt, event : Nat, pos : Nat, acc : Accounts \union {"none"}]]
  BY DEF OpenLineInv, DeliveriesCover
<1>4. ASSUME NEW g \in Handlers PROVE HandlerCovers(g)'
  <2>1. CASE g = h
    BY <2>1
  <2>2. CASE g # h
    BY <1>2, <1>3, <2>2, DeliveryStays
  <2>3. QED
    BY <2>1, <2>2
<1>5. handlers' \in [Handlers -> [at : HandlerAt, event : Nat, pos : Nat, acc : Accounts \union {"none"}]]
  BY <1>3
<1>6. DeliveriesCover'
  BY <1>4, <1>5 DEF OpenLineInv, DeliveriesCover, EventShape
<1>7. ASSUME NEW e \in DOMAIN events, events[e].state = "stored", NEW k \in DOMAIN events[e].msgs
      PROVE  Has(events[e].msgs[k])'
  <2>1. PICK m : m = events[e].msgs[k]
    OBVIOUS
  <2>2. Has(m)
    BY <1>7, <2>1, OperatorOnceParts DEF OpenLineInv, Complete
  <2>3. Has(m)'
    BY <2>2, HasStays
  <2>4. QED
    BY <2>1, <2>3 DEF Has
<1>8. QED
  BY <1>6, <1>7 DEF Complete

LEMMA DeliveryAnswers ==
  ASSUME OpenLineInv, OpsKept, NEW h \in Handlers, handlers[h].at # "idle",
         NEW state \in {"ignored", "stored"}, Answer(h, state),
         state = "stored" =>
           \A m : (\E k \in DOMAIN events[handlers[h].event].msgs : m = events[handlers[h].event].msgs[k]) => Has(m)'
  PROVE  DeliveriesCover' /\ \A e \in DOMAIN events' : Complete(e)'
<1> DEFINE d == handlers[h].event
           r == [events[d] EXCEPT !.state = IF @ = "open" THEN state ELSE @]
<1>1. IsSequence(events) /\ DOMAIN events = 1..Len(events) /\ Len(events) \in Nat /\ d \in 1..Len(events)
  BY Sequence DEF OpenLineInv, DeliveriesCover, HandlerCovers
<1>2. events[d] \in [line : Lines, state : {"open", "ignored", "stored"}, msgs : {events[d].msgs}]
  BY <1>1 DEF OpenLineInv, DeliveriesCover, EventShape
<1>3. /\ r \in [line : Lines, state : {"open", "ignored", "stored"}, msgs : {events[d].msgs}]
      /\ r.msgs = events[d].msgs
      /\ r.state = "stored" => state = "stored" \/ events[d].state = "stored"
  BY <1>2
<1>4. events' = [events EXCEPT ![d] = r]
  BY DEF Answer
<1> HIDE DEF r, d
<1>5. /\ IsSequence(events') /\ Len(events') = Len(events)
      /\ events'[d] = r /\ \A j \in 1..Len(events) \ {d} : events'[j] = events[j]
  <2>1. /\ IsSequence([events EXCEPT ![d] = r]) /\ Len([events EXCEPT ![d] = r]) = Len(events)
        /\ [events EXCEPT ![d] = r][d] = r
        /\ \A j \in 1..Len(events) \ {d} : [events EXCEPT ![d] = r][j] = events[j]
    BY <1>1, ExceptSequence
  <2>2. QED
    BY <1>4, <2>1
<1>6. DOMAIN events' = 1..Len(events) /\ \A j \in 1..Len(events) : events'[j].msgs = events[j].msgs
  BY <1>3, <1>5, Sequence
<1>7. MsgsKept
  BY <1>1, <1>5, <1>6 DEF MsgsKept
<1>8. /\ handlers \in [Handlers -> [at : HandlerAt, event : Nat, pos : Nat, acc : Accounts \union {"none"}]]
      /\ handlers' = [handlers EXCEPT ![h] = NoEvent]
      /\ NoEvent \in [at : HandlerAt, event : Nat, pos : Nat, acc : Accounts \union {"none"}]
      /\ NoEvent.at = "idle"
  BY DEF OpenLineInv, DeliveriesCover, Answer, NoEvent, HandlerAt
<1>9. ASSUME NEW g \in Handlers PROVE HandlerCovers(g)'
  <2>1. CASE g = h
    BY <1>8, <2>1 DEF HandlerCovers
  <2>2. CASE g # h
    BY <1>7, <1>8, <2>2, DeliveryStays
  <2>3. QED
    BY <2>1, <2>2
<1>10. EventShape'
  <2>1. ASSUME NEW e \in 1..Len(events)
        PROVE  /\ events'[e] \in [line : Lines, state : {"open", "ignored", "stored"}, msgs : {events'[e].msgs}]
               /\ Len(events'[e].msgs) \in Nat \ {0} /\ DOMAIN events'[e].msgs = 1..Len(events'[e].msgs)
    BY <1>3, <1>5, <1>6 DEF OpenLineInv, DeliveriesCover, EventShape
  <2>2. QED
    BY <1>5, <2>1 DEF EventShape
<1>11. handlers' \in [Handlers -> [at : HandlerAt, event : Nat, pos : Nat, acc : Accounts \union {"none"}]]
  BY <1>8
<1>12. DeliveriesCover'
  BY <1>5, <1>9, <1>10, <1>11 DEF DeliveriesCover
<1>13. ASSUME NEW e \in 1..Len(events), events'[e].state = "stored", NEW k \in DOMAIN events'[e].msgs
       PROVE  Has(events[e].msgs[k])'
  <2>1. PICK m : m = events[e].msgs[k]
    OBVIOUS
  <2>2. m = events'[e].msgs[k] /\ k \in DOMAIN events[e].msgs
    BY <1>6, <1>13, <2>1
  <2>3. CASE events[e].state = "stored"
    <3>1. Has(m)
      BY <1>1, <2>1, <2>2, <2>3, OperatorOnceParts DEF OpenLineInv, Complete
    <3>2. Has(m)'
      BY <3>1, HasStays
    <3>3. QED
      BY <2>2, <3>2 DEF Has
  <2>4. CASE events[e].state # "stored"
    <3>1. e = d /\ state = "stored"
      BY <1>3, <1>5, <1>13, <2>4
    <3>2. Has(m)'
      BY <2>1, <2>2, <3>1 DEF d
    <3>3. QED
      BY <2>2, <3>2 DEF Has
  <2>5. QED
    BY <2>3, <2>4
<1>14. QED
  BY <1>6, <1>12, <1>13 DEF Complete

-----------------------------------------------------------------------------
(* The steps of a delivery.                                                *)

HandlerRecord == [at : HandlerAt, event : Nat, pos : Nat, acc : Accounts \union {"none"}]

LEMMA DeliveryFacts ==
  ASSUME OpenLineInv, NEW h \in Handlers, handlers[h].at # "idle"
  PROVE  /\ handlers \in [Handlers -> HandlerRecord] /\ handlers[h] \in HandlerRecord
         /\ handlers[h].pos \in Nat \ {0}
         /\ HandlerCovers(h) /\ handlers[h].event \in 1..Len(events) /\ handlers[h].event \in DOMAIN events
         /\ Len(events[handlers[h].event].msgs) \in Nat
         /\ handlers[h].pos \in 1..Len(events[handlers[h].event].msgs)
         /\ DOMAIN events[handlers[h].event].msgs = 1..Len(events[handlers[h].event].msgs)
<1>1. handlers \in [Handlers -> HandlerRecord] /\ HandlerCovers(h)
  BY DEF OpenLineInv, DeliveriesCover, HandlerRecord
<1>2. /\ handlers[h].event \in 1..Len(events)
      /\ handlers[h].pos \in 1..Len(events[handlers[h].event].msgs)
  BY <1>1 DEF HandlerCovers
<1>3. /\ Len(events[handlers[h].event].msgs) \in Nat
      /\ DOMAIN events[handlers[h].event].msgs = 1..Len(events[handlers[h].event].msgs)
  BY <1>2 DEF OpenLineInv, DeliveriesCover, EventShape
<1>4. DOMAIN events = 1..Len(events)
  BY Sequence DEF OpenLineInv, DeliveriesCover
<1>5. handlers[h].pos \in Nat \ {0}
  BY <1>2, <1>3
<1>6. QED
  BY <1>1, <1>2, <1>3, <1>4, <1>5

(* The delivery stops: it is idle.                                         *)
LEMMA DeliveryStops ==
  ASSUME OpenLineInv, OpsKept, NEW h \in Handlers,
         handlers' = [handlers EXCEPT ![h] = NoEvent], events' = events
  PROVE  DeliveriesCover' /\ \A e \in DOMAIN events' : Complete(e)'
<1>1. /\ NoEvent \in [at : HandlerAt, event : Nat, pos : Nat, acc : Accounts \union {"none"}]
      /\ NoEvent.at = "idle"
  BY DEF NoEvent, HandlerAt
<1>2. handlers'[h] = NoEvent
  BY DEF OpenLineInv, DeliveriesCover
<1>3. HandlerCovers(h)'
  BY <1>1, <1>2 DEF HandlerCovers
<1>4. QED
  BY <1>1, <1>3, DeliveryMoves

(* It turns to the next message of its event.                              *)
LEMMA DeliveryAdvances ==
  ASSUME OpenLineInv, OpsKept, NEW h \in Handlers, handlers[h].at # "idle", ~ Last(h),
         NEW l \in {"read", "expired"}, l = "expired" => handlers[h].acc = "ours",
         handlers' = [handlers EXCEPT ![h].at = l, ![h].pos = @ + 1], events' = events,
         NEW m, m = Current(h), handlers[h].acc = "ours" => Has(m)'
  PROVE  DeliveriesCover' /\ \A e \in DOMAIN events' : Complete(e)'
<1> DEFINE p == handlers[h]
           msgs == events[p.event].msgs
           v == [p EXCEPT !.at = l, !.pos = @ + 1]
<1>1. p \in HandlerRecord /\ HandlerCovers(h) /\ p.event \in 1..Len(events) /\ p.pos \in 1..Len(msgs)
      /\ Len(msgs) \in Nat /\ p.pos \in Nat \ {0} /\ handlers \in [Handlers -> HandlerRecord]
  BY DeliveryFacts
<1>2. v \in HandlerRecord /\ v.at = l /\ v.pos = p.pos + 1 /\ v.event = p.event /\ v.acc = p.acc
  BY <1>1 DEF HandlerRecord, HandlerAt
<1>3. handlers' = [handlers EXCEPT ![h] = v] /\ handlers'[h] = v
  BY <1>1
<1>4. p.pos # Len(msgs) /\ m = msgs[p.pos]
  BY DEF Last, Current
<1>5. ASSUME p.acc = "ours", NEW k \in 1..p.pos, NEW n, n = msgs[k]
      PROVE  Has(n)'
  <2>1. CASE k = p.pos
    BY <1>4, <1>5, <2>1
  <2>2. CASE k # p.pos
    <3>1. k \in 1..(p.pos - 1)
      BY <1>1, <2>2
    <3>2. Has(n)
      BY <1>1, <1>5, <3>1 DEF HandlerCovers
    <3>3. QED
      BY <3>2, HasStays
  <2>3. QED
    BY <2>1, <2>2
<1>6. HandlerCovers(h)'
  <2>1. /\ events'[handlers'[h].event].msgs = msgs /\ handlers'[h].event \in 1..Len(events')
        /\ handlers'[h].pos = p.pos + 1 /\ handlers'[h].acc = p.acc /\ handlers'[h].at = l
    BY <1>1, <1>2, <1>3
  <2>2. p.pos + 1 \in 1..Len(msgs)
    BY <1>1, <1>4
  <2>3. ASSUME p.acc = "ours", NEW k \in 1..(handlers'[h].pos - 1)
        PROVE  \E i \in DOMAIN rows' : rows'[i].op = events'[handlers'[h].event].msgs[k]
    <3>1. k \in 1..p.pos
      BY <1>1, <2>1
    <3>2. \A n : n = msgs[k] => Has(n)'
      BY <1>5, <2>3, <3>1
    <3>3. QED
      BY <2>1, <3>2 DEF Has
  <2>4. handlers'[h].pos \in 1..Len(events'[handlers'[h].event].msgs)
    BY <2>1, <2>2
  <2> HIDE DEF p, msgs
  <2>5. QED
    BY <2>1, <2>3, <2>4 DEF HandlerCovers, Has, p
<1>7. v \in [at : HandlerAt, event : Nat, pos : Nat, acc : Accounts \union {"none"}]
  BY <1>2 DEF HandlerRecord
<1> HIDE DEF v
<1>8. QED
  BY <1>3, <1>6, <1>7, DeliveryMoves

(* The message in hand has its row, or the dialog is not ours.             *)
LEMMA MessageDone ==
  ASSUME OpenLineInv, OpsKept, NEW h \in Handlers, handlers[h].at # "idle", NextMsg(h),
         NEW m, m = Current(h), handlers[h].acc = "ours" => Has(m)'
  PROVE  DeliveriesCover' /\ \A e \in DOMAIN events' : Complete(e)'
<1>1. CASE ~ Last(h)
  <2>1. handlers' = [handlers EXCEPT ![h].at = "read", ![h].pos = @ + 1] /\ events' = events
    BY <1>1 DEF NextMsg
  <2>2. QED
    BY <1>1, <2>1, DeliveryAdvances
<1>2. CASE Last(h) /\ handlers[h].acc # "ours"
  <2>1. Answer(h, "ignored")
    BY <1>2 DEF NextMsg
  <2>2. QED
    BY <2>1, DeliveryAnswers
<1>3. CASE Last(h) /\ handlers[h].acc = "ours"
  <2>1. Answer(h, "stored")
    BY <1>3 DEF NextMsg
  <2>2. ASSUME NEW k \in DOMAIN events[handlers[h].event].msgs, NEW n, n = events[handlers[h].event].msgs[k]
        PROVE  Has(n)'
    <3>1. k \in 1..handlers[h].pos /\ handlers[h].pos \in Nat
      BY <1>3, DeliveryFacts DEF Last
    <3>2. CASE k = handlers[h].pos
      BY <1>3, <2>2, <3>2 DEF Current
    <3>3. CASE k # handlers[h].pos
      <4>1. k \in 1..(handlers[h].pos - 1)
        BY <3>1, <3>3
      <4>2. Has(n)
        BY <1>3, <2>2, <4>1, DeliveryFacts DEF HandlerCovers
      <4>3. QED
        BY <4>2, HasStays
    <3>4. QED
      BY <3>2, <3>3
  <2>3. QED
    BY <2>1, <2>2, DeliveryAnswers
<1>4. QED
  BY <1>1, <1>2, <1>3

LEMMA FindAccountCovers ==
  ASSUME OpenLineInv, NEW h \in Handlers, FindAccount(h)
  PROVE  DeliveriesCover' /\ \A e \in DOMAIN events' : Complete(e)'
<1>1. OpsKept
  BY SameRowsOps DEF FindAccount
<1>2. handlers[h].at = "bound"
  BY DEF FindAccount
<1>3. CASE Answer(h, "ignored")
  BY <1>1, <1>2, <1>3, DeliveryAnswers
<1>4. CASE \E a \in Accounts : handlers' = [handlers EXCEPT ![h].at = "read", ![h].acc = a] /\ events' = events
  <2>1. PICK a \in Accounts : handlers' = [handlers EXCEPT ![h].at = "read", ![h].acc = a] /\ events' = events
    BY <1>4
  <2> DEFINE v == [handlers[h] EXCEPT !.at = "read", !.acc = a]
  <2>2. /\ handlers \in [Handlers -> HandlerRecord] /\ handlers[h] \in HandlerRecord /\ HandlerCovers(h)
    BY <1>2, DeliveryFacts
  <2>3. /\ v \in HandlerRecord /\ v.at = "read" /\ v.acc = a /\ v.event = handlers[h].event /\ v.pos = handlers[h].pos
    BY <2>2 DEF HandlerRecord, HandlerAt
  <2>4. handlers' = [handlers EXCEPT ![h] = v] /\ handlers'[h] = v
    BY <2>1, <2>2
  <2>5. handlers[h].pos = 1
    BY <1>2, <2>2 DEF HandlerCovers
  <2> HIDE DEF v
  <2>6. HandlerCovers(h)'
    BY <1>2, <2>1, <2>2, <2>3, <2>4, <2>5 DEF HandlerCovers
  <2>7. QED
    BY <1>1, <2>1, <2>3, <2>4, <2>6, DeliveryMoves DEF HandlerRecord
<1>5. QED
  BY <1>3, <1>4 DEF FindAccount

LEMMA ReadMsgCovers ==
  ASSUME OpenLineInv, NEW h \in Handlers, ReadMsg(h)
  PROVE  DeliveriesCover' /\ \A e \in DOMAIN events' : Complete(e)'
<1>1. OpsKept /\ handlers[h].at \in {"read", "expired"} /\ handlers[h].at # "idle"
  BY SameRowsOps DEF ReadMsg
<1>2. CASE Has(Current(h))
  <2>1. PICK m : m = Current(h)
    OBVIOUS
  <2>2. Has(m)'
    BY <1>1, <1>2, <2>1, HasStays
  <2>3. QED
    BY <1>1, <1>2, <2>1, <2>2, MessageDone DEF ReadMsg
<1>3. CASE ~ Has(Current(h)) /\ handlers[h].at = "expired"
  BY <1>1, <1>3, DeliveryStops DEF ReadMsg
<1>4. CASE ~ Has(Current(h)) /\ handlers[h].at # "expired" /\ handlers[h].acc # "ours"
  <2>1. PICK m : m = Current(h)
    OBVIOUS
  <2>2. QED
    BY <1>1, <1>4, <2>1, MessageDone DEF ReadMsg
<1>5. CASE ~ Has(Current(h)) /\ handlers[h].at # "expired" /\ handlers[h].acc = "ours"
  <2> DEFINE v == [handlers[h] EXCEPT !.at = "insert"]
  <2>1. handlers' = [handlers EXCEPT ![h].at = "insert"] /\ events' = events
    BY <1>5 DEF ReadMsg
  <2>2. /\ handlers \in [Handlers -> HandlerRecord] /\ handlers[h] \in HandlerRecord /\ HandlerCovers(h)
    BY <1>1, DeliveryFacts
  <2>3. /\ v \in HandlerRecord /\ v.at = "insert" /\ v.acc = handlers[h].acc /\ v.event = handlers[h].event
        /\ v.pos = handlers[h].pos
    BY <2>2 DEF HandlerRecord, HandlerAt
  <2>4. handlers' = [handlers EXCEPT ![h] = v] /\ handlers'[h] = v
    BY <2>1, <2>2
  <2> HIDE DEF v
  <2>5. HandlerCovers(h)'
    BY <1>1, <1>5, <2>1, <2>2, <2>3, <2>4 DEF HandlerCovers, ReadMsg, Has
  <2>6. QED
    BY <1>1, <2>1, <2>3, <2>4, <2>5, DeliveryMoves DEF HandlerRecord
<1>6. QED
  BY <1>2, <1>3, <1>4, <1>5

(* The unique index: a row is added only for a message that has none.      *)
LEMMA InsertCovers ==
  ASSUME OpenLineInv, NEW h \in Handlers, Insert(h)
  PROVE  /\ DeliveriesCover' /\ \A e \in DOMAIN events' : Complete(e)'
         /\ TasksCounted' /\ ShownOnce' /\ OpsApart'
<1>1. handlers[h].at = "insert" /\ handlers[h].at # "idle" /\ handlers[h].acc = "ours"
  BY DeliveryFacts DEF Insert, HandlerCovers
<1>2. UNCHANGED <<worker, used, portal>>
  BY DEF Insert
<1>3. PICK m : m = Current(h)
  OBVIOUS
<1>4. CASE ~ Has(m)
  <2>1. rows' = Append(rows, Row("operator", m)) /\ NextMsg(h)
    BY <1>3, <1>4 DEF Insert
  <2>2. /\ TasksCounted' /\ ShownOnce' /\ OpsKept
        /\ DOMAIN rows = 1..Len(rows) /\ Len(rows) \in Nat
        /\ Len(rows') = Len(rows) + 1
        /\ rows'[Len(rows) + 1].op = m
    BY <1>2, <2>1, RowAppended
  <2>3. DOMAIN rows' = 1..(Len(rows) + 1)
    BY <2>2 DEF OpsKept
  <2>4. Has(m)'
    BY <2>2, <2>3 DEF Has
  <2>5. OpsApart'
    <3>1. OpsApart
      BY OperatorOnceParts DEF OpenLineInv
    <3>2. ASSUME NEW i \in 1..Len(rows)
          PROVE  rows[i].op # m
      BY <1>4, <2>2 DEF Has
    <3>3. \A i \in DOMAIN rows' :
            (i \in 1..Len(rows) /\ rows'[i].op = rows[i].op) \/ i = Len(rows) + 1
      BY <2>2, <2>3 DEF OpsKept
    <3>4. QED
      BY <2>2, <3>1, <3>2, <3>3 DEF OpsApart
  <2>6. QED
    BY <1>1, <1>3, <2>1, <2>2, <2>4, <2>5, MessageDone
<1>5. CASE Has(m)
  <2>1. rows' = rows
    BY <1>3, <1>5 DEF Insert
  <2>2. OpsKept /\ Has(m)'
    BY <1>5, <2>1, SameRowsOps, HasStays
  <2>3. TasksCounted' /\ ShownOnce' /\ OpsApart'
    <3>1. used'.faults \in Nat /\ used.faults <= used'.faults
      BY <1>2 DEF OpenLineInv, BindingTypes
    <3>2. TasksCounted' /\ ShownOnce'
      BY <1>2, <2>1, <3>1, TasksStay DEF Gone
    <3>3. QED
      BY <2>1, <3>2, OperatorOnceParts DEF OpenLineInv, OpsApart
  <2>4. CASE Last(h)
    <3>1. Answer(h, "stored")
      BY <1>3, <1>5, <2>4 DEF Insert
    <3>2. NextMsg(h)
      BY <1>1, <2>4, <3>1 DEF NextMsg
    <3>3. QED
      BY <1>1, <1>3, <2>2, <2>3, <3>2, MessageDone
  <2>5. CASE ~ Last(h)
    <3>1. handlers' = [handlers EXCEPT ![h].at = "expired", ![h].pos = @ + 1] /\ events' = events
      BY <1>3, <1>5, <2>5 DEF Insert
    <3>2. QED
      BY <1>1, <1>3, <2>2, <2>3, <2>5, <3>1, DeliveryAdvances
  <2>6. QED
    BY <2>4, <2>5
<1>6. QED
  BY <1>4, <1>5

LEMMA DeliverCovers ==
  ASSUME OpenLineInv, NEW h \in Handlers, NEW e \in DOMAIN events, Deliver(h, e)
  PROVE  DeliveriesCover' /\ \A d \in DOMAIN events' : Complete(d)'
<1> DEFINE v == [at |-> "bound", event |-> e, pos |-> 1, acc |-> "none"]
<1>1. OpsKept /\ handlers' = [handlers EXCEPT ![h] = v] /\ events' = events
  BY SameRowsOps DEF Deliver
<1>2. e \in 1..Len(events) /\ e \in Nat
  <2>1. DOMAIN events = 1..Len(events) /\ Len(events) \in Nat
    BY Sequence DEF OpenLineInv, DeliveriesCover
  <2>2. QED
    BY <2>1
<1>3. Len(events[e].msgs) \in Nat \ {0}
  BY <1>2 DEF OpenLineInv, DeliveriesCover, EventShape
<1>4. v \in [at : HandlerAt, event : Nat, pos : Nat, acc : Accounts \union {"none"}]
  BY <1>2 DEF HandlerAt
<1>5. handlers'[h] = v
  BY <1>1 DEF OpenLineInv, DeliveriesCover
<1>6. HandlerCovers(h)'
  BY <1>1, <1>2, <1>3, <1>5 DEF HandlerCovers
<1> HIDE DEF v
<1>7. QED
  BY <1>1, <1>4, <1>6, DeliveryMoves

LEMMA OperatorWritesCovers ==
  ASSUME OpenLineInv, NEW l \in Lines, NEW n \in Sizes, OperatorWrites(l, n)
  PROVE  DeliveriesCover' /\ \A d \in DOMAIN events' : Complete(d)'
<1> DEFINE msgs == [k \in 1..n |-> Cardinality(Written) + k]
           r == [line |-> l, state |-> "open", msgs |-> msgs]
<1>1. OpsKept /\ handlers' = handlers /\ rows' = rows /\ events' = Append(events, r)
  BY SameRowsOps DEF OperatorWrites
<1>2. n \in Nat \ {0}
  BY OpenLineAssumption
<1>3. DOMAIN msgs = 1..n /\ msgs \in [1..n -> {msgs[k] : k \in 1..n}]
  OBVIOUS
<1> HIDE DEF msgs
<1>4. msgs \in Seq({msgs[k] : k \in 1..n}) /\ Len(msgs) = n
  BY <1>2, <1>3
<1>5. r.state = "open" /\ r.msgs = msgs /\ r \in [line : Lines, state : {"open", "ignored", "stored"}, msgs : {msgs}]
  OBVIOUS
<1> HIDE DEF r
<1>6. IsSequence(events) /\ DOMAIN events = 1..Len(events) /\ Len(events) \in Nat
  BY Sequence DEF OpenLineInv, DeliveriesCover
<1>7. /\ IsSequence(Append(events, r)) /\ Len(Append(events, r)) = Len(events) + 1
      /\ Append(events, r)[Len(events) + 1] = r
      /\ \A e \in 1..Len(events) : Append(events, r)[e] = events[e]
  BY <1>6, AppendSequence
<1>8. /\ IsSequence(events') /\ DOMAIN events' = 1..Len(events') /\ Len(events') = Len(events) + 1
      /\ events'[Len(events) + 1] = r
      /\ \A e \in 1..Len(events) : events'[e] = events[e]
  BY <1>1, <1>7, Sequence
<1>9. MsgsKept
  BY <1>6, <1>8 DEF MsgsKept
<1>10. \A g \in Handlers : HandlerCovers(g)'
  BY <1>1, <1>9, DeliveryStays
<1>11. \A e \in DOMAIN events' : (e \in 1..Len(events) /\ events'[e] = events[e]) \/ events'[e] = r
  BY <1>6, <1>8
<1>12. EventShape'
  <2>1. ASSUME NEW e \in 1..Len(events')
        PROVE  /\ events'[e] \in [line : Lines, state : {"open", "ignored", "stored"}, msgs : {events'[e].msgs}]
               /\ Len(events'[e].msgs) \in Nat \ {0} /\ DOMAIN events'[e].msgs = 1..Len(events'[e].msgs)
    <3>1. CASE e \in 1..Len(events) /\ events'[e] = events[e]
      BY <3>1 DEF OpenLineInv, DeliveriesCover, EventShape
    <3>2. CASE events'[e] = r
      BY <1>2, <1>3, <1>4, <1>5, <3>2
    <3>3. QED
      BY <1>8, <1>11, <3>1, <3>2
  <2>2. QED
    BY <2>1 DEF EventShape
<1>13. DeliveriesCover'
  BY <1>1, <1>8, <1>10, <1>12 DEF OpenLineInv, DeliveriesCover
<1>14. ASSUME NEW e \in DOMAIN events', events'[e].state = "stored"
       PROVE  \A k \in DOMAIN events'[e].msgs : \E i \in DOMAIN rows : rows[i].op = events'[e].msgs[k]
  <2>1. e \in 1..Len(events) /\ events'[e] = events[e]
    BY <1>5, <1>11, <1>14
  <2>2. Complete(e)
    BY <1>6, <2>1, OperatorOnceParts DEF OpenLineInv
  <2>3. QED
    BY <1>14, <2>1, <2>2 DEF Complete, Has
<1>15. QED
  BY <1>1, <1>13, <1>14 DEF Complete, Has

-----------------------------------------------------------------------------
(* The worker of the CRM queue.                                            *)

Shows == {"card", "delivery", "message", "mirror"}

LEMMA AppendStays ==
  ASSUME NEW S, NEW s \in Seq(S), NEW x \in S
  PROVE  Append(s, x) \in Seq(S)
OBVIOUS

LEMMA RowChanges ==
  ASSUME NEW r, RowShape(r), NEW as \in Shows
  PROVE  /\ r.attempts \in Nat /\ r.shown \in Seq(Shows) /\ Len(r.shown) \in Nat
         /\ RowShape(Settled(r)) /\ Settled(r).op = r.op /\ Settled(r).task = "done"
         /\ Settled(r).attempts = r.attempts /\ Settled(r).shown = r.shown
         /\ RowShape(Shown(r, as)) /\ Shown(r, as).op = r.op /\ Shown(r, as).task = r.task
         /\ Shown(r, as).attempts = r.attempts /\ Shown(r, as).shown = Append(r.shown, as)
         /\ RowShape(FailOrRetry(r)) /\ FailOrRetry(r).op = r.op /\ FailOrRetry(r).shown = r.shown
         /\ FailOrRetry(r).attempts = r.attempts + 1
         /\ FailOrRetry(r).task = IF r.attempts + 1 >= MaxAttempts THEN "failed" ELSE r.task
<1>1. r.attempts \in Nat /\ r.shown \in Seq(Shows) /\ Len(r.shown) \in Nat
  BY DEF RowShape, Shows
<1>2. RowShape(Settled(r)) /\ Settled(r).op = r.op /\ Settled(r).task = "done"
         /\ Settled(r).attempts = r.attempts /\ Settled(r).shown = r.shown
  BY DEF RowShape, Settled
<1>3. Append(r.shown, as) \in Seq(Shows)
  BY <1>1, AppendStays
<1>4. RowShape(Shown(r, as)) /\ Shown(r, as).op = r.op /\ Shown(r, as).task = r.task
         /\ Shown(r, as).attempts = r.attempts /\ Shown(r, as).shown = Append(r.shown, as)
  BY <1>3 DEF RowShape, Shown, Shows
<1>5. RowShape(FailOrRetry(r)) /\ FailOrRetry(r).op = r.op /\ FailOrRetry(r).shown = r.shown
         /\ FailOrRetry(r).attempts = r.attempts + 1
         /\ FailOrRetry(r).task = IF r.attempts + 1 >= MaxAttempts THEN "failed" ELSE r.task
  <2> DEFINE n == r.attempts + 1
             t == IF n >= MaxAttempts THEN "failed" ELSE r.task
  <2>1. n \in Nat
    BY <1>1
  <2>2. t \in {"queued", "done", "failed"}
    BY DEF RowShape
  <2>3. FailOrRetry(r) = [r EXCEPT !.attempts = n, !.task = t]
    BY DEF FailOrRetry, RowShape
  <2> HIDE DEF n, t
  <2>4. RowShape(FailOrRetry(r)) /\ FailOrRetry(r).op = r.op /\ FailOrRetry(r).shown = r.shown
        /\ FailOrRetry(r).attempts = n /\ FailOrRetry(r).task = t
    BY <2>1, <2>2, <2>3 DEF RowShape
  <2>5. QED
    BY <2>4 DEF n, t
<1>6. QED
  BY <1>1, <1>2, <1>4, <1>5

(* The worker's row becomes x, and the worker is idle.                     *)
LEMMA RowReplaced ==
  ASSUME OpenLineInv, NEW x, worker.row # 0,
         RowShape(x), x.op = rows[worker.row].op,
         rows' = [rows EXCEPT ![worker.row] = x], worker' = Idle, portal' = portal,
         used'.faults \in Nat, used.faults <= used'.faults,
         x.task = "queued" => Len(x.shown) <= used'.faults,
         Len(x.shown) <= 1 + used'.faults,
         x.task = "failed" => x.attempts >= MaxAttempts,
         x.attempts > used'.faults => \E l \in Lines : Gone(l),
         \A k \in DOMAIN x.shown : x.op # 0 => x.shown[k] \in {"delivery", "card"}
  PROVE  TasksCounted' /\ ShownOnce' /\ OpsKept /\ OpsApart'
<1> DEFINE w == worker.row
<1>1. IsSequence(rows) /\ DOMAIN rows = 1..Len(rows) /\ Len(rows) \in Nat /\ w \in 1..Len(rows)
  BY Sequence DEF OpenLineInv, TasksCounted
<1>2. /\ IsSequence([rows EXCEPT ![w] = x]) /\ Len([rows EXCEPT ![w] = x]) = Len(rows)
      /\ [rows EXCEPT ![w] = x][w] = x
      /\ \A j \in 1..Len(rows) \ {w} : [rows EXCEPT ![w] = x][j] = rows[j]
  BY <1>1, ExceptSequence
<1>3. /\ IsSequence(rows') /\ Len(rows') = Len(rows) /\ DOMAIN rows' = 1..Len(rows)
      /\ \A j \in 1..Len(rows) : rows'[j] = rows[j] \/ (j = w /\ rows'[j] = x)
      /\ \A j \in 1..Len(rows) : rows'[j].op = rows[j].op
  BY <1>1, <1>2, Sequence
<1>4. used.faults \in Nat
  BY DEF OpenLineInv, BindingTypes
<1>5. ASSUME NEW i \in 1..Len(rows)
      PROVE  /\ RowShape(rows'[i])
             /\ rows'[i].task = "queued" => Len(rows'[i].shown) <= used'.faults
             /\ Len(rows'[i].shown) <= 1 + used'.faults
             /\ rows'[i].task = "failed" => rows'[i].attempts >= MaxAttempts
             /\ rows'[i].attempts > used'.faults => \E l \in Lines : portal[l] = "deleted"
             /\ \A k \in DOMAIN rows'[i].shown : rows'[i].op # 0 => rows'[i].shown[k] \in {"delivery", "card"}
  <2>1. CASE rows'[i] = x
    BY <2>1 DEF Gone
  <2>2. CASE rows'[i] = rows[i]
    <3>1. /\ RowShape(rows[i])
          /\ rows[i].attempts \in Nat /\ Len(rows[i].shown) \in Nat
          /\ rows[i].task = "queued" => Len(rows[i].shown) <= used.faults
          /\ Len(rows[i].shown) <= 1 + used.faults
          /\ rows[i].task = "failed" => rows[i].attempts >= MaxAttempts
          /\ rows[i].attempts > used.faults => \E l \in Lines : portal[l] = "deleted"
          /\ \A k \in DOMAIN rows[i].shown : rows[i].op # 0 => rows[i].shown[k] \in {"delivery", "card"}
      BY <1>1 DEF OpenLineInv, TasksCounted, RowShape, ShownOnce
    <3>2. /\ rows[i].task = "queued" => Len(rows[i].shown) <= used'.faults
          /\ Len(rows[i].shown) <= 1 + used'.faults
          /\ rows[i].attempts > used'.faults => rows[i].attempts > used.faults
      BY <1>4, <3>1
    <3>3. QED
      BY <2>2, <3>1, <3>2
  <2>3. QED
    BY <1>3, <2>1, <2>2
<1>6. worker'.row = 0
  BY DEF Idle
<1>7. TasksCounted'
  BY <1>3, <1>5, <1>6 DEF TasksCounted, RowShape
<1>8. ShownOnce'
  BY <1>3, <1>5 DEF ShownOnce
<1>9. OpsKept
  BY <1>1, <1>3 DEF OpsKept
<1>10. OpsApart
  BY OperatorOnceParts DEF OpenLineInv
<1>11. OpsApart'
  BY <1>1, <1>3, <1>10 DEF OpsApart
<1>12. QED
  BY <1>7, <1>8, <1>9, <1>11

-----------------------------------------------------------------------------
(* The slider, the portal and the binding.                                 *)

SaverRecord == [at : SaverAt, acc : Accounts, line : LineOrNone, read : LineOrNone, was : BOOLEAN]
Columns  == line \in [Accounts -> LineOrNone] /\ active \in [Accounts -> BOOLEAN]
AtPortal == portal \in [Lines -> {"active", "off", "deleted"}]
AtSlider ==
  savers \in [Savers -> SaverRecord] /\ \A s \in Savers : savers[s].at # "idle" => savers[s].line \in Lines
Counters == used \in [saves : Nat, portal : Nat, deliveries : Nat, faults : Nat]

LEMMA BindingParts ==
  BindingTypes <=> Columns /\ AtPortal /\ AtSlider /\ worker.line \in LineOrNone /\ Counters
BY DEF BindingTypes, Columns, AtPortal, AtSlider, SaverRecord, Counters

LEMMA BindingNow ==
  ASSUME OpenLineInv
  PROVE  Columns /\ AtPortal /\ AtSlider /\ worker.line \in LineOrNone /\ Counters /\ used.faults \in Nat
BY BindingParts DEF OpenLineInv, Counters

LEMMA UsedStays == ASSUME OpenLineInv, used' = used PROVE Counters' /\ used'.faults \in Nat /\ used.faults <= used'.faults
BY BindingNow DEF Counters

LEMMA UsedGrows ==
  ASSUME OpenLineInv, NEW b \in Budget, Use(b)
  PROVE  Counters' /\ used'.faults \in Nat /\ used.faults <= used'.faults
BY UseCounts DEF Counters

LEMMA SaverMoves ==
  ASSUME OpenLineInv, NEW s \in Savers, NEW v \in SaverRecord, v.at # "idle" => v.line \in Lines,
         savers' = [savers EXCEPT ![s] = v]
  PROVE  AtSlider'
BY BindingNow DEF AtSlider

LEMMA SaverEnds ==
  ASSUME OpenLineInv, NEW s \in Savers, savers' = [savers EXCEPT ![s] = NoSave]
  PROVE  AtSlider'
<1>1. NoSave \in SaverRecord /\ NoSave.at = "idle"
  BY DEF NoSave, SaverRecord, SaverAt, Accounts, LineOrNone
<1>2. QED
  BY <1>1, SaverMoves

(* What a step that writes neither rows nor the worker owes the rest.      *)
Bound ==
  /\ Columns' /\ AtPortal' /\ AtSlider' /\ Counters'
  /\ used'.faults \in Nat /\ used.faults <= used'.faults
  /\ \A l \in Lines : Gone(l) => Gone(l)'

LEMMA SaveBinds ==
  ASSUME OpenLineInv, NEW s \in Savers, NEW a \in Accounts, NEW l \in Lines, Save(s, a, l)
  PROVE  Bound
<1> DEFINE v == [at |-> "activate", acc |-> a, line |-> l, read |-> line[a], was |-> active[a]]
<1>1. v \in SaverRecord /\ v.line \in Lines
  BY BindingNow DEF SaverRecord, SaverAt, LineOrNone, Columns
<1>2. savers' = [savers EXCEPT ![s] = v] /\ UNCHANGED <<line, active, portal>>
  BY DEF Save, binding
<1> HIDE DEF v
<1>3. AtSlider'
  BY <1>1, <1>2, SaverMoves
<1>4. Counters' /\ used'.faults \in Nat /\ used.faults <= used'.faults
  BY UsedGrows DEF Save, Budget
<1>5. QED
  BY <1>2, <1>3, <1>4, BindingNow DEF Bound, Columns, AtPortal, Gone

LEMMA ActivateBinds ==
  ASSUME OpenLineInv, NEW s \in Savers, Activate(s)
  PROVE  Bound
<1>1. Counters' /\ used'.faults \in Nat /\ used.faults <= used'.faults /\ UNCHANGED <<line, active>>
  BY UsedStays DEF Activate, binding
<1>2. savers[s] \in SaverRecord /\ savers[s].line \in Lines
  BY BindingNow DEF AtSlider, Activate
<1>3. CASE portal[savers[s].line] = "deleted"
  <2>1. savers' = [savers EXCEPT ![s] = NoSave] /\ portal' = portal
    BY <1>3 DEF Activate
  <2>2. QED
    BY <1>1, <2>1, SaverEnds, BindingNow DEF Bound, Columns, AtPortal, Gone
<1>4. CASE portal[savers[s].line] # "deleted"
  <2> DEFINE v == [savers[s] EXCEPT !.at = "commit"]
  <2>1. portal' = [portal EXCEPT ![savers[s].line] = "active"] /\ savers' = [savers EXCEPT ![s] = v]
    BY <1>4, BindingNow DEF Activate, AtSlider
  <2>2. v \in SaverRecord /\ v.line \in Lines
    BY <1>2 DEF SaverRecord, SaverAt
  <2> HIDE DEF v
  <2>3. AtSlider'
    BY <2>1, <2>2, SaverMoves
  <2>4. AtPortal' /\ \A l \in Lines : Gone(l) => Gone(l)'
    BY <1>2, <1>4, <2>1, BindingNow DEF AtPortal, Gone
  <2>5. QED
    BY <1>1, <2>3, <2>4, BindingNow DEF Bound, Columns
<1>5. QED
  BY <1>3, <1>4

LEMMA CommitSaveBinds ==
  ASSUME OpenLineInv, NEW s \in Savers, CommitSave(s)
  PROVE  Bound
<1> DEFINE v == savers[s]
           w == [v EXCEPT !.at = "deactivate"]
           x == [v EXCEPT !.at = "deactivate", !.line = v.read]
<1>1. /\ Counters' /\ used'.faults \in Nat /\ used.faults <= used'.faults
      /\ portal' = portal /\ v.at = "commit"
  BY UsedStays DEF CommitSave
<1>2. v \in SaverRecord /\ v.line \in Lines /\ v.acc \in Accounts
  BY <1>1, BindingNow DEF AtSlider, SaverRecord
<1>3. w \in SaverRecord /\ w.line \in Lines
  BY <1>2 DEF SaverRecord, SaverAt
<1>4. x \in SaverRecord /\ x.line = v.read
  BY <1>2 DEF SaverRecord, SaverAt
<1>5. \/ savers' = [savers EXCEPT ![s] = w] /\ UNCHANGED <<line, active>>
      \/ /\ line' = IF v.read # v.line THEN [line EXCEPT ![v.acc] = v.line] ELSE line
         /\ active' = IF ~v.was THEN [active EXCEPT ![v.acc] = TRUE] ELSE active
         /\ savers' = [savers EXCEPT ![s] = IF v.read \in {0, v.line} THEN NoSave ELSE x]
  BY BindingNow DEF CommitSave, binding, AtSlider
<1>6. Columns'
  BY <1>2, <1>5, BindingNow DEF Columns, LineOrNone
<1>7. AtSlider'
  <2>1. CASE savers' = [savers EXCEPT ![s] = w]
    BY <1>3, <2>1, SaverMoves
  <2>2. CASE savers' = [savers EXCEPT ![s] = NoSave]
    BY <2>2, SaverEnds
  <2>3. CASE savers' = [savers EXCEPT ![s] = x] /\ v.read # 0
    <3>1. x.line \in Lines
      BY <1>2, <1>4, <2>3 DEF SaverRecord, LineOrNone
    <3> HIDE DEF x
    <3>2. QED
      BY <1>4, <2>3, <3>1, SaverMoves
  <2>4. QED
    BY <1>5, <2>1, <2>2, <2>3
<1>8. QED
  BY <1>1, <1>6, <1>7, BindingNow DEF Bound, AtPortal, Gone

LEMMA UnbindBinds ==
  ASSUME OpenLineInv, NEW s \in Savers, NEW l \in Lines, Unbind(s, l)
  PROVE  Bound
<1> DEFINE v == [NoSave EXCEPT !.at = "deactivate", !.line = l]
<1>1. v \in SaverRecord /\ v.line \in Lines
  BY DEF NoSave, SaverRecord, SaverAt, Accounts, LineOrNone
<1>2. savers' = [savers EXCEPT ![s] = v] /\ portal' = portal
  BY DEF Unbind
<1> HIDE DEF v
<1>3. AtSlider'
  BY <1>1, <1>2, SaverMoves
<1>4. Counters' /\ used'.faults \in Nat /\ used.faults <= used'.faults
  BY UsedGrows DEF Unbind, Budget
<1>5. Columns'
  BY BindingNow DEF Unbind, Columns, LineOrNone
<1>6. QED
  BY <1>2, <1>3, <1>4, <1>5, BindingNow DEF Bound, AtPortal, Gone

LEMMA DeactivateBinds ==
  ASSUME OpenLineInv, NEW s \in Savers, Deactivate(s)
  PROVE  Bound
<1>1. /\ Counters' /\ used'.faults \in Nat /\ used.faults <= used'.faults /\ UNCHANGED <<line, active>>
  BY UsedStays DEF Deactivate, binding
<1>2. AtSlider'
  BY SaverEnds DEF Deactivate
<1>3. AtPortal' /\ \A l \in Lines : Gone(l) => Gone(l)'
  BY BindingNow DEF Deactivate, AtPortal, Gone
<1>4. QED
  BY <1>1, <1>2, <1>3, BindingNow DEF Bound, Columns

LEMMA SaverFailsBinds ==
  ASSUME OpenLineInv, NEW s \in Savers, SaverFails(s)
  PROVE  Bound
<1>1. /\ Counters' /\ used'.faults \in Nat /\ used.faults <= used'.faults
  BY UsedGrows DEF SaverFails, Budget
<1>2. AtSlider'
  BY SaverEnds DEF SaverFails
<1>3. UNCHANGED <<line, active, portal>>
  BY DEF SaverFails, binding
<1>4. QED
  BY <1>1, <1>2, <1>3, BindingNow DEF Bound, Columns, AtPortal, Gone

LEMMA PortalChangesBinds ==
  ASSUME OpenLineInv, NEW l \in Lines, NEW state \in {"off", "deleted"}, PortalChanges(l, state)
  PROVE  Bound
<1>1. /\ Counters' /\ used'.faults \in Nat /\ used.faults <= used'.faults
  BY UsedGrows DEF PortalChanges, Budget
<1>2. AtPortal' /\ \A k \in Lines : Gone(k) => Gone(k)'
  BY BindingNow DEF PortalChanges, AtPortal, Gone
<1>3. UNCHANGED <<line, active, savers>>
  BY DEF PortalChanges, binding
<1>4. QED
  BY <1>1, <1>2, <1>3, BindingNow DEF Bound, Columns, AtSlider

LEMMA LineGoneBinds ==
  ASSUME OpenLineInv, NEW n \in news, LineGone(n)
  PROVE  Bound
<1>1. /\ Counters' /\ used'.faults \in Nat /\ used.faults <= used'.faults
  BY UsedStays DEF LineGone
<1>2. Columns'
  BY BindingNow DEF LineGone, Columns, LineOrNone
<1>3. UNCHANGED <<portal, savers>>
  BY DEF LineGone
<1>4. QED
  BY <1>1, <1>2, <1>3, BindingNow DEF Bound, AtPortal, AtSlider, Gone

LEMMA BindingRests ==
  ASSUME OpenLineInv, UNCHANGED <<line, active, portal, savers>>,
         Counters', used'.faults \in Nat, used.faults <= used'.faults
  PROVE  Bound
BY BindingNow DEF Bound, Columns, AtPortal, AtSlider, Gone

-----------------------------------------------------------------------------
(* Every step keeps the inductive invariant.                               *)

LEMMA Assemble ==
  ASSUME Columns', AtPortal', AtSlider', Counters', worker'.line \in LineOrNone,
         DeliveriesCover', TasksCounted', ShownOnce', OpsApart', \A e \in DOMAIN events' : Complete(e)'
  PROVE  OpenLineInv'
<1>1. BindingTypes'
  BY DEF BindingTypes, Columns, AtPortal, AtSlider, SaverRecord, Counters
<1>2. OperatorOnce'
  BY DEF OperatorOnce, OpsApart, Complete
<1>3. QED
  BY <1>1, <1>2 DEF OpenLineInv

(* A step of the webhook, or of the slider and the portal: the tasks stay. *)
LEMMA TasksUntouched ==
  ASSUME OpenLineInv, Bound, UNCHANGED <<rows, worker>>
  PROVE  TasksCounted' /\ ShownOnce' /\ OpsApart' /\ worker'.line \in LineOrNone
<1>1. TasksCounted' /\ ShownOnce'
  BY TasksStay DEF Bound
<1>2. OpsApart'
  BY OperatorOnceParts DEF OpenLineInv, OpsApart
<1>3. QED
  BY <1>1, <1>2, BindingNow

LEMMA SliderStep ==
  ASSUME OpenLineInv, Bound, UNCHANGED <<rows, worker, events, handlers>>
  PROVE  OpenLineInv'
<1>1. TasksCounted' /\ ShownOnce' /\ OpsApart' /\ worker'.line \in LineOrNone
  BY TasksUntouched
<1>2. DeliveriesCover' /\ \A e \in DOMAIN events' : Complete(e)'
  BY SameRowsOps, WebhookRests
<1>3. QED
  BY <1>1, <1>2, Assemble DEF Bound

LEMMA WebhookStep ==
  ASSUME OpenLineInv, Bound, UNCHANGED <<rows, worker>>,
         DeliveriesCover', \A e \in DOMAIN events' : Complete(e)'
  PROVE  OpenLineInv'
<1>1. TasksCounted' /\ ShownOnce' /\ OpsApart' /\ worker'.line \in LineOrNone
  BY TasksUntouched
<1>2. QED
  BY <1>1, Assemble DEF Bound

LEMMA SaverInv ==
  ASSUME OpenLineInv, NEW s \in Savers, Saver(s)
  PROVE  OpenLineInv'
<1>1. CASE \E l \in Lines, a \in Accounts : Save(s, a, l)
  BY ZenonT(40), <1>1, SaveBinds, SliderStep DEF Save
<1>2. CASE \E l \in Lines : Unbind(s, l)
  BY <1>2, UnbindBinds, SliderStep DEF Unbind
<1>3. CASE Activate(s)
  BY <1>3, ActivateBinds, SliderStep DEF Activate
<1>4. CASE CommitSave(s)
  BY <1>4, CommitSaveBinds, SliderStep DEF CommitSave
<1>5. CASE Deactivate(s)
  BY <1>5, DeactivateBinds, SliderStep DEF Deactivate
<1>6. CASE SaverFails(s)
  BY <1>6, SaverFailsBinds, SliderStep DEF SaverFails
<1>7. QED
  BY <1>1, <1>2, <1>3, <1>4, <1>5, <1>6 DEF Saver

LEMMA HandlerInv ==
  ASSUME OpenLineInv, NEW h \in Handlers,
         Handler(h) \/ HandlerFails(h) \/ \E e \in DOMAIN events : Deliver(h, e)
  PROVE  OpenLineInv'
<1>1. CASE FindAccount(h)
  <2>1. Bound
    BY <1>1, UsedStays, BindingRests DEF FindAccount, binding
  <2>2. QED
    BY <1>1, <2>1, FindAccountCovers, WebhookStep DEF FindAccount
<1>2. CASE ReadMsg(h)
  <2>1. Bound
    BY <1>2, UsedStays, BindingRests DEF ReadMsg, binding
  <2>2. QED
    BY <1>2, <2>1, ReadMsgCovers, WebhookStep DEF ReadMsg
<1>3. CASE Insert(h)
  <2>1. Bound
    BY <1>3, UsedStays, BindingRests DEF Insert, binding
  <2>2. worker'.line \in LineOrNone
    BY <1>3, BindingNow DEF Insert
  <2>3. QED
    BY <1>3, <2>1, <2>2, InsertCovers, Assemble DEF Bound
<1>4. CASE HandlerFails(h)
  <2>1. Bound
    BY <1>4, UsedGrows, BindingRests DEF HandlerFails, binding, Budget
  <2>2. DeliveriesCover' /\ \A e \in DOMAIN events' : Complete(e)'
    BY <1>4, SameRowsOps, DeliveryStops DEF HandlerFails
  <2>3. QED
    BY <1>4, <2>1, <2>2, WebhookStep DEF HandlerFails
<1>5. CASE \E e \in DOMAIN events : Deliver(h, e)
  <2>1. PICK e \in DOMAIN events : Deliver(h, e)
    BY <1>5
  <2>2. used' = used \/ Use("deliveries")
    BY <2>1 DEF Deliver
  <2>3. Bound
    BY <2>1, <2>2, UsedStays, UsedGrows, BindingRests DEF Deliver, binding, Budget
  <2>4. QED
    BY <2>1, <2>3, DeliverCovers, WebhookStep DEF Deliver
<1>6. QED
  BY <1>1, <1>2, <1>3, <1>4, <1>5 DEF Handler

LEMMA MessageInv ==
  ASSUME OpenLineInv, ClientWrites \/ PanelSends
  PROVE  OpenLineInv'
<1>1. PICK from \in {"client", "panel"} : rows' = Append(rows, Row(from, 0))
  BY DEF ClientWrites, PanelSends
<1>2. UNCHANGED <<line, active, portal, savers, worker, used, events, handlers>>
  BY DEF ClientWrites, PanelSends, binding
<1>3. /\ TasksCounted' /\ ShownOnce' /\ OpsKept
      /\ DOMAIN rows = 1..Len(rows) /\ Len(rows) \in Nat
      /\ Len(rows') = Len(rows) + 1 /\ rows'[Len(rows) + 1].op = 0
  BY <1>1, <1>2, RowAppended
<1>4. OpsApart'
  <2>1. OpsApart
    BY OperatorOnceParts DEF OpenLineInv
  <2>2. DOMAIN rows' = 1..(Len(rows) + 1)
    BY <1>3 DEF OpsKept
  <2>3. \A i \in DOMAIN rows' : (i \in DOMAIN rows /\ rows'[i].op = rows[i].op) \/ rows'[i].op = 0
    BY <1>3, <2>2 DEF OpsKept
  <2>4. QED
    BY <2>1, <2>3 DEF OpsApart
<1>5. DeliveriesCover' /\ \A e \in DOMAIN events' : Complete(e)'
  BY <1>2, <1>3, WebhookRests
<1>6. Bound
  BY <1>2, UsedStays, BindingRests
<1>7. worker'.line \in LineOrNone
  BY <1>2, BindingNow
<1>8. QED
  BY <1>3, <1>4, <1>5, <1>6, <1>7, Assemble DEF Bound

LEMMA TakeInv ==
  ASSUME OpenLineInv, NEW i \in DOMAIN rows, Take(i)
  PROVE  OpenLineInv'
<1>1. /\ worker'.row = i /\ worker'.line = line["ours"] /\ rows' = rows /\ rows[i].task = "queued"
      /\ UNCHANGED <<line, active, portal, savers, used, events, handlers>>
  BY DEF Take, binding
<1>2. Bound
  BY <1>1, UsedStays, BindingRests
<1>3. DOMAIN rows = 1..Len(rows)
  BY Sequence DEF OpenLineInv, TasksCounted
<1>4. TasksCounted'
  BY <1>1, <1>3 DEF OpenLineInv, TasksCounted
<1>5. ShownOnce' /\ OpsApart'
  BY <1>1, OperatorOnceParts DEF OpenLineInv, ShownOnce, OpsApart
<1>6. worker'.line \in LineOrNone
  BY <1>1, BindingNow DEF Columns, Accounts
<1>7. DeliveriesCover' /\ \A e \in DOMAIN events' : Complete(e)'
  BY <1>1, SameRowsOps, WebhookRests
<1>8. QED
  BY <1>2, <1>4, <1>5, <1>6, <1>7, Assemble DEF Bound

LEMMA WorkerFacts ==
  ASSUME OpenLineInv, worker.row # 0
  PROVE  /\ worker.row \in 1..Len(rows) /\ worker.row \in DOMAIN rows
         /\ RowShape(rows[worker.row]) /\ rows[worker.row].task = "queued"
         /\ rows[worker.row].attempts \in Nat /\ Len(rows[worker.row].shown) \in Nat
         /\ Len(rows[worker.row].shown) <= used.faults
         /\ rows[worker.row].attempts > used.faults => \E l \in Lines : Gone(l)
         /\ \A k \in DOMAIN rows[worker.row].shown :
              rows[worker.row].op # 0 => rows[worker.row].shown[k] \in {"delivery", "card"}
         /\ As(worker.row) \in Shows
         /\ rows[worker.row].op # 0 => As(worker.row) \in {"delivery", "card"}
<1>1. worker.row \in 1..Len(rows) /\ rows[worker.row].task = "queued" /\ DOMAIN rows = 1..Len(rows)
  BY Sequence DEF OpenLineInv, TasksCounted
<1>2. /\ RowShape(rows[worker.row]) /\ Len(rows[worker.row].shown) <= used.faults
      /\ rows[worker.row].attempts > used.faults => \E l \in Lines : Gone(l)
  BY <1>1 DEF OpenLineInv, TasksCounted, Gone
<1>3. rows[worker.row].attempts \in Nat /\ Len(rows[worker.row].shown) \in Nat
  BY <1>2 DEF RowShape
<1>4. \A k \in DOMAIN rows[worker.row].shown :
              rows[worker.row].op # 0 => rows[worker.row].shown[k] \in {"delivery", "card"}
  BY <1>1 DEF OpenLineInv, ShownOnce
<1>5. /\ As(worker.row) \in Shows
      /\ rows[worker.row].op # 0 => As(worker.row) \in {"delivery", "card"}
  BY DEF As, Message, Shows
<1>6. QED
  BY <1>1, <1>2, <1>3, <1>4, <1>5

(* What has been shown, with one more.                                     *)
LEMMA ShownMore ==
  ASSUME NEW s \in Seq(Shows), NEW as \in Shows
  PROVE  /\ Len(Append(s, as)) = Len(s) + 1
         /\ \A k \in DOMAIN Append(s, as) : (k \in DOMAIN s /\ Append(s, as)[k] = s[k]) \/ Append(s, as)[k] = as
<1>1. IsSequence(s) /\ DOMAIN s = 1..Len(s) /\ Len(s) \in Nat
  BY IsASequence, Sequence
<1>2. /\ IsSequence(Append(s, as)) /\ Len(Append(s, as)) = Len(s) + 1
      /\ Append(s, as)[Len(s) + 1] = as /\ \A k \in 1..Len(s) : Append(s, as)[k] = s[k]
  BY ZenonT(40), <1>1, AppendSequence
<1>3. DOMAIN Append(s, as) = 1..(Len(s) + 1)
  BY <1>2, Sequence
<1>4. \A k \in 1..(Len(s) + 1) : k \in 1..Len(s) \/ k = Len(s) + 1
  BY <1>1
<1> DEFINE t == Append(s, as)
<1> HIDE DEF t
<1>5. \A k \in DOMAIN t : (k \in DOMAIN s /\ t[k] = s[k]) \/ t[k] = as
  BY <1>1, <1>2, <1>3, <1>4 DEF t
<1>6. QED
  BY <1>2, <1>5 DEF t

(* What the call leaves of the row: nothing new, or one message shown.     *)
LEMMA WorkerRow ==
  ASSUME OpenLineInv, worker.row # 0, NEW r,
         r = rows[worker.row] \/ r = Shown(rows[worker.row], As(worker.row))
  PROVE  /\ RowShape(r) /\ r.op = rows[worker.row].op /\ r.task = "queued"
         /\ r.attempts = rows[worker.row].attempts /\ r.attempts \in Nat /\ Len(r.shown) \in Nat
         /\ Len(r.shown) <= 1 + used.faults
         /\ \A k \in DOMAIN r.shown : r.op # 0 => r.shown[k] \in {"delivery", "card"}
<1> DEFINE q == rows[worker.row]
           as == As(worker.row)
<1>1. /\ RowShape(q) /\ q.task = "queued" /\ q.attempts \in Nat /\ Len(q.shown) \in Nat
      /\ Len(q.shown) <= used.faults /\ as \in Shows
      /\ \A k \in DOMAIN q.shown : q.op # 0 => q.shown[k] \in {"delivery", "card"}
      /\ q.op # 0 => as \in {"delivery", "card"}
  BY WorkerFacts
<1>2. used.faults \in Nat
  BY BindingNow
<1>3. r = q \/ r = Shown(q, as)
  OBVIOUS
<1> HIDE DEF q, as
<1>4. CASE r = q
  <2>1. Len(q.shown) <= 1 + used.faults
    BY <1>1, <1>2
  <2>2. QED
    BY <1>1, <1>4, <2>1 DEF q
<1>5. CASE r = Shown(q, as)
  <2>1. /\ RowShape(r) /\ r.op = q.op /\ r.task = "queued" /\ r.attempts = q.attempts
        /\ r.shown = Append(q.shown, as) /\ q.shown \in Seq(Shows)
    BY <1>1, <1>5, RowChanges
  <2>2. /\ Len(r.shown) = Len(q.shown) + 1
        /\ \A k \in DOMAIN r.shown : (k \in DOMAIN q.shown /\ r.shown[k] = q.shown[k]) \/ r.shown[k] = as
    BY ZenonT(40), <1>1, <2>1, ShownMore
  <2>3. Len(r.shown) \in Nat /\ Len(r.shown) <= 1 + used.faults
    BY <1>1, <1>2, <2>2
  <2>4. \A k \in DOMAIN r.shown : r.op # 0 => r.shown[k] \in {"delivery", "card"}
    BY <1>1, <2>1, <2>2
  <2>5. QED
    BY <1>1, <2>1, <2>3, <2>4 DEF q
<1>6. QED
  BY <1>3, <1>4, <1>5

(* The queued row stays, is settled with what it shows, or fails once more. *)
LEMMA RowOutcome ==
  ASSUME OpenLineInv, worker.row # 0, NEW r,
         r = rows[worker.row] \/ r = Shown(rows[worker.row], As(worker.row)),
         NEW x, x \in {r, Settled(r), FailOrRetry(r)},
         rows' = [rows EXCEPT ![worker.row] = x], worker' = Idle,
         UNCHANGED <<portal, events, handlers, line, active, savers>>,
         Counters', used'.faults \in Nat, used.faults <= used'.faults,
         x # Settled(r) => Len(r.shown) <= used'.faults,
         x = FailOrRetry(r) => used'.faults = used.faults + 1 \/ \E l \in Lines : Gone(l)
  PROVE  OpenLineInv'
<1>1. /\ RowShape(r) /\ r.op = rows[worker.row].op /\ r.task = "queued"
      /\ r.attempts = rows[worker.row].attempts /\ r.attempts \in Nat /\ Len(r.shown) \in Nat
      /\ Len(r.shown) <= 1 + used.faults
      /\ \A k \in DOMAIN r.shown : r.op # 0 => r.shown[k] \in {"delivery", "card"}
  BY WorkerRow
<1>2. used.faults \in Nat /\ (r.attempts > used.faults => \E l \in Lines : Gone(l))
  BY <1>1, WorkerFacts, BindingNow
<1>3. /\ RowShape(Settled(r)) /\ Settled(r).op = r.op /\ Settled(r).task = "done"
      /\ Settled(r).attempts = r.attempts /\ Settled(r).shown = r.shown
      /\ RowShape(FailOrRetry(r)) /\ FailOrRetry(r).op = r.op /\ FailOrRetry(r).shown = r.shown
      /\ FailOrRetry(r).attempts = r.attempts + 1
      /\ FailOrRetry(r).task = IF r.attempts + 1 >= MaxAttempts THEN "failed" ELSE r.task
  <2>1. "card" \in Shows
    BY DEF Shows
  <2>2. QED
    BY <1>1, <2>1, RowChanges
<1>4. RowShape(x) /\ x.op = rows[worker.row].op /\ x.shown = r.shown
  BY <1>1, <1>3
<1>5. Len(x.shown) <= 1 + used'.faults
  BY <1>1, <1>2, <1>4
<1>6. x.task = "queued" => Len(x.shown) <= used'.faults
  BY <1>3, <1>4
<1>7. x.task = "failed" => x.attempts >= MaxAttempts
  BY <1>1, <1>3, OpenLineAssumption
<1>8. x.attempts > used'.faults => \E l \in Lines : Gone(l)
  <2>1. CASE x = FailOrRetry(r)
    BY <1>1, <1>2, <1>3, <2>1
  <2>2. CASE x.attempts = r.attempts
    BY <1>1, <1>2, <2>2
  <2>3. QED
    BY <1>3, <2>1, <2>2
<1>9. \A k \in DOMAIN x.shown : x.op # 0 => x.shown[k] \in {"delivery", "card"}
  BY <1>1, <1>4
<1>10. TasksCounted' /\ ShownOnce' /\ OpsKept /\ OpsApart'
  BY <1>4, <1>5, <1>6, <1>7, <1>8, <1>9, RowReplaced
<1>11. DeliveriesCover' /\ \A e \in DOMAIN events' : Complete(e)'
  BY <1>10, WebhookRests
<1>12. Bound
  BY BindingRests
<1>13. worker'.line \in LineOrNone
  BY DEF Idle, LineOrNone
<1>14. QED
  BY <1>10, <1>11, <1>12, <1>13, Assemble DEF Bound

LEMMA SendInv ==
  ASSUME OpenLineInv, Send
  PROVE  OpenLineInv'
<1> DEFINE q == rows[worker.row]
<1>1. worker.row # 0 /\ worker' = Idle /\ UNCHANGED <<portal, events, handlers, line, active, savers, used>>
  BY DEF Send, binding
<1>2. Counters' /\ used'.faults \in Nat /\ used.faults <= used'.faults
  BY <1>1, UsedStays
<1>3. Len(q.shown) <= used'.faults
  BY <1>1, WorkerFacts
<1>4. \/ rows' = [rows EXCEPT ![worker.row] = q]
      \/ rows' = [rows EXCEPT ![worker.row] = Settled(q)]
      \/ rows' = [rows EXCEPT ![worker.row] = Settled(Shown(q, As(worker.row)))]
      \/ /\ rows' = [rows EXCEPT ![worker.row] = FailOrRetry(q)]
         /\ worker.line # 0 /\ portal[worker.line] = "deleted"
  BY DEF Send, Waits, Works
<1>5. CASE rows' = [rows EXCEPT ![worker.row] = q] \/ rows' = [rows EXCEPT ![worker.row] = Settled(q)]
  <2>1. PICK x \in {q, Settled(q)} : rows' = [rows EXCEPT ![worker.row] = x]
    BY <1>5
  <2>2. x # FailOrRetry(q)
    <3>1. RowShape(q) /\ q.attempts \in Nat /\ "card" \in Shows
      BY <1>1, WorkerFacts DEF Shows
    <3>2. FailOrRetry(q).attempts = q.attempts + 1 /\ Settled(q).attempts = q.attempts
      BY <3>1, RowChanges
    <3>3. QED
      BY <2>1, <3>1, <3>2
  <2>3. QED
    BY <1>1, <1>2, <1>3, <2>1, <2>2, RowOutcome
<1>6. CASE rows' = [rows EXCEPT ![worker.row] = Settled(Shown(q, As(worker.row)))]
  <2> DEFINE r == Shown(q, As(worker.row))
  <2>1. RowShape(r) /\ r.attempts \in Nat /\ "card" \in Shows
    BY <1>1, WorkerRow DEF Shows
  <2>2. Settled(r) # FailOrRetry(r)
    BY <2>1, RowChanges
  <2>3. rows' = [rows EXCEPT ![worker.row] = Settled(r)]
    BY <1>6
  <2> HIDE DEF r
  <2>4. QED
    BY <1>1, <1>2, <2>2, <2>3, RowOutcome DEF r
<1>7. CASE /\ rows' = [rows EXCEPT ![worker.row] = FailOrRetry(q)]
           /\ worker.line # 0 /\ portal[worker.line] = "deleted"
  <2>1. \E l \in Lines : Gone(l)
    BY <1>7, BindingNow DEF LineOrNone, Gone
  <2>2. QED
    BY <1>1, <1>2, <1>3, <1>7, <2>1, RowOutcome
<1>8. QED
  BY <1>4, <1>5, <1>6, <1>7

LEMMA SendFailsInv ==
  ASSUME OpenLineInv, SendFails
  PROVE  OpenLineInv'
<1> DEFINE q == rows[worker.row]
<1>1. /\ worker.row # 0 /\ worker' = Idle /\ Use("faults")
      /\ UNCHANGED <<portal, events, handlers, line, active, savers>>
  BY DEF SendFails, binding
<1>2. /\ Counters' /\ used'.faults \in Nat /\ used.faults <= used'.faults
      /\ used'.faults = used.faults + 1 /\ used.faults \in Nat
  BY <1>1, UsedGrows, UseCounts DEF Budget
<1>3. PICK r : /\ r = q \/ r = Shown(q, As(worker.row))
               /\ \/ rows' = [rows EXCEPT ![worker.row] = r]
                  \/ rows' = [rows EXCEPT ![worker.row] = FailOrRetry(r)]
  BY DEF SendFails
<1>4. Len(r.shown) <= used'.faults
  <2>1. Len(r.shown) <= 1 + used.faults /\ Len(r.shown) \in Nat
    BY <1>1, <1>3, WorkerRow
  <2>2. QED
    BY <1>2, <2>1
<1>5. PICK x \in {r, FailOrRetry(r)} : rows' = [rows EXCEPT ![worker.row] = x]
  BY <1>3
<1>6. QED
  BY <1>1, <1>2, <1>3, <1>4, <1>5, RowOutcome

LEMMA InitInv == ASSUME Init PROVE OpenLineInv
<1>1. PICK l \in Lines : line = [ours |-> l, other |-> 0]
  BY DEF Init
<1>2. line \in [Accounts -> LineOrNone] /\ active \in [Accounts -> BOOLEAN]
  <2>1. l \in LineOrNone /\ 0 \in LineOrNone
    BY DEF LineOrNone
  <2>2. line \in [Accounts -> LineOrNone]
    BY <1>1, <2>1 DEF Accounts
  <2>3. active = [ours |-> TRUE, other |-> FALSE]
    BY DEF Init
  <2> DEFINE on == TRUE
             off == FALSE
  <2>4. active \in [Accounts -> BOOLEAN]
    <3>1. on \in BOOLEAN /\ off \in BOOLEAN /\ active = [ours |-> on, other |-> off]
      BY <2>3
    <3> HIDE DEF on, off
    <3>2. QED
      BY <3>1 DEF Accounts
  <2>5. QED
    BY <2>2, <2>4
<1>3. portal \in [Lines -> {"active", "off", "deleted"}]
  BY DEF Init
<1>4. NoSave \in SaverRecord /\ NoSave.at = "idle"
  BY DEF NoSave, SaverRecord, SaverAt, Accounts, LineOrNone
<1>5. savers \in [Savers -> SaverRecord] /\ \A s \in Savers : savers[s].at = "idle"
  BY <1>4 DEF Init
<1>6. worker.line \in LineOrNone /\ worker.row = 0
  BY DEF Init, Idle, LineOrNone
<1>7. used \in [saves : Nat, portal : Nat, deliveries : Nat, faults : Nat]
  BY DEF Init
<1>8. BindingTypes
  BY <1>2, <1>3, <1>5, <1>6, <1>7 DEF BindingTypes, SaverRecord
<1>9. events = <<>> /\ rows = <<>> /\ Len(events) = 0 /\ Len(rows) = 0 /\ DOMAIN events = {} /\ DOMAIN rows = {}
  BY DEF Init
<1>10. IsSequence(events) /\ IsSequence(rows)
  BY <1>9 DEF IsSequence
<1>11. NoEvent \in [at : HandlerAt, event : Nat, pos : Nat, acc : Accounts \union {"none"}] /\ NoEvent.at = "idle"
  BY DEF NoEvent, HandlerAt
<1>12. DeliveriesCover
  BY <1>9, <1>10, <1>11 DEF Init, DeliveriesCover, EventShape, HandlerCovers
<1>13. TasksCounted
  BY <1>6, <1>9, <1>10 DEF TasksCounted
<1>14. OperatorOnce /\ ShownOnce
  BY <1>9 DEF OperatorOnce, ShownOnce
<1>15. QED
  BY <1>8, <1>12, <1>13, <1>14 DEF OpenLineInv

LEMMA StutterInv == ASSUME OpenLineInv, UNCHANGED vars PROVE OpenLineInv'
<1>1. UNCHANGED <<line, active, portal, savers, used, rows, worker, events, handlers>>
  BY DEF vars, binding
<1>2. Bound
  BY <1>1, UsedStays, BindingRests
<1>3. QED
  BY <1>1, <1>2, SliderStep

LEMMA NextInv == ASSUME OpenLineInv, [Next]_vars PROVE OpenLineInv'
<1>1. CASE \E s \in Savers : Saver(s)
  BY <1>1, SaverInv
<1>2. CASE \E l \in Lines, state \in {"off", "deleted"} : PortalChanges(l, state)
  BY <1>2, PortalChangesBinds, SliderStep DEF PortalChanges
<1>3. CASE \E l \in Lines, n \in Sizes : OperatorWrites(l, n)
  <2>1. PICK l \in Lines, n \in Sizes : OperatorWrites(l, n)
    BY <1>3
  <2>2. Bound
    BY <2>1, UsedStays, BindingRests DEF OperatorWrites, binding
  <2>3. QED
    BY <2>1, <2>2, OperatorWritesCovers, WebhookStep DEF OperatorWrites
<1>4. CASE \E n \in news : LineGone(n)
  BY <1>4, LineGoneBinds, SliderStep DEF LineGone
<1>5. CASE \E h \in Handlers : Handler(h) \/ HandlerFails(h) \/ \E e \in DOMAIN events : Deliver(h, e)
  BY <1>5, HandlerInv
<1>6. CASE ClientWrites \/ PanelSends
  BY <1>6, MessageInv
<1>7. CASE Worker
  BY <1>7, SendInv, TakeInv DEF Worker
<1>8. CASE SendFails
  BY <1>8, SendFailsInv
<1>9. CASE UNCHANGED vars
  BY <1>9, StutterInv
<1>10. QED
  BY <1>1, <1>2, <1>3, <1>4, <1>5, <1>6, <1>7, <1>8, <1>9 DEF Next

-----------------------------------------------------------------------------

(* The invariant of the open line (openline.py, placement.py and           *)
(* crm_sync_worker.py): deliveries stand at a message of an event that     *)
(* exists and have left all before it, tasks are counted.                  *)
THEOREM OpenLineInvariant == Spec => []OpenLineInv
<1>1. Init => OpenLineInv
  BY InitInv
<1>2. OpenLineInv /\ [Next]_vars => OpenLineInv'
  BY NextInv
<1>3. QED
  BY <1>1, <1>2, PTL DEF Spec

(* However many deliveries of an event overlap, are repeated or stop half  *)
(* way (openline.py:180-345): a message of the operator has one row, so    *)
(* the outbox sends it once, and an event answered as stored has left a    *)
(* row for every message in it.                                            *)
THEOREM OperatorIsSentOnce == Spec => []OperatorOnce
<1>1. OpenLineInv => OperatorOnce
  BY DEF OpenLineInv
<1>2. QED
  BY <1>1, OpenLineInvariant, PTL

(* However the binding changes while the worker holds a task               *)
(* (crm_sync_worker.py): what it shows a second time costs a fault, and    *)
(* the operator is never shown his own words as the client's.              *)
THEOREM OneShownPerFault == Spec => []ShownOnce
<1>1. OpenLineInv => ShownOnce
  BY DEF OpenLineInv
<1>2. QED
  BY <1>1, OpenLineInvariant, PTL

(* _fail_or_retry counts faults and lines that were deleted, never the     *)
(* waits for a line that is off (crm_sync_worker.py).                      *)
THEOREM WaitsCostNothing == Spec => []WaitingIsFree
<1>1. ASSUME OpenLineInv PROVE WaitingIsFree
  <2>1. ASSUME NEW i \in DOMAIN rows, rows[i].task = "failed", ~ \E l \in Lines : portal[l] = "deleted"
        PROVE  used.faults >= MaxAttempts
    <3>1. i \in 1..Len(rows)
      BY <1>1, Sequence DEF OpenLineInv, TasksCounted
    <3>2. RowShape(rows[i]) /\ rows[i].attempts >= MaxAttempts /\ ~(rows[i].attempts > used.faults)
      BY <1>1, <2>1, <3>1 DEF OpenLineInv, TasksCounted
    <3>3. rows[i].attempts \in Nat /\ used.faults \in Nat
      BY <1>1, <3>2, BindingNow DEF RowShape
    <3>4. QED
      BY <3>2, <3>3, OpenLineAssumption
  <2>2. QED
    BY <2>1 DEF WaitingIsFree
<1>2. QED
  BY <1>1, OpenLineInvariant, PTL
=============================================================================
