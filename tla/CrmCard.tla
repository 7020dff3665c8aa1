-------------------------------- MODULE CrmCard --------------------------------
(***************************************************************************)
(* The card of a client in Bitrix24: the worker of the CRM queue           *)
(* (bridge/crm_sync_worker.py) takes the messages of one dialog to the     *)
(* portal (b24/sync.py, b24/crm.py): it finds the client or makes a        *)
(* contact with a deal, or a lead, writes a comment and keeps the link in  *)
(* the dialog.                                                             *)
(*                                                                         *)
(* Every REST call is a step; it may fail, or take effect and lose its     *)
(* answer; the process may die at any step.  People work in the portal     *)
(* between the steps, and the links have a second writer, the worker of    *)
(* initiations (bridge/initiation_worker.py).                              *)
(***************************************************************************)
EXTENDS Naturals, Sequences, FiniteSets

CONSTANTS
  MaxTasks,       (* bound on messages                                     *)
  MaxEdits,       (* bound on what people change in the portal and panel   *)
  MaxFaults,      (* bound on faults                                       *)
  MaxAttempts     (* max_attempts                                          *)

ASSUME CrmCardAssumption ==
  {MaxTasks, MaxEdits, MaxFaults} \subseteq Nat /\ MaxAttempts \in Nat \ {0}

VARIABLES
  cards,          (* the portal: [kind, alive, open, owner, ours]          *)
  comments,       (* the timeline: [card, msg]                             *)
  phone,          (* the telephone of the client is known                  *)
  crmMode, timelineMode,                    (* app_settings                *)
  contact,        (* crm_contact_id, 0: none                               *)
  entity,         (* crm_entity_type and crm_deal_id                       *)
  tasks,          (* the CRM queue: [dir, status, attempts]                *)
  worker,         (* the task under way and the locals of process_inbound; *)
                  (* stale: the links have been changed since it read them *)
  edits, faults

portal   == <<cards, comments>>
settings == <<phone, crmMode, timelineMode>>
links    == <<contact, entity>>
vars     == <<portal, settings, links, tasks, worker, edits, faults>>

None == [kind |-> "none", id |-> 0]
Idle == [at |-> "idle", task |-> 0, mode |-> "deal", contact |-> 0,
         found |-> None, new |-> FALSE, stale |-> FALSE]

Card(kind, owner, ours) ==
  [kind |-> kind, alive |-> TRUE, open |-> TRUE, owner |-> owner, ours |-> ours]

Init ==             (* the client may be known to the portal               *)
  /\ cards \in {<<>>, <<Card("contact", 0, FALSE)>>}
  /\ comments = <<>> /\ phone \in BOOLEAN
  /\ crmMode \in {"deal", "lead"} /\ timelineMode \in {"all", "first", "none"}
  /\ contact = 0 /\ entity = None /\ tasks = <<>> /\ worker = Idle
  /\ edits = 0 /\ faults = 0

At(a)    == worker.at = a
Goto(a)  == worker' = [worker EXCEPT !.at = a]
Alive(c) == c \in DOMAIN cards /\ cards[c].alive

-----------------------------------------------------------------------------
(* The portal.                                                             *)

Edit == edits < MaxEdits /\ edits' = edits + 1

Delete(c) ==
  /\ Edit /\ cards[c].alive
  /\ cards' = [cards EXCEPT ![c].alive = FALSE]
  /\ UNCHANGED <<comments, settings, links, tasks, worker, faults>>

CloseDeal(c) ==
  /\ Edit /\ cards[c].kind = "deal" /\ cards[c].open
  /\ cards' = [cards EXCEPT ![c].open = FALSE]
  /\ UNCHANGED <<comments, settings, links, tasks, worker, faults>>

(* A lead is converted: it gets a contact, and a deal if the manager wants one. *)
Convert(c) ==
  /\ Edit /\ cards[c].kind = "lead" /\ cards[c].alive /\ cards[c].open
  /\ LET n == Len(cards) + 1
         converted == [cards EXCEPT ![c].open = FALSE, ![c].owner = n]
         owned == Append(converted, Card("contact", 0, FALSE))
     IN cards' \in {owned, Append(owned, Card("deal", n, FALSE))}
  /\ UNCHANGED <<comments, settings, links, tasks, worker, faults>>

(* A card of the client made by hand.                                      *)
AddCard(kind) ==
  /\ Edit
  /\ \E owner \in {0} \union {c \in DOMAIN cards : kind = "deal" /\ cards[c].kind = "contact"} :
       cards' = Append(cards, Card(kind, owner, FALSE))
  /\ UNCHANGED <<comments, settings, links, tasks, worker, faults>>

SwitchMode ==       (* set_crm_mode                                        *)
  /\ Edit
  /\ crmMode' = IF crmMode = "deal" THEN "lead" ELSE "deal"
  /\ UNCHANGED <<portal, phone, timelineMode, links, tasks, worker, faults>>

(* What the searches by telephone find.                                    *)
ByPhone(kind) ==
  {c \in DOMAIN cards : phone /\ cards[c].alive /\ cards[c].kind = kind}
OpenDeals(owner) ==
  {c \in DOMAIN cards : /\ cards[c].kind = "deal" /\ cards[c].owner = owner
                        /\ cards[c].alive /\ cards[c].open}
Newest(s) == CHOOSE c \in s : \A d \in s : d <= c

-----------------------------------------------------------------------------
(* The queue.                                                              *)

Enqueue(dir) ==
  /\ Len(tasks) < MaxTasks
  /\ tasks' = Append(tasks, [dir |-> dir, status |-> "queued", attempts |-> 0])
  /\ UNCHANGED <<portal, settings, links, worker, edits, faults>>

Due(i) == tasks[i].status \in {"queued", "retrying"}

(* Mutant: the mode of the panel goes before the card the dialog has.      *)
KindByMode(mode) == mode

Kind(mode) == IF entity.kind = "none" THEN mode ELSE entity.kind

(* collect reads the links; what is looked up first depends on them.       *)
Take(i) ==
  /\ At("idle") /\ Due(i)
  /\ worker' = [at |-> IF tasks[i].dir = "out" THEN "comment"
                       ELSE IF Kind(crmMode) = "lead"
                         THEN IF entity.id # 0 THEN "getLead" ELSE "findLead"
                       ELSE IF contact # 0 THEN "getContact" ELSE "findContact",
                task |-> i, mode |-> crmMode, contact |-> contact,
                found |-> entity, new |-> FALSE, stale |-> FALSE]
  /\ UNCHANGED <<portal, settings, links, tasks, edits, faults>>

(* The task in work writes the links when it is done with its message.     *)
InWork == worker.at \notin {"idle", "done"} /\ tasks[worker.task].dir = "in"

(* The manager writes first from the card c: a deal or lead becomes the    *)
(* card of the dialog, a contact that of the client, whatever there was.   *)
(* The command holds the id only; the card may be gone when it is applied. *)
Initiate(c) ==
  /\ Edit
  /\ IF cards[c].kind = "contact" THEN contact' = c /\ UNCHANGED entity
     ELSE entity' = [kind |-> cards[c].kind, id |-> c] /\ UNCHANGED contact
  /\ worker' = [worker EXCEPT !.stale = InWork]
  /\ UNCHANGED <<portal, settings, tasks, faults>>

FailOrRetry ==      (* _fail_or_retry                                      *)
  LET t == tasks[worker.task]
  IN /\ tasks' = [tasks EXCEPT ![worker.task] =
            IF t.attempts + 1 >= MaxAttempts THEN [t EXCEPT !.status = "failed",
                                                            !.attempts = @ + 1]
            ELSE [t EXCEPT !.status = "retrying", !.attempts = @ + 1]]
     /\ worker' = Idle

-----------------------------------------------------------------------------
(* Resolving the card.                                                     *)

Resolved(kind, id, owner, new) ==
  worker' = [worker EXCEPT !.at = "comment", !.new = new, !.contact = owner,
                           !.found = [kind |-> kind, id |-> id]]

Read == UNCHANGED <<portal, settings, links, tasks, edits>>

NewClient == Goto(IF worker.mode = "lead" THEN "newLead" ELSE "newContact")

(* The deal of a contact that was found: the one the dialog has, or an open one. *)
KnownContact(c) ==
  IF worker.found.id # 0 THEN Resolved("deal", worker.found.id, c, FALSE)
  ELSE worker' = [worker EXCEPT !.at = "findDeal", !.contact = c]

(* Any failure of the call counts as a contact that is gone.               *)
GetContact ==
  /\ At("getContact")
  /\ IF Alive(worker.contact) THEN KnownContact(worker.contact) ELSE Goto("findContact")
  /\ Read /\ UNCHANGED faults

FindContact ==
  /\ At("findContact")
  /\ IF ByPhone("contact") = {} THEN NewClient
     ELSE \E c \in ByPhone("contact") : KnownContact(c)
  /\ Read /\ UNCHANGED faults

FindDeal ==
  /\ At("findDeal")
  /\ IF OpenDeals(worker.contact) = {} THEN Resolved("none", 0, worker.contact, FALSE)
     ELSE Resolved("deal", Newest(OpenDeals(worker.contact)), worker.contact, FALSE)
  /\ Read /\ UNCHANGED faults

GetLead ==
  /\ At("getLead")
  /\ LET l == worker.found.id
     IN IF ~Alive(l) THEN Goto("findLead")
        ELSE IF cards[l].open THEN Resolved("lead", l, 0, FALSE)
        ELSE worker' = [worker EXCEPT !.at = "rebind", !.contact = cards[l].owner]
  /\ Read /\ UNCHANGED faults

(* The lead was converted: the dialog goes to the open deal of its contact, *)
(* which the telephone may tell, or stays with the lead.                    *)
Rebind ==
  /\ At("rebind")
  /\ \E c \in IF worker.contact = 0 /\ ByPhone("contact") # {}
            THEN ByPhone("contact") ELSE {worker.contact} :
       IF c = 0 \/ OpenDeals(c) = {} THEN Resolved("lead", worker.found.id, c, FALSE)
       ELSE Resolved("deal", Newest(OpenDeals(c)), c, FALSE)
  /\ Read /\ UNCHANGED faults

FindLead ==
  /\ At("findLead")
  /\ LET leads == {c \in ByPhone("lead") : cards[c].open}
     IN IF leads = {} THEN NewClient ELSE Resolved("lead", Newest(leads), 0, FALSE)
  /\ Read /\ UNCHANGED faults

(* Every creation of a card; a deal belongs to the contact made before it. *)
Create ==
  /\ worker.at \in {"newLead", "newContact", "newDeal"}
  /\ LET n == Len(cards) + 1
     IN CASE At("newLead") ->
               cards' = Append(cards, Card("lead", 0, TRUE)) /\ Resolved("lead", n, 0, TRUE)
          [] At("newContact") ->
               /\ cards' = Append(cards, Card("contact", 0, TRUE))
               /\ worker' = [worker EXCEPT !.at = "newDeal", !.contact = n]
          [] At("newDeal") ->
               /\ cards' = Append(cards, Card("deal", worker.contact, TRUE))
               /\ Resolved("deal", n, worker.contact, TRUE)
  /\ UNCHANGED <<comments, settings, links, tasks, edits, faults>>

-----------------------------------------------------------------------------
(* The comment and the end of the task.                                    *)

Target == IF worker.found.id # 0 THEN worker.found.id ELSE worker.contact

(* Mutant: a message sent is written in every mode.                        *)
WritesAlways ==
  IF tasks[worker.task].dir = "out" THEN Target # 0
  ELSE timelineMode = "all" \/ (timelineMode = "first" /\ worker.new)

Writes ==
  IF tasks[worker.task].dir = "out" THEN timelineMode = "all" /\ Target # 0
  ELSE timelineMode = "all" \/ (timelineMode = "first" /\ worker.new)

Comment ==
  /\ At("comment")
  /\ IF ~Writes THEN Goto("apply") /\ UNCHANGED <<comments, tasks>>
     ELSE IF Alive(Target)
       THEN /\ comments' = Append(comments, [card |-> Target, msg |-> worker.task])
            /\ Goto("apply") /\ UNCHANGED tasks
     ELSE FailOrRetry /\ UNCHANGED comments
  /\ UNCHANGED <<cards, settings, links, edits, faults>>

(* Mutant: the link to the contact is not kept.                            *)
ApplyEntityOnly ==
  /\ At("apply")
  /\ entity' = IF tasks[worker.task].dir = "in" /\ worker.found.id # 0 THEN worker.found ELSE entity
  /\ worker' = [worker EXCEPT !.at = "done", !.stale = FALSE]
  /\ UNCHANGED <<portal, settings, contact, tasks, edits, faults>>

(* apply_inbound_result: what was not found leaves the link alone.         *)
Apply ==
  /\ At("apply")
  /\ IF tasks[worker.task].dir = "out" THEN UNCHANGED links
     ELSE /\ entity' = IF worker.found.id # 0 THEN worker.found ELSE entity
          /\ contact' = IF worker.contact # 0 THEN worker.contact ELSE contact
  /\ worker' = [worker EXCEPT !.at = "done", !.stale = FALSE]
  /\ UNCHANGED <<portal, settings, tasks, edits, faults>>

Done ==
  /\ At("done")
  /\ tasks' = [tasks EXCEPT ![worker.task].status = "done"]
  /\ worker' = Idle
  /\ UNCHANGED <<portal, settings, links, edits, faults>>

-----------------------------------------------------------------------------
(* Faults.                                                                 *)

Fault == faults < MaxFaults /\ faults' = faults + 1

(* The call, or the commit, fails.  get_contact and get_lead answer that the *)
(* card is gone, whatever has failed.                                        *)
CallFails ==
  /\ Fault /\ ~At("idle")
  /\ CASE At("getContact") -> Goto("findContact") /\ UNCHANGED tasks
       [] At("getLead")    -> Goto("findLead") /\ UNCHANGED tasks
       [] At("done")        -> worker' = Idle /\ UNCHANGED tasks
       [] OTHER             -> FailOrRetry
  /\ UNCHANGED <<portal, settings, links, edits>>

(* The portal did it, the answer is lost.                                  *)
AnswerLost ==
  /\ Fault /\ worker.at \in {"newLead", "newContact", "newDeal", "comment"}
  /\ At("comment") => Writes /\ Alive(Target)
  /\ IF At("comment")
       THEN /\ comments' = Append(comments, [card |-> Target, msg |-> worker.task])
            /\ UNCHANGED cards
     ELSE /\ cards' = Append(cards, CASE At("newLead") -> Card("lead", 0, TRUE)
                                      [] At("newContact") -> Card("contact", 0, TRUE)
                                      [] OTHER -> Card("deal", worker.contact, TRUE))
          /\ UNCHANGED comments
  /\ FailOrRetry
  /\ UNCHANGED <<settings, links, edits>>

Crash ==
  /\ Fault /\ ~At("idle") /\ worker' = Idle
  /\ UNCHANGED <<portal, settings, links, tasks, edits>>

-----------------------------------------------------------------------------

Resolve == GetContact \/ FindContact \/ FindDeal \/ GetLead \/ Rebind \/ FindLead

Handle == Resolve \/ Create \/ Comment \/ Apply \/ Done

People ==
  \/ SwitchMode
  \/ \E kind \in {"contact", "deal", "lead"} : AddCard(kind)
  \/ \E c \in DOMAIN cards : Delete(c) \/ CloseDeal(c) \/ Convert(c) \/ Initiate(c)

Next ==
  \/ \E dir \in {"in", "out"} : Enqueue(dir)
  \/ \E i \in DOMAIN tasks : Take(i)
  \/ Handle \/ People
  \/ CallFails \/ AnswerLost \/ Crash

Spec == Init /\ [][Next]_vars

-----------------------------------------------------------------------------
(* Properties.                                                             *)

Ours(kind) == {c \in DOMAIN cards : cards[c].kind = kind /\ cards[c].ours}
Of(i)      == {k \in DOMAIN comments : comments[k].msg = i}

(* However many messages and retries there are, the client gets one card   *)
(* of ours; another one costs a fault, or a change people made: "Живая     *)
(* привязка диалога авторитетнее режима" and the search by telephone.      *)
CardsAreAccounted ==
  /\ Cardinality(Ours("contact") \union Ours("lead")) <= 1 + faults + edits
  /\ Cardinality(Ours("deal")) <= Cardinality(Ours("contact")) + faults

(* The timeline follows the mode of the administrator: every message the   *)
(* client wrote is there when its task is done (all), no message sent is   *)
(* (first), nothing is (none); each comment too many cost a fault.         *)
WrittenOnce ==
  /\ Len(comments) <= Len(tasks) + faults
  /\ \A i \in DOMAIN tasks :
       /\ timelineMode = "none" => Of(i) = {}
       /\ timelineMode = "first" /\ tasks[i].dir = "out" => Of(i) = {}
       /\ timelineMode = "all" /\ tasks[i].dir = "in" /\ tasks[i].status = "done" => Of(i) # {}
  /\ timelineMode = "first" => Len(comments) <= 1 + faults + edits

(* The dialog keeps its card.  It goes to another one only when a manager  *)
(* writes first from there, "интент менеджера авторитетен"; when people    *)
(* deleted the card or the contact, or converted the lead; when the portal *)
(* failed to show it; when a deal has no contact here, which initiations   *)
(* leave so; or when the links were changed under the task in work.        *)
DialogKeepsCard ==
  [][entity.id # 0 /\ entity' # entity =>
       \/ \E c \in DOMAIN cards : Initiate(c)
       \/ ~Alive(entity.id) \/ faults > 0 \/ worker.stale
       \/ entity.kind = "lead" /\ ~cards[entity.id].open
       \/ entity.kind = "deal" /\ ~Alive(contact)]_vars

-----------------------------------------------------------------------------
(* The inductive invariant behind them.                                    *)

Looking  == {"getContact", "findContact", "findDeal", "getLead", "rebind", "findLead",
             "newLead", "newContact", "newDeal"}
Link     == [kind : {"none", "deal", "lead"}, id : Nat]
CardType == [kind : {"contact", "deal", "lead"}, alive : BOOLEAN, open : BOOLEAN,
             owner : Nat, ours : BOOLEAN]
OrNone(c)     == c = 0 \/ c \in DOMAIN cards
LinkOrNone(e) == e \in Link /\ OrNone(e.id) /\ (e.kind = "none" <=> e.id = 0)

CardTypes ==
  /\ cards \in Seq(CardType) /\ comments \in Seq([card : Nat, msg : Nat])
  /\ tasks \in Seq([dir : {"in", "out"}, status : {"queued", "retrying", "done", "failed"}, attempts : Nat])
  /\ crmMode \in {"deal", "lead"} /\ timelineMode \in {"all", "first", "none"}
  /\ contact \in Nat /\ entity \in Link
  /\ worker \in [at : {"idle", "comment", "apply", "done"} \union Looking, task : Nat,
                 mode : {"deal", "lead"}, contact : Nat, found : Link, new : BOOLEAN, stale : BOOLEAN]
  /\ edits \in Nat /\ faults \in Nat

LinksHold ==        (* links lead to cards                                 *)
  /\ LinkOrNone(entity) /\ LinkOrNone(worker.found) /\ OrNone(contact) /\ OrNone(worker.contact)
  /\ \A c \in DOMAIN cards : OrNone(cards[c].owner)

(* Until the card is resolved the worker holds the links of the dialog,    *)
(* unless they have been changed meanwhile.                                *)
WorkerHolds ==
  /\ ~At("idle") => worker.task \in DOMAIN tasks /\ Due(worker.task)
  /\ worker.stale => InWork
  /\ worker.at \in Looking =>
       /\ tasks[worker.task].dir = "in" /\ ~worker.new
       /\ ~worker.stale => worker.found = entity
  /\ worker.at \in {"getContact", "findContact"} =>
       worker.found.kind # "lead" /\ (~worker.stale => worker.contact = contact)
  /\ worker.at \in {"getLead", "rebind"} => worker.found.kind = "lead"
  /\ At("findLead") => worker.found.kind # "deal"
  /\ At("findDeal") => worker.found.kind = "none"
  /\ worker.at \in {"getContact", "findDeal", "newDeal"} => worker.contact # 0
  /\ worker.at \in {"comment", "apply"} /\ InWork /\ worker.found.kind # "lead" =>
       /\ worker.contact # 0
       /\ worker.found.kind = "none" /\ ~worker.stale => entity = None

(* Where the dialog has its card, or will have it when the worker is done, *)
(* and no message makes another one.                                       *)
Keeps(e, c) ==
  IF (IF e.kind = "none" THEN crmMode ELSE e.kind) = "lead" THEN Alive(e.id) /\ cards[e.id].open
  ELSE Alive(c) /\ (e.id # 0 => Alive(e.id))
HasCard ==
  \/ ~InWork /\ Keeps(entity, contact)
  \/ /\ InWork /\ worker.at \in {"getContact", "getLead", "findDeal", "comment", "apply"}
     /\ Keeps(worker.found, worker.contact)
  \/ At("newDeal") /\ Alive(worker.contact)

Credit   == IF HasCard THEN 1 ELSE 0
Debt     == IF worker.stale THEN 1 ELSE 0
DealOwed == IF At("newDeal") THEN 1 ELSE 0
Clients  == Ours("contact") \union Ours("lead")
CardsCounted ==
  /\ Cardinality(Clients) + Debt <= faults + edits + Credit
  /\ Cardinality(Ours("deal")) + DealOwed <= Cardinality(Ours("contact")) + faults

(* The tasks whose comment is behind them; the comment that is to tell of  *)
(* a new card.                                                             *)
Passed == {i \in DOMAIN tasks : tasks[i].status = "done" \/ (worker.at \in {"apply", "done"} /\ i = worker.task)}
CommentOwed == IF At("newDeal") \/ (At("comment") /\ worker.new) THEN 1 ELSE 0
CommentsCounted ==
  /\ Len(comments) <= Cardinality(Passed) + faults
  /\ timelineMode = "first" =>
       Len(comments) + CommentOwed <= Cardinality(Clients)
  /\ \A k \in DOMAIN comments : comments[k].msg \in DOMAIN tasks
  /\ \A i \in DOMAIN tasks :
       /\ timelineMode = "none" => Of(i) = {}
       /\ timelineMode = "first" /\ tasks[i].dir = "out" => Of(i) = {}
       /\ timelineMode = "all" /\ tasks[i].dir = "in" /\ i \in Passed => Of(i) # {}

(* The worker leaves the card of the dialog only with an excuse.           *)
Excused ==
  \/ ~Alive(entity.id) \/ faults > 0
  \/ entity.kind = "lead" /\ ~cards[entity.id].open
  \/ entity.kind = "deal" /\ ~Alive(contact)
LeavesExcused ==
  /\ entity.id # 0 /\ InWork /\ ~worker.stale
  /\ \/ worker.at \in Looking \ {"getContact", "findDeal", "getLead"}
     \/ worker.at \in {"comment", "apply"} /\ worker.found # entity
  => Excused

CrmCardInv == CardTypes /\ LinksHold /\ WorkerHolds /\ CardsCounted /\ CommentsCounted /\ LeavesExcused
=============================================================================
