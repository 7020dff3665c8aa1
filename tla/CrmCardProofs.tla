---------------------------- MODULE CrmCardProofs ----------------------------
(***************************************************************************)
(* Proofs about CrmCard, for any number of messages, changes by people,    *)
(* faults and attempts.                                                    *)
(***************************************************************************)
EXTENDS CrmCard, Integers, FiniteSetTheorems, SequenceTheorems, WellFoundedInduction, TLAPS

TaskType == [dir : {"in", "out"}, status : {"queued", "retrying", "done", "failed"}, attempts : Nat]
CommentType == [card : Nat, msg : Nat]
WorkerType ==
  [at : {"idle", "comment", "apply", "done"} \union Looking, task : Nat,
   mode : {"deal", "lead"}, contact : Nat, found : Link, new : BOOLEAN, stale : BOOLEAN]

LEMMA SeqFacts ==
  ASSUME NEW S, NEW s \in Seq(S)
  PROVE  /\ DOMAIN s = 1..Len(s) /\ Len(s) \in Nat
         /\ \A i \in DOMAIN s : s[i] \in S /\ i \in Nat /\ i # 0
OBVIOUS

LEMMA AppendFacts ==
  ASSUME NEW S, NEW s \in Seq(S), NEW x \in S
  PROVE  /\ Append(s, x) \in Seq(S) /\ Len(Append(s, x)) = Len(s) + 1
         /\ Append(s, x)[Len(s) + 1] = x
         /\ \A i \in DOMAIN s : i \in DOMAIN Append(s, x) /\ Append(s, x)[i] = s[i]
         /\ \A i \in DOMAIN Append(s, x) : i \in DOMAIN s \/ i = Len(s) + 1
         /\ Len(s) + 1 \in DOMAIN Append(s, x) /\ Len(s) + 1 \notin DOMAIN s
BY AppendProperties

LEMMA ExceptFacts ==
  ASSUME NEW S, NEW s \in Seq(S), NEW i \in DOMAIN s, NEW x \in S
  PROVE  /\ [s EXCEPT ![i] = x] \in Seq(S) /\ Len([s EXCEPT ![i] = x]) = Len(s)
         /\ DOMAIN [s EXCEPT ![i] = x] = DOMAIN s
         /\ [s EXCEPT ![i] = x][i] = x
         /\ \A j \in DOMAIN s \ {i} : [s EXCEPT ![i] = x][j] = s[j]
OBVIOUS

LEMMA TypesNow ==
  ASSUME CrmCardInv
  PROVE  /\ cards \in Seq(CardType) /\ comments \in Seq(CommentType) /\ tasks \in Seq(TaskType)
         /\ crmMode \in {"deal", "lead"} /\ timelineMode \in {"all", "first", "none"}
         /\ contact \in Nat /\ entity \in Link /\ worker \in WorkerType
         /\ edits \in Nat /\ faults \in Nat
         /\ DOMAIN cards = 1..Len(cards) /\ Len(cards) \in Nat
         /\ \A c \in DOMAIN cards : cards[c] \in CardType /\ c \in Nat /\ c # 0
         /\ DOMAIN tasks = 1..Len(tasks) /\ Len(tasks) \in Nat
         /\ \A i \in DOMAIN tasks : tasks[i] \in TaskType /\ i \in Nat /\ i # 0
         /\ DOMAIN comments = 1..Len(comments) /\ Len(comments) \in Nat
<1>1. /\ cards \in Seq(CardType) /\ comments \in Seq(CommentType) /\ tasks \in Seq(TaskType)
      /\ crmMode \in {"deal", "lead"} /\ timelineMode \in {"all", "first", "none"}
      /\ contact \in Nat /\ entity \in Link /\ worker \in WorkerType
      /\ edits \in Nat /\ faults \in Nat
  BY DEF CrmCardInv, CardTypes, CommentType, TaskType, WorkerType
<1>2. QED
  BY <1>1, SeqFacts

LEMMA TypesNext ==
  ASSUME cards' \in Seq(CardType), comments' \in Seq(CommentType), tasks' \in Seq(TaskType),
         crmMode' \in {"deal", "lead"}, timelineMode' \in {"all", "first", "none"},
         contact' \in Nat, entity' \in Link, worker' \in WorkerType, edits' \in Nat, faults' \in Nat
  PROVE  CardTypes'
BY DEF CardTypes, CommentType, TaskType, WorkerType

-----------------------------------------------------------------------------
(* The portal: cards keep what they are, and do not come back to life.     *)

CardsGrow ==
  /\ cards' \in Seq(CardType)
  /\ \A c \in DOMAIN cards :
       /\ c \in DOMAIN cards'
       /\ cards'[c].kind = cards[c].kind /\ cards'[c].ours = cards[c].ours
       /\ cards'[c].alive => cards[c].alive
       /\ cards'[c].open => cards[c].open
  /\ \A c \in DOMAIN cards' : cards'[c].owner = 0 \/ cards'[c].owner \in DOMAIN cards'

LEMMA CardsSame == ASSUME CrmCardInv, cards' = cards PROVE CardsGrow
BY TypesNow DEF CardsGrow, CrmCardInv, LinksHold, OrNone

LEMMA OursFinite ==
  ASSUME CrmCardInv, NEW kind
  PROVE  /\ IsFiniteSet(Ours(kind)) /\ IsFiniteSet(Clients) /\ IsFiniteSet(Passed)
         /\ Cardinality(Ours(kind)) \in Nat /\ Cardinality(Clients) \in Nat /\ Cardinality(Passed) \in Nat
<1>1. IsFiniteSet(DOMAIN cards) /\ IsFiniteSet(DOMAIN tasks)
  BY TypesNow, FS_Interval
<1>2. Ours(kind) \subseteq DOMAIN cards /\ Clients \subseteq DOMAIN cards /\ Passed \subseteq DOMAIN tasks
  BY DEF Ours, Clients, Passed
<1>3. QED
  BY <1>1, <1>2, FS_Subset, FS_CardinalityType

(* What people do leaves as many cards of ours.                            *)
LEMMA OursKept ==
  ASSUME CrmCardInv,
         \A c \in DOMAIN cards : /\ c \in DOMAIN cards'
                                 /\ cards'[c].kind = cards[c].kind /\ cards'[c].ours = cards[c].ours,
         \A c \in DOMAIN cards' : c \in DOMAIN cards \/ ~cards'[c].ours
  PROVE  Clients' = Clients /\ \A kind : Ours(kind)' = Ours(kind)
BY DEF Ours, Clients

LEMMA OursAppended ==
  ASSUME CrmCardInv, NEW x \in CardType, cards' = Append(cards, x),
         x.owner = 0 \/ x.owner \in DOMAIN cards'
  PROVE  /\ CardsGrow
         /\ \A kind : Cardinality(Ours(kind)') = Cardinality(Ours(kind)) + (IF x.kind = kind /\ x.ours THEN 1 ELSE 0)
         /\ Cardinality(Clients') =
              Cardinality(Clients) + (IF x.kind \in {"contact", "lead"} /\ x.ours THEN 1 ELSE 0)
<1> DEFINE n == Len(cards) + 1
<1>1. /\ cards' \in Seq(CardType) /\ cards'[n] = x /\ n \in DOMAIN cards' /\ n \notin DOMAIN cards
      /\ \A c \in DOMAIN cards : c \in DOMAIN cards' /\ cards'[c] = cards[c]
      /\ \A c \in DOMAIN cards' : c \in DOMAIN cards \/ c = n
  BY TypesNow, AppendFacts
<1> HIDE DEF n
<1>2. CardsGrow
  BY <1>1 DEF CardsGrow, CrmCardInv, LinksHold, OrNone
<1>3. ASSUME NEW kind
      PROVE  Ours(kind)' = IF x.kind = kind /\ x.ours THEN Ours(kind) \union {n} ELSE Ours(kind)
  BY <1>1 DEF Ours
<1>4. Clients' = IF x.kind \in {"contact", "lead"} /\ x.ours THEN Clients \union {n} ELSE Clients
  BY <1>3 DEF Clients
<1>5. ASSUME NEW kind PROVE n \notin Ours(kind) /\ n \notin Clients
  BY <1>1 DEF Ours, Clients
<1>6. ASSUME NEW kind
      PROVE  Cardinality(Ours(kind)') = Cardinality(Ours(kind)) + (IF x.kind = kind /\ x.ours THEN 1 ELSE 0)
  <2>1. CASE x.kind = kind /\ x.ours
    <3>1. Cardinality(Ours(kind) \union {n}) = Cardinality(Ours(kind)) + 1
      BY <1>5, OursFinite, FS_AddElement
    <3>2. QED
      BY <1>3, <2>1, <3>1
  <2>2. CASE ~(x.kind = kind /\ x.ours)
    BY <1>3, <2>2, OursFinite
  <2>3. QED
    BY <2>1, <2>2
<1>7. Cardinality(Clients') = Cardinality(Clients) + (IF x.kind \in {"contact", "lead"} /\ x.ours THEN 1 ELSE 0)
  <2>1. CASE x.kind \in {"contact", "lead"} /\ x.ours
    <3>1. Cardinality(Clients \union {n}) = Cardinality(Clients) + 1
      BY <1>5, OursFinite, FS_AddElement
    <3>2. QED
      BY <1>4, <2>1, <3>1
  <2>2. CASE ~(x.kind \in {"contact", "lead"} /\ x.ours)
    BY SMTT(30), <1>4, <2>2, OursFinite
  <2>3. QED
    BY <2>1, <2>2
<1>8. QED
  BY <1>2, <1>6, <1>7

-----------------------------------------------------------------------------
(* What a step owes the conjuncts of the invariant that it disturbs little. *)

LEMMA OwedNow ==
  /\ Credit \in {0, 1} /\ Debt \in {0, 1} /\ DealOwed \in {0, 1} /\ CommentOwed \in {0, 1}
  /\ (HasCard <=> Credit = 1) /\ (worker.stale <=> Debt = 1) /\ (worker.at = "newDeal" <=> DealOwed = 1)
  /\ (worker.at = "newDeal" \/ (worker.at = "comment" /\ worker.new) <=> CommentOwed = 1)
<1>1. Credit \in {0, 1} /\ (HasCard <=> Credit = 1) /\ Debt \in {0, 1} /\ (worker.stale <=> Debt = 1)
  BY DEF Credit, Debt
<1>2. DealOwed \in {0, 1} /\ (worker.at = "newDeal" <=> DealOwed = 1)
  BY DEF DealOwed, At
<1>3. /\ CommentOwed \in {0, 1}
      /\ worker.at = "newDeal" \/ (worker.at = "comment" /\ worker.new) <=> CommentOwed = 1
  BY DEF CommentOwed, At
<1>4. QED
  BY <1>1, <1>2, <1>3

LEMMA OwedNext ==
  /\ Credit' \in {0, 1} /\ Debt' \in {0, 1} /\ DealOwed' \in {0, 1} /\ CommentOwed' \in {0, 1}
  /\ (HasCard' <=> Credit' = 1) /\ (worker'.stale <=> Debt' = 1) /\ (worker'.at = "newDeal" <=> DealOwed' = 1)
  /\ (worker'.at = "newDeal" \/ (worker'.at = "comment" /\ worker'.new) <=> CommentOwed' = 1)
<1>1. Credit' \in {0, 1} /\ (HasCard' <=> Credit' = 1) /\ Debt' \in {0, 1} /\ (worker'.stale <=> Debt' = 1)
  BY DEF Credit, Debt
<1>2. DealOwed' \in {0, 1} /\ (worker'.at = "newDeal" <=> DealOwed' = 1)
  BY DEF DealOwed, At
<1>3. /\ CommentOwed' \in {0, 1}
      /\ worker'.at = "newDeal" \/ (worker'.at = "comment" /\ worker'.new) <=> CommentOwed' = 1
  BY DEF CommentOwed, At
<1>4. QED
  BY <1>1, <1>2, <1>3

LEMMA LinksNext ==
  ASSUME CrmCardInv, CardsGrow, entity' = entity, contact' = contact,
         worker'.found \in Link, worker'.found.id = 0 \/ worker'.found.id \in DOMAIN cards',
         worker'.found.kind = "none" <=> worker'.found.id = 0,
         worker'.contact = 0 \/ worker'.contact \in DOMAIN cards'
  PROVE  LinksHold'
BY DEF CrmCardInv, LinksHold, LinkOrNone, OrNone, CardsGrow

LEMMA ExcusedStays ==
  ASSUME CrmCardInv, CardsGrow, entity' = entity, contact' = contact, Excused,
         faults' \in Nat, faults <= faults'
  PROVE  Excused'
<1>1. /\ entity.id = 0 \/ entity.id \in DOMAIN cards
      /\ contact = 0 \/ contact \in DOMAIN cards
      /\ faults \in Nat /\ 0 \notin DOMAIN cards'
  BY TypesNow DEF CrmCardInv, LinksHold, LinkOrNone, OrNone, CardsGrow
<1>2. faults > 0 => faults' > 0
  BY <1>1
<1>3. (~Alive(entity.id) => ~Alive(entity.id)') /\ (~Alive(contact) => ~Alive(contact)')
  BY <1>1 DEF Alive, CardsGrow
<1>4. entity.kind = "lead" /\ ~cards[entity.id].open => ~Alive(entity.id)' \/ ~cards'[entity'.id].open
  BY <1>1 DEF Alive, CardsGrow
<1>5. QED
  BY <1>2, <1>3, <1>4 DEF Excused, Alive

(* What the counts need of a step: a and d are the cards it makes, b says  *)
(* whether that is a contact, p is what it costs in faults and changes.    *)
LEMMA StepCounted ==
  ASSUME CrmCardInv, NEW a \in {0, 1}, NEW b \in {0, 1}, NEW d \in {0, 1}, NEW f \in {0, 1}, NEW e \in {0, 1},
         Cardinality(Clients') = Cardinality(Clients) + a,
         Cardinality(Ours("contact")') = Cardinality(Ours("contact")) + b,
         Cardinality(Ours("deal")') = Cardinality(Ours("deal")) + d,
         faults' = faults + f, edits' = edits + e,
         Credit + Debt' + a <= Credit' + Debt + f + e, d + DealOwed' <= b + DealOwed + f
  PROVE  CardsCounted'
<1>1. /\ Cardinality(Clients) + Debt <= faults + edits + Credit
      /\ Cardinality(Ours("deal")) + DealOwed <= Cardinality(Ours("contact")) + faults
  BY DEF CrmCardInv, CardsCounted
<1>2. /\ Cardinality(Clients) \in Nat /\ Cardinality(Ours("deal")) \in Nat /\ Cardinality(Ours("contact")) \in Nat
      /\ faults \in Nat /\ edits \in Nat
      /\ Credit \in {0, 1} /\ Credit' \in {0, 1} /\ DealOwed \in {0, 1} /\ DealOwed' \in {0, 1}
      /\ Debt \in {0, 1} /\ Debt' \in {0, 1}
  BY OursFinite, TypesNow, OwedNow, OwedNext
<1>3. PICK n \in Nat, u \in Nat, t \in Nat, k \in {0, 1}, l \in {0, 1}, x \in {0, 1}, y \in {0, 1},
           v \in {0, 1}, w \in {0, 1} :
        /\ Cardinality(Clients) = n /\ Cardinality(Ours("deal")) = u /\ Cardinality(Ours("contact")) = t
        /\ Credit = k /\ Credit' = l /\ DealOwed = x /\ DealOwed' = y /\ Debt = v /\ Debt' = w
  BY <1>2
<1>4. n + v <= faults + edits + k /\ u + x <= t + faults /\ k + w + a <= l + v + f + e /\ d + y <= b + x + f
  BY <1>1, <1>3
<1>5. n + a + w <= (faults + f) + (edits + e) + l /\ u + d + y <= t + b + (faults + f)
  BY <1>2, <1>4
<1>6. QED
  BY <1>3, <1>5 DEF CardsCounted

(* A step that makes no card of ours.  Either it costs something, and no   *)
(* task goes stale; or the dialog keeps what it has, unless a stale task   *)
(* ends; a task may go stale if that costs something.                      *)
LEMMA CardsKept ==
  ASSUME CrmCardInv, Clients' = Clients, \A kind : Ours(kind)' = Ours(kind),
         NEW f \in {0, 1}, NEW e \in {0, 1}, faults' = faults + f, edits' = edits + e,
         \/ f + e >= 1 /\ (worker'.stale => worker.stale)
         \/ f + e >= 1 /\ (HasCard => HasCard')
         \/ (HasCard /\ ~(worker.stale /\ ~worker'.stale) => HasCard') /\ (worker'.stale => worker.stale),
         worker'.at = "newDeal" => worker.at = "newDeal"
  PROVE  CardsCounted'
<1>1. PICK k \in {0, 1}, l \in {0, 1}, x \in {0, 1}, y \in {0, 1}, v \in {0, 1}, w \in {0, 1} :
        /\ Credit = k /\ Credit' = l /\ DealOwed = x /\ DealOwed' = y /\ Debt = v /\ Debt' = w
  BY OwedNow, OwedNext
<1>2. /\ HasCard <=> k = 1
      /\ HasCard' <=> l = 1
      /\ worker.stale <=> v = 1
      /\ worker'.stale <=> w = 1
      /\ worker.at = "newDeal" <=> x = 1
      /\ worker'.at = "newDeal" <=> y = 1
  BY <1>1, OwedNow, OwedNext
<1>3. k + w + 0 <= l + v + f + e
  <2>1. CASE f + e >= 1 /\ (w = 1 => v = 1)
    BY <2>1
  <2>2. CASE f + e >= 1 /\ (k = 1 => l = 1)
    BY <2>2
  <2>3. CASE (k = 1 /\ ~(v = 1 /\ w # 1) => l = 1) /\ (w = 1 => v = 1)
    BY <2>3
  <2>4. QED
    BY <1>2, <2>1, <2>2, <2>3
<1>4. 0 + y <= 0 + x + f
  BY <1>2
<1>5. /\ Cardinality(Clients') = Cardinality(Clients) + 0
      /\ Cardinality(Ours("contact")') = Cardinality(Ours("contact")) + 0
      /\ Cardinality(Ours("deal")') = Cardinality(Ours("deal")) + 0
  BY OursFinite
<1>6. Credit + Debt' + 0 <= Credit' + Debt + f + e /\ 0 + DealOwed' <= 0 + DealOwed + f
  BY <1>1, <1>3, <1>4
<1>7. QED
  BY <1>5, <1>6, StepCounted

(* A step that costs nothing and makes no card.                            *)
LEMMA CardsFree ==
  ASSUME CrmCardInv, UNCHANGED <<cards, faults, edits>>,
         HasCard /\ ~(worker.stale /\ ~worker'.stale) => HasCard', worker'.stale => worker.stale,
         worker'.at = "newDeal" => worker.at = "newDeal"
  PROVE  CardsCounted'
<1>1. Clients' = Clients /\ \A kind : Ours(kind)' = Ours(kind)
  BY DEF Clients, Ours
<1>2. faults' = faults + 0 /\ edits' = edits + 0
  BY TypesNow
<1>3. QED
  BY <1>1, <1>2, CardsKept

(* A step that writes no comment: what is behind it is not more than before,*)
(* unless a fault accounts for the difference; a comment that is owed has a *)
(* card of ours to tell of.                                                *)
LEMMA CommentsOwed ==
  ASSUME CrmCardInv, UNCHANGED <<comments, timelineMode>>,
         DOMAIN tasks' = DOMAIN tasks, \A i \in DOMAIN tasks : tasks'[i].dir = tasks[i].dir,
         Cardinality(Passed') \in Nat, Cardinality(Passed') + faults' >= Cardinality(Passed) + faults,
         \A i \in DOMAIN tasks : i \in Passed' => i \in Passed,
         faults' \in Nat, Cardinality(Clients') \in Nat,
         Cardinality(Clients) + CommentOwed' <= Cardinality(Clients') + CommentOwed
  PROVE  CommentsCounted'
<1>1. /\ Len(comments) <= Cardinality(Passed) + faults
      /\ timelineMode = "first" => Len(comments) + CommentOwed <= Cardinality(Clients)
  BY DEF CrmCardInv, CommentsCounted
<1>2. /\ Cardinality(Passed) \in Nat /\ Cardinality(Clients) \in Nat /\ faults \in Nat /\ Len(comments) \in Nat
      /\ CommentOwed \in {0, 1} /\ CommentOwed' \in {0, 1}
  BY OursFinite, TypesNow, OwedNow, OwedNext
<1>3. Len(comments) <= Cardinality(Passed') + faults'
  <2>1. PICK f \in Nat, p \in Nat : faults' = f /\ Cardinality(Passed') = p
    OBVIOUS
  <2>2. p + f >= Cardinality(Passed) + faults
    BY <2>1
  <2>3. Len(comments) <= p + f
    BY SMTT(30), <1>1, <1>2, <2>2
  <2>4. QED
    BY <2>1, <2>3
<1>4. timelineMode = "first" => Len(comments) + CommentOwed' <= Cardinality(Clients')
  <2>1. PICK n \in Nat, m \in Nat, k \in {0, 1}, l \in {0, 1} :
          Cardinality(Clients) = n /\ Cardinality(Clients') = m /\ CommentOwed = k /\ CommentOwed' = l
    BY <1>2
  <2>2. n + l <= m + k
    BY <2>1
  <2>3. timelineMode = "first" => Len(comments) + k <= n
    BY <1>1, <2>1
  <2>4. timelineMode = "first" => Len(comments) + l <= m
    BY <1>2, <2>2, <2>3
  <2>5. QED
    BY <2>1, <2>4
<1>5. /\ \A k \in DOMAIN comments : comments[k].msg \in DOMAIN tasks
      /\ \A i \in DOMAIN tasks :
           /\ timelineMode = "none" => Of(i) = {}
           /\ timelineMode = "first" /\ tasks[i].dir = "out" => Of(i) = {}
           /\ timelineMode = "all" /\ tasks[i].dir = "in" /\ i \in Passed => Of(i) # {}
  BY DEF CrmCardInv, CommentsCounted
<1>6. /\ \A k \in DOMAIN comments' : comments'[k].msg \in DOMAIN tasks'
      /\ \A i \in DOMAIN tasks' :
           /\ timelineMode' = "none" => Of(i)' = {}
           /\ timelineMode' = "first" /\ tasks'[i].dir = "out" => Of(i)' = {}
           /\ timelineMode' = "all" /\ tasks'[i].dir = "in" /\ i \in Passed' => Of(i)' # {}
  BY <1>5 DEF Of
<1>7. QED
  BY <1>3, <1>4, <1>6 DEF CommentsCounted

LEMMA CommentsRest ==
  ASSUME CrmCardInv, UNCHANGED <<comments, timelineMode>>,
         DOMAIN tasks' = DOMAIN tasks, \A i \in DOMAIN tasks : tasks'[i].dir = tasks[i].dir,
         Cardinality(Passed') \in Nat, Cardinality(Passed') + faults' >= Cardinality(Passed) + faults,
         \A i \in DOMAIN tasks : i \in Passed' => i \in Passed,
         faults' \in Nat, Cardinality(Clients') = Cardinality(Clients), CommentOwed' <= CommentOwed
  PROVE  CommentsCounted'
<1>1. /\ Cardinality(Clients) \in Nat /\ CommentOwed \in {0, 1} /\ CommentOwed' \in {0, 1}
  BY OursFinite, OwedNow, OwedNext
<1>2. PICK k \in {0, 1}, l \in {0, 1} : CommentOwed = k /\ CommentOwed' = l
  BY <1>1
<1>3. l <= k
  BY <1>2
<1>4. Cardinality(Clients) + l <= Cardinality(Clients) + k
  BY <1>1, <1>3
<1>5. QED
  BY <1>1, <1>2, <1>4, CommentsOwed

-----------------------------------------------------------------------------
(* What people change: the worker and the dialog stay.                     *)

LEMMA PeopleStep ==
  ASSUME CrmCardInv, CardsGrow, Clients' = Clients, \A kind : Ours(kind)' = Ours(kind), edits' = edits + 1,
         UNCHANGED <<comments, timelineMode, contact, entity, tasks, worker, faults>>,
         crmMode' \in {"deal", "lead"}
  PROVE  CrmCardInv'
<1>1. CardTypes'
  BY TypesNow, TypesNext DEF CardsGrow
<1>2. LinksHold'
  <2>1. /\ worker.found \in Link /\ (worker.found.id = 0 \/ worker.found.id \in DOMAIN cards')
        /\ (worker.found.kind = "none" <=> worker.found.id = 0)
        /\ (worker.contact = 0 \/ worker.contact \in DOMAIN cards')
    BY DEF CrmCardInv, LinksHold, LinkOrNone, OrNone, CardsGrow
  <2>2. QED
    BY <2>1, LinksNext
<1>3. WorkerHolds'
  BY DEF CrmCardInv, WorkerHolds, InWork, At, Due
<1>4. Cardinality(Clients) \in Nat /\ edits \in Nat /\ faults \in Nat
  BY OursFinite, TypesNow
<1>5. CardsCounted'
  <2>1. faults' = faults + 0 /\ 0 + 1 >= 1
    BY <1>4
  <2>2. QED
    BY <2>1, CardsKept
<1>6. CommentsCounted'
  <2>1. Passed' = Passed /\ CommentOwed' = CommentOwed
    BY DEF Passed, CommentOwed, At
  <2>2. CommentOwed \in {0, 1} /\ Cardinality(Passed) \in Nat
    BY OwedNow, OursFinite
  <2>3. QED
    BY <1>4, <2>1, <2>2, CommentsRest
<1>7. LeavesExcused'
  <2>1. Excused => Excused'
    BY <1>4, ExcusedStays
  <2>2. QED
    BY <2>1 DEF CrmCardInv, LeavesExcused, InWork, At
<1>8. QED
  BY <1>1, <1>2, <1>3, <1>5, <1>6, <1>7 DEF CrmCardInv

LEMMA DeleteInv == ASSUME CrmCardInv, NEW c \in DOMAIN cards, Delete(c) PROVE CrmCardInv'
<1> DEFINE x == [cards[c] EXCEPT !.alive = FALSE]
<1>1. x \in CardType /\ x.kind = cards[c].kind /\ x.ours = cards[c].ours /\ x.open = cards[c].open
      /\ x.owner = cards[c].owner /\ ~x.alive
  BY TypesNow DEF CardType
<1>2. cards' = [cards EXCEPT ![c] = x]
  BY DEF Delete
<1> HIDE DEF x
<1>3. /\ cards' \in Seq(CardType) /\ DOMAIN cards' = DOMAIN cards /\ cards'[c] = x
      /\ \A d \in DOMAIN cards \ {c} : cards'[d] = cards[d]
  BY <1>1, <1>2, TypesNow, ExceptFacts
<1>4. CardsGrow /\ Clients' = Clients /\ \A kind : Ours(kind)' = Ours(kind)
  BY <1>1, <1>3, OursKept DEF CardsGrow, CrmCardInv, LinksHold, OrNone
<1>5. QED
  BY <1>4, PeopleStep, TypesNow DEF Delete, Edit, settings, links

LEMMA CloseDealInv == ASSUME CrmCardInv, NEW c \in DOMAIN cards, CloseDeal(c) PROVE CrmCardInv'
<1> DEFINE x == [cards[c] EXCEPT !.open = FALSE]
<1>1. x \in CardType /\ x.kind = cards[c].kind /\ x.ours = cards[c].ours /\ x.alive = cards[c].alive
      /\ x.owner = cards[c].owner /\ ~x.open
  BY TypesNow DEF CardType
<1>2. cards' = [cards EXCEPT ![c] = x]
  BY DEF CloseDeal
<1> HIDE DEF x
<1>3. /\ cards' \in Seq(CardType) /\ DOMAIN cards' = DOMAIN cards /\ cards'[c] = x
      /\ \A d \in DOMAIN cards \ {c} : cards'[d] = cards[d]
  BY <1>1, <1>2, TypesNow, ExceptFacts
<1>4. CardsGrow /\ Clients' = Clients /\ \A kind : Ours(kind)' = Ours(kind)
  BY <1>1, <1>3, OursKept DEF CardsGrow, CrmCardInv, LinksHold, OrNone
<1>5. QED
  BY <1>4, PeopleStep, TypesNow DEF CloseDeal, Edit, settings, links

LEMMA SwitchModeInv == ASSUME CrmCardInv, SwitchMode PROVE CrmCardInv'
<1>1. cards' = cards /\ crmMode' \in {"deal", "lead"}
  BY DEF SwitchMode, portal
<1>2. CardsGrow /\ Clients' = Clients /\ \A kind : Ours(kind)' = Ours(kind)
  BY <1>1, CardsSame DEF Ours, Clients
<1>3. QED
  BY <1>1, <1>2, PeopleStep DEF SwitchMode, Edit, portal, links

LEMMA ConvertInv == ASSUME CrmCardInv, NEW c \in DOMAIN cards, Convert(c) PROVE CrmCardInv'
<1> DEFINE n == Len(cards) + 1
           x == [cards[c] EXCEPT !.open = FALSE, !.owner = n]
           converted == [cards EXCEPT ![c] = x]
           owned == Append(converted, Card("contact", 0, FALSE))
           both == Append(owned, Card("deal", n, FALSE))
<1>1. n \in Nat /\ n # 0 /\ Len(cards) \in Nat
  BY TypesNow
<1>2. x \in CardType /\ x.kind = cards[c].kind /\ x.ours = cards[c].ours /\ x.alive = cards[c].alive
      /\ x.owner = n /\ ~x.open /\ x.kind = "lead"
  BY <1>1, TypesNow DEF CardType, Convert
<1>3. converted = [cards EXCEPT ![c].open = FALSE, ![c].owner = n]
  BY TypesNow
<1>4. cards' \in {owned, both}
  BY <1>3 DEF Convert
<1>5. /\ converted \in Seq(CardType) /\ DOMAIN converted = DOMAIN cards /\ Len(converted) = Len(cards)
      /\ converted[c] = x /\ \A d \in DOMAIN cards \ {c} : converted[d] = cards[d]
  <2> HIDE DEF x
  <2>1. QED
    BY <1>2, TypesNow, ExceptFacts
<1>6. /\ Card("contact", 0, FALSE) \in CardType /\ Card("deal", n, FALSE) \in CardType
      /\ ~Card("contact", 0, FALSE).ours /\ ~Card("deal", n, FALSE).ours
      /\ Card("contact", 0, FALSE).owner = 0 /\ Card("deal", n, FALSE).owner = n
      /\ Card("contact", 0, FALSE).kind = "contact"
  BY <1>1 DEF Card, CardType
<1> DEFINE y == Card("contact", 0, FALSE)
           z == Card("deal", n, FALSE)
<1> HIDE DEF converted, x, y, z
<1>7. /\ owned \in Seq(CardType) /\ Len(owned) = n /\ owned[n] = y /\ n \in DOMAIN owned
      /\ \A d \in DOMAIN cards : d \in DOMAIN owned /\ owned[d] = converted[d]
      /\ \A d \in DOMAIN owned : d \in DOMAIN cards \/ d = n
  <2>1. /\ Append(converted, y) \in Seq(CardType) /\ Len(Append(converted, y)) = Len(converted) + 1
        /\ Append(converted, y)[Len(converted) + 1] = y
        /\ \A d \in DOMAIN converted : d \in DOMAIN Append(converted, y) /\ Append(converted, y)[d] = converted[d]
        /\ \A d \in DOMAIN Append(converted, y) : d \in DOMAIN converted \/ d = Len(converted) + 1
        /\ Len(converted) + 1 \in DOMAIN Append(converted, y)
    <3>1. y \in CardType
      BY <1>6 DEF y
    <3>2. QED
      BY <1>5, <3>1, AppendFacts
  <2>2. owned = Append(converted, y) /\ n = Len(converted) + 1
    BY <1>5 DEF y
  <2> HIDE DEF owned, n
  <2>3. QED
    BY <1>5, <2>1, <2>2
<1> HIDE DEF owned
<1>8. /\ both \in Seq(CardType) /\ both[n + 1] = z /\ n \in DOMAIN both /\ both[n] = y
      /\ \A d \in DOMAIN cards : d \in DOMAIN both /\ both[d] = converted[d]
      /\ \A d \in DOMAIN both : d \in DOMAIN cards \/ d = n \/ d = n + 1
  <2>1. /\ Append(owned, z) \in Seq(CardType)
        /\ Append(owned, z)[Len(owned) + 1] = z
        /\ \A d \in DOMAIN owned : d \in DOMAIN Append(owned, z) /\ Append(owned, z)[d] = owned[d]
        /\ \A d \in DOMAIN Append(owned, z) : d \in DOMAIN owned \/ d = Len(owned) + 1
    <3>1. z \in CardType
      BY <1>6 DEF z
    <3>2. QED
      BY <1>7, <3>1, AppendFacts
  <2>2. both = Append(owned, z)
    BY DEF z
  <2> HIDE DEF both, n
  <2>3. QED
    BY <1>7, <2>1, <2>2
<1> HIDE DEF both, n
<1>9. /\ cards' \in Seq(CardType) /\ n \in DOMAIN cards'
      /\ \A d \in DOMAIN cards : d \in DOMAIN cards' /\ cards'[d] = converted[d]
      /\ \A d \in DOMAIN cards' : d \in DOMAIN cards \/ cards'[d] = y \/ cards'[d] = z
  BY <1>4, <1>7, <1>8
<1>10. \A d \in DOMAIN cards : cards'[d] = cards[d] \/ (d = c /\ cards'[d] = x)
  BY <1>5, <1>9
<1>11. /\ ~y.ours /\ ~z.ours /\ y.owner = 0 /\ z.owner = n /\ y.kind = "contact"
  BY <1>6 DEF y, z
<1>12. CardsGrow
  <2>1. \A d \in DOMAIN cards : cards[d].owner = 0 \/ cards[d].owner \in DOMAIN cards
    BY DEF CrmCardInv, LinksHold, OrNone
  <2>2. \A d \in DOMAIN cards' : cards'[d].owner = 0 \/ cards'[d].owner \in DOMAIN cards'
    BY <1>1, <1>2, <1>9, <1>10, <1>11, <2>1
  <2>3. QED
    BY <1>2, <1>9, <1>10, <2>2 DEF CardsGrow
<1>13. Clients' = Clients /\ \A kind : Ours(kind)' = Ours(kind)
  BY <1>9, <1>11, <1>12, OursKept DEF CardsGrow
<1>14. QED
  BY <1>12, <1>13, PeopleStep, TypesNow DEF Convert, Edit, settings, links

LEMMA AddCardInv == ASSUME CrmCardInv, NEW kind \in {"contact", "deal", "lead"}, AddCard(kind) PROVE CrmCardInv'
<1>1. PICK owner : /\ owner = 0 \/ owner \in DOMAIN cards
                   /\ cards' = Append(cards, Card(kind, owner, FALSE))
  BY DEF AddCard
<1> DEFINE x == Card(kind, owner, FALSE)
<1>2. x \in CardType /\ ~x.ours /\ x.owner = owner
  <2>1. owner \in Nat
    BY <1>1, TypesNow
  <2>2. QED
    BY <2>1 DEF Card, CardType
<1> HIDE DEF x
<1>3. /\ cards' = Append(cards, x)
      /\ \A c \in DOMAIN cards : c \in DOMAIN cards' /\ cards'[c] = cards[c]
      /\ \A c \in DOMAIN cards' : c \in DOMAIN cards \/ cards'[c] = x
  <2>1. cards' = Append(cards, x)
    BY <1>1 DEF x
  <2>2. /\ \A c \in DOMAIN cards : c \in DOMAIN Append(cards, x) /\ Append(cards, x)[c] = cards[c]
        /\ \A c \in DOMAIN Append(cards, x) : c \in DOMAIN cards \/ c = Len(cards) + 1
        /\ Append(cards, x)[Len(cards) + 1] = x
    BY <1>2, TypesNow, AppendFacts
  <2>3. QED
    BY <2>1, <2>2
<1>4. CardsGrow
  BY <1>1, <1>2, <1>3, OursAppended
<1>5. Clients' = Clients /\ \A k : Ours(k)' = Ours(k)
  BY <1>2, <1>3, OursKept
<1>6. QED
  BY <1>4, <1>5, PeopleStep, TypesNow DEF AddCard, Edit, settings, links

(* The links change under the task in work: it owes one change from there. *)
LEMMA InitiateInv == ASSUME CrmCardInv, NEW c \in DOMAIN cards, Initiate(c) PROVE CrmCardInv'
<1>1. /\ UNCHANGED <<cards, comments, crmMode, timelineMode, tasks, faults>> /\ edits' = edits + 1
      /\ worker' = [worker EXCEPT !.stale = InWork]
  BY DEF Initiate, Edit, portal, settings
<1>2. /\ worker' \in WorkerType /\ worker'.at = worker.at /\ worker'.task = worker.task
      /\ worker'.found = worker.found /\ worker'.contact = worker.contact /\ worker'.new = worker.new
      /\ worker'.stale = InWork
  BY <1>1, TypesNow DEF WorkerType, InWork
<1>3. InWork' = InWork
  BY <1>1, <1>2 DEF InWork
<1>4. /\ contact' \in Nat /\ entity' \in Link /\ LinkOrNone(entity)' /\ OrNone(contact)'
  <2>1. c \in Nat /\ c # 0 /\ cards[c].kind \in {"contact", "deal", "lead"}
    BY TypesNow DEF CardType
  <2>2. LinkOrNone(entity) /\ OrNone(contact) /\ contact \in Nat
    BY TypesNow DEF CrmCardInv, LinksHold
  <2>3. CASE cards[c].kind = "contact"
    BY <1>1, <2>1, <2>2, <2>3 DEF Initiate, LinkOrNone, OrNone
  <2>4. CASE cards[c].kind # "contact"
    BY <1>1, <2>1, <2>2, <2>4 DEF Initiate, LinkOrNone, OrNone, Link
  <2>5. QED
    BY <2>3, <2>4
<1>5. CardTypes'
  BY <1>1, <1>2, <1>4, TypesNow, TypesNext
<1>6. LinksHold'
  BY <1>1, <1>2, <1>4 DEF CrmCardInv, LinksHold, LinkOrNone, OrNone
<1>7. WorkerHolds'
  <2>1. worker.at \in Looking => InWork
    BY DEF CrmCardInv, WorkerHolds, InWork, Looking
  <2>2. QED
    BY <1>1, <1>2, <1>3, <2>1 DEF CrmCardInv, WorkerHolds, Looking, At, Due
<1>8. Clients' = Clients /\ (\A kind : Ours(kind)' = Ours(kind)) /\ Passed' = Passed /\ CommentOwed' = CommentOwed
  BY <1>1, <1>2 DEF Clients, Ours, Passed, CommentOwed, At
<1>9. CardsCounted'
  <2>1. faults' = faults + 0 /\ 0 + 1 >= 1
    BY <1>1, TypesNow
  <2>2. CASE InWork
    <3>1. HasCard => HasCard'
      BY <1>1, <1>2, <1>3, <2>2 DEF HasCard, Keeps, Alive, At
    <3>2. QED
      BY <1>1, <1>2, <1>8, <2>1, <3>1, CardsKept
  <2>3. CASE ~InWork
    BY <1>1, <1>2, <1>8, <2>1, <2>3, CardsKept
  <2>4. QED
    BY <2>2, <2>3
<1>10. CommentsCounted'
  <2>1. CommentOwed \in {0, 1} /\ Cardinality(Passed) \in Nat /\ Cardinality(Clients) \in Nat /\ faults \in Nat
    BY OwedNow, OursFinite, TypesNow
  <2>2. QED
    BY <1>1, <1>8, <2>1, CommentsRest
<1>11. LeavesExcused'
  BY <1>2, <1>3 DEF LeavesExcused
<1>12. QED
  BY <1>5, <1>6, <1>7, <1>9, <1>10, <1>11 DEF CrmCardInv

-----------------------------------------------------------------------------
(* The worker looks the card up: only its own locals change.               *)

LEMMA ReadStep ==
  ASSUME CrmCardInv, UNCHANGED <<cards, comments, crmMode, timelineMode, contact, entity, tasks, edits, faults>>,
         worker.at \in Looking, worker'.at \in (Looking \ {"newDeal"}) \union {"comment"},
         worker' \in WorkerType, worker'.task = worker.task, ~worker'.new, worker'.stale = worker.stale,
         worker'.found.id = 0 \/ worker'.found.id \in DOMAIN cards,
         worker'.found.kind = "none" <=> worker'.found.id = 0,
         worker'.contact = 0 \/ worker'.contact \in DOMAIN cards,
         WorkerHolds', LeavesExcused', HasCard => HasCard'
  PROVE  CrmCardInv'
<1>1. CardTypes'
  BY TypesNow, TypesNext
<1>2. LinksHold'
  <2>1. worker'.found \in Link
    BY DEF WorkerType
  <2>2. QED
    BY <2>1, CardsSame, LinksNext
<1>3. worker'.at # "newDeal"
  OBVIOUS
<1>4. CardsCounted'
  BY <1>3, CardsFree
<1>5. CommentsCounted'
  <2>1. Passed' = Passed
    BY DEF Passed, Looking
  <2>2. CommentOwed' = 0 /\ CommentOwed \in {0, 1}
    BY <1>3, OwedNow, OwedNext
  <2>3. Cardinality(Passed) \in Nat /\ Cardinality(Clients) \in Nat /\ Clients' = Clients /\ faults \in Nat
    BY OursFinite, TypesNow DEF Clients, Ours
  <2>4. \A i \in DOMAIN tasks : tasks'[i].dir = tasks[i].dir
    OBVIOUS
  <2>5. CommentOwed' <= CommentOwed
    BY <2>2
  <2>6. QED
    BY <2>1, <2>3, <2>4, <2>5, CommentsRest
<1>6. QED
  BY <1>1, <1>2, <1>4, <1>5 DEF CrmCardInv

LEMMA Gone ==
  ASSUME CrmCardInv, NEW a \in Looking, Goto(a)
  PROVE  /\ worker' \in WorkerType /\ worker'.at = a /\ worker'.task = worker.task
         /\ worker'.found = worker.found /\ worker'.contact = worker.contact /\ worker'.new = worker.new
         /\ worker'.stale = worker.stale
BY TypesNow DEF Goto, WorkerType

LEMMA Turned ==
  ASSUME CrmCardInv, NEW a \in Looking, NEW c \in Nat, worker' = [worker EXCEPT !.at = a, !.contact = c]
  PROVE  /\ worker' \in WorkerType /\ worker'.at = a /\ worker'.task = worker.task
         /\ worker'.found = worker.found /\ worker'.contact = c /\ worker'.new = worker.new
         /\ worker'.stale = worker.stale
BY TypesNow DEF WorkerType

LEMMA ResolvedTo ==
  ASSUME CrmCardInv, NEW k \in {"none", "deal", "lead"}, NEW id \in Nat, NEW c \in Nat, NEW n \in BOOLEAN,
         Resolved(k, id, c, n)
  PROVE  /\ worker' \in WorkerType /\ worker'.at = "comment" /\ worker'.task = worker.task
         /\ worker'.found = [kind |-> k, id |-> id] /\ worker'.found \in Link
         /\ worker'.found.kind = k /\ worker'.found.id = id
         /\ worker'.contact = c /\ worker'.new = n /\ worker'.stale = worker.stale
<1> DEFINE f == [kind |-> k, id |-> id]
<1>1. f \in Link /\ f.kind = k /\ f.id = id
  BY DEF Link
<1>2. worker' = [worker EXCEPT !.at = "comment", !.new = n, !.contact = c, !.found = f]
  BY DEF Resolved
<1> HIDE DEF f
<1>3. /\ worker' \in WorkerType /\ worker'.at = "comment" /\ worker'.task = worker.task
      /\ worker'.found = f /\ worker'.contact = c /\ worker'.new = n /\ worker'.stale = worker.stale
  BY <1>1, <1>2, TypesNow DEF WorkerType
<1>4. QED
  BY <1>1, <1>3 DEF f

(* What is known while the card is looked up: the task works on what the   *)
(* dialog has, unless that has been changed under it.                      *)
LEMMA LookingNow ==
  ASSUME CrmCardInv, worker.at \in Looking
  PROVE  /\ tasks[worker.task].dir = "in" /\ worker.task \in DOMAIN tasks /\ Due(worker.task)
         /\ InWork /\ ~worker.new /\ (~worker.stale => worker.found = entity)
         /\ worker.found \in Link /\ worker.found.id \in Nat /\ worker.found.kind \in {"none", "deal", "lead"}
         /\ (worker.found.id = 0 \/ worker.found.id \in DOMAIN cards)
         /\ (worker.found.kind = "none" <=> worker.found.id = 0)
         /\ worker.contact \in Nat /\ (worker.contact = 0 \/ worker.contact \in DOMAIN cards)
         /\ worker.found = [kind |-> worker.found.kind, id |-> worker.found.id]
         /\ worker.found.kind = "none" => worker.found = None
         /\ 0 \notin DOMAIN cards /\ worker \in WorkerType
<1>1. worker.at # "idle"
  BY DEF Looking
<1>2. /\ worker.found = [kind |-> worker.found.kind, id |-> worker.found.id]
      /\ worker.found \in Link /\ worker.found.id \in Nat /\ worker.found.kind \in {"none", "deal", "lead"}
      /\ worker.contact \in Nat
  BY TypesNow DEF Link, WorkerType
<1>3. /\ worker.found.kind = "none" <=> worker.found.id = 0
      /\ worker.found.id = 0 \/ worker.found.id \in DOMAIN cards
      /\ worker.contact = 0 \/ worker.contact \in DOMAIN cards
  BY DEF CrmCardInv, LinksHold, LinkOrNone, OrNone
<1>4. worker.found.kind = "none" => worker.found = None
  BY <1>2, <1>3 DEF None
<1>5. InWork
  BY DEF CrmCardInv, WorkerHolds, InWork, Looking
<1>6. QED
  BY <1>1, <1>2, <1>3, <1>4, <1>5, TypesNow DEF CrmCardInv, WorkerHolds, At

(* The task goes on working, and a resolved one holds a contact or a lead. *)
LEMMA HoldsNext ==
  ASSUME CrmCardInv, worker.at \in Looking, UNCHANGED <<entity, contact, tasks>>,
         worker'.task = worker.task, worker'.stale = worker.stale,
         \/ /\ worker'.at \in Looking /\ worker'.found = worker.found /\ ~worker'.new
            /\ worker'.at = "findContact" =>
                 worker.found.kind # "lead" /\ (~worker.stale => worker'.contact = contact)
            /\ worker'.at # "getContact" /\ worker'.at # "getLead"
            /\ worker'.at = "rebind" => worker.found.kind = "lead"
            /\ worker'.at = "findLead" => worker.found.kind # "deal"
            /\ worker'.at = "findDeal" => worker.found.kind = "none"
            /\ worker'.at \in {"findDeal", "newDeal"} => worker'.contact # 0
         \/ /\ worker'.at = "comment"
            /\ worker'.found.kind # "lead" =>
                 /\ worker'.contact # 0
                 /\ worker'.found.kind = "none" => worker.found.kind = "none"
  PROVE  WorkerHolds' /\ InWork'
<1>1. /\ worker.task \in DOMAIN tasks /\ Due(worker.task) /\ tasks[worker.task].dir = "in"
      /\ ~worker.stale => worker.found = entity
      /\ worker.found.kind = "none" => worker.found = None
  BY LookingNow
<1>2. InWork'
  BY <1>1 DEF InWork, Looking
<1>3. worker'.task \in DOMAIN tasks' /\ Due(worker.task)' /\ tasks'[worker'.task].dir = "in"
  BY <1>1 DEF Due
<1>4. CASE worker'.at = "comment"
  <2>1. worker'.at \notin Looking
    BY <1>4 DEF Looking
  <2>2. worker'.found.kind # "lead" =>
          /\ worker'.contact # 0
          /\ worker'.found.kind = "none" /\ ~worker'.stale => entity' = None
    BY <1>1, <2>1
  <2>3. QED
    BY <1>2, <1>3, <1>4, <2>1, <2>2 DEF WorkerHolds, At
<1>5. CASE worker'.at # "comment"
  <2>1. /\ worker'.at \in Looking /\ worker'.found = worker.found /\ ~worker'.new
        /\ ~worker'.stale => worker'.found = entity'
        /\ worker'.at \notin {"idle", "comment", "apply", "done"}
    BY <1>1, <1>5 DEF Looking
  <2>2. /\ worker'.at = "findContact" =>
             worker'.found.kind # "lead" /\ (~worker'.stale => worker'.contact = contact')
        /\ worker'.at # "getContact" /\ worker'.at # "getLead"
        /\ worker'.at = "rebind" => worker'.found.kind = "lead"
        /\ worker'.at = "findLead" => worker'.found.kind # "deal"
        /\ worker'.at = "findDeal" => worker'.found.kind = "none"
        /\ worker'.at \in {"findDeal", "newDeal"} => worker'.contact # 0
    BY <1>5
  <2>3. QED
    BY <1>2, <1>3, <2>1, <2>2 DEF WorkerHolds, At
<1>6. QED
  BY <1>2, <1>4, <1>5

LEMMA GetContactInv == ASSUME CrmCardInv, GetContact PROVE CrmCardInv'
<1> DEFINE f == worker.found
           c == worker.contact
<1>1. /\ worker.at = "getContact" /\ worker.at \in Looking
      /\ UNCHANGED <<cards, comments, crmMode, timelineMode, contact, entity, tasks, edits, faults>>
  BY DEF GetContact, At, Looking, Read, portal, settings, links
<1>2. /\ f.kind # "lead" /\ c # 0 /\ c \in DOMAIN cards /\ InWork
      /\ ~worker.stale => c = contact /\ f = entity
  BY <1>1, LookingNow DEF CrmCardInv, WorkerHolds
<1>3. CASE Alive(c) /\ f.id # 0
  <2>1. f.kind = "deal" /\ Resolved("deal", f.id, c, FALSE)
    BY <1>1, <1>2, <1>3, LookingNow DEF GetContact, KnownContact
  <2>2. /\ worker' \in WorkerType /\ worker'.at = "comment" /\ worker'.task = worker.task
        /\ worker'.found = f /\ worker'.contact = c /\ worker'.new = FALSE /\ worker'.stale = worker.stale
    <3>1. f.id \in Nat /\ c \in Nat /\ "deal" \in {"none", "deal", "lead"} /\ FALSE \in BOOLEAN
      BY <1>1, LookingNow
    <3>2. /\ worker' \in WorkerType /\ worker'.at = "comment" /\ worker'.task = worker.task
          /\ worker'.found = [kind |-> "deal", id |-> f.id] /\ worker'.contact = c /\ worker'.new = FALSE
          /\ worker'.stale = worker.stale
      BY ZenonT(40), <2>1, <3>1, ResolvedTo
    <3>3. QED
      BY <1>1, <2>1, <3>2, LookingNow
  <2>3. WorkerHolds' /\ InWork'
    BY <1>1, <1>2, <2>1, <2>2, HoldsNext
  <2>4. LeavesExcused'
    BY <1>1, <1>2, <2>2 DEF LeavesExcused, Looking
  <2>5. HasCard => HasCard'
    BY <1>1, <1>2, <2>1, <2>2, <2>3 DEF HasCard, Keeps, Alive, At
  <2>6. QED
    BY <1>1, <1>2, <2>2, <2>3, <2>4, <2>5, LookingNow, ReadStep
<1>4. CASE Alive(c) /\ f.id = 0
  <2>1. worker' = [worker EXCEPT !.at = "findDeal", !.contact = c] /\ f.kind = "none"
    BY <1>1, <1>2, <1>4, LookingNow DEF GetContact, KnownContact
  <2>2. /\ worker' \in WorkerType /\ worker'.at = "findDeal" /\ worker'.task = worker.task
        /\ worker'.found = f /\ worker'.contact = c /\ worker'.new = worker.new /\ worker'.stale = worker.stale
    BY <1>1, <2>1, LookingNow, Turned DEF Looking
  <2>3. WorkerHolds' /\ InWork'
    BY <1>1, <1>2, <2>1, <2>2, LookingNow, HoldsNext DEF Looking
  <2>4. LeavesExcused'
    BY <2>2 DEF LeavesExcused, Looking
  <2>5. HasCard => HasCard'
    BY <1>1, <1>2, <2>1, <2>2, <2>3 DEF HasCard, Keeps, Alive, At
  <2>6. QED
    BY <1>1, <1>2, <2>2, <2>3, <2>4, <2>5, LookingNow, ReadStep DEF Looking
<1>5. CASE ~Alive(c)
  <2>1. Goto("findContact")
    BY <1>2, <1>5 DEF GetContact
  <2>2. /\ worker' \in WorkerType /\ worker'.at = "findContact" /\ worker'.task = worker.task
        /\ worker'.found = f /\ worker'.contact = c /\ worker'.new = worker.new /\ worker'.stale = worker.stale
    BY <1>1, <1>2, <2>1, LookingNow, Gone DEF Looking
  <2>3. WorkerHolds' /\ InWork'
    BY <1>1, <1>2, <2>2, LookingNow, HoldsNext DEF Looking
  <2>4. LeavesExcused'
    <3>1. entity.id # 0 /\ ~worker.stale => Excused
      BY <1>1, <1>2, <1>5, LookingNow DEF Excused
    <3>2. Excused => Excused'
      BY <1>1 DEF Excused, Alive
    <3>3. QED
      BY <1>1, <2>2, <3>1, <3>2 DEF LeavesExcused
  <2>5. ~HasCard
    BY <1>1, <1>2, <1>5, LookingNow DEF HasCard, Keeps, Alive, At
  <2>6. QED
    BY <1>1, <1>2, <2>2, <2>3, <2>4, <2>5, LookingNow, ReadStep DEF Looking
<1>6. QED
  BY <1>3, <1>4, <1>5

LEMMA ByPhoneFinds ==
  ASSUME CrmCardInv, NEW kind, NEW c \in ByPhone(kind)
  PROVE  c \in DOMAIN cards /\ c \in Nat /\ c # 0 /\ Alive(c)
BY TypesNow DEF ByPhone, Alive

Below == {ss \in Nat \X Nat : ss[1] < ss[2]}

LEMMA BelowWellFounded == IsWellFoundedOn(Below, Nat)
BY NatLessThanWellFounded DEF OpToRel, Below

(* The greatest is the one that is least far from the end.                 *)
LEMMA GreatestOf ==
  ASSUME NEW n \in Nat, NEW S \in SUBSET (1..n), S # {}
  PROVE  \E c \in S : \A d \in S : d <= c
<1> DEFINE T == {k \in Nat : k <= n /\ n - k \in S}
<1>1. PICK c \in S : TRUE
  OBVIOUS
<1>2. n - c \in T /\ T \subseteq Nat
  OBVIOUS
<1> HIDE DEF T
<1>3. PICK m \in T : \A k \in T : ~(<<k, m>> \in Below)
  BY <1>2, BelowWellFounded, WFMin
<1>4. m \in Nat /\ m <= n /\ n - m \in S
  BY <1>3 DEF T
<1>5. ASSUME NEW d \in S PROVE d <= n - m
  <2>1. n - d \in T /\ n - d \in Nat /\ d \in 1..n
    BY DEF T
  <2>2. ~(n - d < m)
    BY <1>3, <1>4, <2>1 DEF Below
  <2>3. QED
    BY <1>4, <2>1, <2>2
<1>6. QED
  BY <1>4, <1>5

LEMMA NewestIsOne ==
  ASSUME CrmCardInv, NEW S, S \subseteq DOMAIN cards, S # {}
  PROVE  Newest(S) \in S
<1>1. \E c \in S : \A d \in S : d <= c
  BY TypesNow, GreatestOf
<1>2. QED
  BY <1>1 DEF Newest

LEMMA OpenDealsFinds ==
  ASSUME CrmCardInv, NEW o, OpenDeals(o) # {}
  PROVE  /\ Newest(OpenDeals(o)) \in DOMAIN cards /\ Newest(OpenDeals(o)) \in Nat /\ Newest(OpenDeals(o)) # 0
         /\ Alive(Newest(OpenDeals(o)))
<1>1. OpenDeals(o) \subseteq DOMAIN cards /\ \A c \in OpenDeals(o) : Alive(c)
  BY DEF OpenDeals, Alive
<1>2. Newest(OpenDeals(o)) \in OpenDeals(o)
  BY <1>1, NewestIsOne
<1>3. QED
  BY <1>1, <1>2, TypesNow

(* The contact whose deal is looked for.                                   *)
LEMMA KnownContactStep ==
  ASSUME CrmCardInv, worker.at = "findContact", NEW c \in DOMAIN cards, KnownContact(c),
         UNCHANGED <<cards, comments, crmMode, timelineMode, contact, entity, tasks, edits, faults>>
  PROVE  CrmCardInv'
<1> DEFINE f == worker.found
<1>1. worker.at \in Looking /\ c \in Nat /\ c # 0
  BY TypesNow DEF Looking
<1>2. f.kind # "lead" /\ InWork /\ (~worker.stale => f = entity)
  BY <1>1, LookingNow DEF CrmCardInv, WorkerHolds
<1>3. ~HasCard
  BY <1>2 DEF HasCard, At
<1>4. CASE f.id # 0
  <2>1. f.kind = "deal" /\ Resolved("deal", f.id, c, FALSE)
    BY <1>1, <1>2, <1>4, LookingNow DEF KnownContact
  <2>2. /\ worker' \in WorkerType /\ worker'.at = "comment" /\ worker'.task = worker.task
        /\ worker'.found = f /\ worker'.contact = c /\ worker'.new = FALSE /\ worker'.stale = worker.stale
    <3>1. f.id \in Nat /\ "deal" \in {"none", "deal", "lead"} /\ FALSE \in BOOLEAN
      BY <1>1, LookingNow
    <3>2. /\ worker' \in WorkerType /\ worker'.at = "comment" /\ worker'.task = worker.task
          /\ worker'.found = [kind |-> "deal", id |-> f.id] /\ worker'.contact = c /\ worker'.new = FALSE
          /\ worker'.stale = worker.stale
      BY ZenonT(40), <1>1, <2>1, <3>1, ResolvedTo
    <3>3. QED
      BY <1>1, <2>1, <3>2, LookingNow
  <2>3. WorkerHolds' /\ InWork'
    BY <1>1, <1>2, <2>1, <2>2, HoldsNext
  <2>4. LeavesExcused'
    BY <1>2, <2>2 DEF LeavesExcused, Looking
  <2>5. QED
    BY <1>1, <1>3, <2>2, <2>3, <2>4, LookingNow, ReadStep
<1>5. CASE f.id = 0
  <2>1. worker' = [worker EXCEPT !.at = "findDeal", !.contact = c] /\ f.kind = "none"
    BY <1>1, <1>5, LookingNow DEF KnownContact
  <2>2. /\ worker' \in WorkerType /\ worker'.at = "findDeal" /\ worker'.task = worker.task
        /\ worker'.found = f /\ worker'.contact = c /\ worker'.new = worker.new /\ worker'.stale = worker.stale
    BY <1>1, <2>1, LookingNow, Turned DEF Looking
  <2>3. WorkerHolds' /\ InWork'
    BY <1>1, <1>2, <2>1, <2>2, LookingNow, HoldsNext DEF Looking
  <2>4. LeavesExcused'
    BY <2>2 DEF LeavesExcused, Looking
  <2>5. QED
    BY <1>1, <1>3, <2>2, <2>3, <2>4, LookingNow, ReadStep DEF Looking
<1>6. QED
  BY <1>4, <1>5

(* No client was found: a new one is to be made.                           *)
LEMMA NewClientStep ==
  ASSUME CrmCardInv, worker.at \in {"findContact", "findLead"}, NewClient,
         UNCHANGED <<cards, comments, crmMode, timelineMode, contact, entity, tasks, edits, faults>>
  PROVE  CrmCardInv'
<1>1. worker.at \in Looking
  BY DEF Looking
<1>2. ~HasCard /\ InWork
  BY <1>1, LookingNow DEF HasCard, At
<1>3. entity.id # 0 /\ ~worker.stale => Excused
  BY <1>1, <1>2 DEF CrmCardInv, LeavesExcused
<1>4. PICK a \in {"newLead", "newContact"} : Goto(a)
  BY DEF NewClient
<1>5. /\ worker' \in WorkerType /\ worker'.at = a /\ worker'.task = worker.task
      /\ worker'.found = worker.found /\ worker'.contact = worker.contact /\ worker'.new = worker.new
      /\ worker'.stale = worker.stale
  BY <1>4, Gone DEF Looking
<1>6. WorkerHolds' /\ InWork'
  BY <1>1, <1>5, LookingNow, HoldsNext DEF Looking
<1>7. LeavesExcused'
  BY <1>3, <1>5 DEF LeavesExcused, Excused, Alive
<1>8. QED
  BY <1>1, <1>2, <1>5, <1>6, <1>7, LookingNow, ReadStep DEF Looking

LEMMA FindContactInv == ASSUME CrmCardInv, FindContact PROVE CrmCardInv'
<1>1. /\ worker.at = "findContact"
      /\ UNCHANGED <<cards, comments, crmMode, timelineMode, contact, entity, tasks, edits, faults>>
  BY DEF FindContact, At, Read, portal, settings, links
<1>2. NewClient \/ \E c \in ByPhone("contact") : KnownContact(c)
  BY DEF FindContact
<1>3. QED
  BY <1>1, <1>2, NewClientStep, KnownContactStep, ByPhoneFinds

LEMMA FindDealInv == ASSUME CrmCardInv, FindDeal PROVE CrmCardInv'
<1>1. /\ worker.at = "findDeal" /\ worker.at \in Looking
      /\ UNCHANGED <<cards, comments, crmMode, timelineMode, contact, entity, tasks, edits, faults>>
  BY DEF FindDeal, At, Looking, Read, portal, settings, links
<1>2. /\ worker.found.kind = "none" /\ worker.found.id = 0 /\ worker.contact # 0 /\ InWork
      /\ ~worker.stale => entity.id = 0
  BY <1>1, LookingNow DEF CrmCardInv, WorkerHolds, At
<1>3. PICK k \in {"none", "deal"}, d \in Nat :
        /\ Resolved(k, d, worker.contact, FALSE) /\ (k = "none" <=> d = 0)
        /\ d = 0 \/ (d \in DOMAIN cards /\ Alive(d))
  <2>1. CASE OpenDeals(worker.contact) = {}
    BY <2>1 DEF FindDeal
  <2>2. CASE OpenDeals(worker.contact) # {}
    BY <2>2, OpenDealsFinds DEF FindDeal
  <2>3. QED
    BY <2>1, <2>2
<1>4. /\ worker' \in WorkerType /\ worker'.at = "comment" /\ worker'.task = worker.task
      /\ worker'.found.kind = k /\ worker'.found.id = d /\ worker'.contact = worker.contact /\ worker'.new = FALSE
      /\ worker'.stale = worker.stale
  <2>1. worker.contact \in Nat /\ k \in {"none", "deal", "lead"} /\ FALSE \in BOOLEAN
    BY <1>1, LookingNow
  <2>2. QED
    BY ZenonT(40), <1>3, <2>1, ResolvedTo
<1>5. WorkerHolds' /\ InWork'
  BY <1>1, <1>2, <1>4, HoldsNext
<1>6. LeavesExcused'
  BY <1>1, <1>2, <1>4 DEF LeavesExcused
<1>7. HasCard => HasCard'
  <2>1. HasCard => crmMode = "deal" /\ Alive(worker.contact)
    BY <1>1, <1>2, LookingNow, TypesNow DEF HasCard, Keeps, Alive, At
  <2>2. crmMode = "deal" /\ Alive(worker.contact) => HasCard'
    BY <1>1, <1>2, <1>3, <1>4, <1>5 DEF HasCard, Keeps, Alive, At
  <2>3. QED
    BY <2>1, <2>2
<1>8. QED
  BY <1>1, <1>3, <1>4, <1>5, <1>6, <1>7, LookingNow, ReadStep

LEMMA GetLeadInv == ASSUME CrmCardInv, GetLead PROVE CrmCardInv'
<1> DEFINE f == worker.found
           l == worker.found.id
<1>1. /\ worker.at = "getLead" /\ worker.at \in Looking
      /\ UNCHANGED <<cards, comments, crmMode, timelineMode, contact, entity, tasks, edits, faults>>
  BY DEF GetLead, At, Looking, Read, portal, settings, links
<1>2. /\ f.kind = "lead" /\ l # 0 /\ l \in DOMAIN cards /\ l \in Nat /\ ~worker.new /\ InWork
      /\ ~worker.stale => f = entity
  BY <1>1, LookingNow DEF CrmCardInv, WorkerHolds, At
<1>3. CASE ~Alive(l)
  <2>1. Goto("findLead")
    BY <1>2, <1>3 DEF GetLead
  <2>2. /\ worker' \in WorkerType /\ worker'.at = "findLead" /\ worker'.task = worker.task
        /\ worker'.found = f /\ worker'.contact = worker.contact /\ worker'.new = worker.new
        /\ worker'.stale = worker.stale
    BY <1>2, <2>1, Gone DEF Looking
  <2>3. WorkerHolds' /\ InWork'
    BY <1>1, <1>2, <2>2, LookingNow, HoldsNext DEF Looking
  <2>4. LeavesExcused'
    BY <1>1, <1>2, <1>3, <2>2 DEF LeavesExcused, Excused, Alive
  <2>5. ~HasCard
    BY <1>1, <1>2, <1>3 DEF HasCard, Keeps, Alive, At
  <2>6. QED
    BY <1>1, <1>2, <2>2, <2>3, <2>4, <2>5, LookingNow, ReadStep DEF Looking
<1>4. CASE Alive(l) /\ cards[l].open
  <2>1. Resolved("lead", l, 0, FALSE)
    BY <1>2, <1>4 DEF GetLead
  <2>2. /\ worker' \in WorkerType /\ worker'.at = "comment" /\ worker'.task = worker.task
        /\ worker'.found = f /\ worker'.contact = 0 /\ worker'.new = FALSE /\ worker'.stale = worker.stale
    <3>1. l \in Nat /\ 0 \in Nat /\ "lead" \in {"none", "deal", "lead"} /\ FALSE \in BOOLEAN
      BY <1>2
    <3>2. /\ worker' \in WorkerType /\ worker'.at = "comment" /\ worker'.task = worker.task
          /\ worker'.found = [kind |-> "lead", id |-> l] /\ worker'.contact = 0 /\ worker'.new = FALSE
          /\ worker'.stale = worker.stale
      BY ZenonT(40), <2>1, <3>1, ResolvedTo
    <3>3. QED
      BY <1>1, <1>2, <3>2, LookingNow
  <2>3. WorkerHolds' /\ InWork'
    BY <1>1, <1>2, <2>2, HoldsNext
  <2>4. LeavesExcused'
    BY <1>1, <1>2, <2>2 DEF LeavesExcused, Looking
  <2>5. HasCard'
    BY <1>1, <1>2, <1>4, <2>2, <2>3 DEF HasCard, Keeps, Alive, At
  <2>6. QED
    BY <1>1, <1>2, <2>2, <2>3, <2>4, <2>5, LookingNow, ReadStep
<1>5. CASE Alive(l) /\ ~cards[l].open
  <2>1. PICK c \in Nat : c = cards[l].owner /\ (c = 0 \/ c \in DOMAIN cards)
    BY <1>2, TypesNow DEF CardType, CrmCardInv, LinksHold, OrNone
  <2>2. worker' = [worker EXCEPT !.at = "rebind", !.contact = c]
    BY <1>2, <1>5, <2>1 DEF GetLead
  <2>3. /\ worker' \in WorkerType /\ worker'.at = "rebind" /\ worker'.task = worker.task
        /\ worker'.found = f /\ worker'.contact = c /\ worker'.new = worker.new /\ worker'.stale = worker.stale
    BY <1>2, <2>2, Turned DEF Looking
  <2>4. WorkerHolds' /\ InWork'
    BY <1>1, <1>2, <2>3, LookingNow, HoldsNext DEF Looking
  <2>5. LeavesExcused'
    BY <1>1, <1>2, <1>5, <2>3 DEF LeavesExcused, Excused
  <2>6. ~HasCard
    BY <1>1, <1>2, <1>5 DEF HasCard, Keeps, At
  <2>7. QED
    BY <1>1, <1>2, <2>1, <2>3, <2>4, <2>5, <2>6, LookingNow, ReadStep DEF Looking
<1>6. QED
  BY <1>3, <1>4, <1>5

LEMMA RebindInv == ASSUME CrmCardInv, Rebind PROVE CrmCardInv'
<1>1. /\ worker.at = "rebind" /\ worker.at \in Looking
      /\ UNCHANGED <<cards, comments, crmMode, timelineMode, contact, entity, tasks, edits, faults>>
  BY DEF Rebind, At, Looking, Read, portal, settings, links
<1>2. /\ worker.found.kind = "lead" /\ worker.found.id # 0 /\ worker.found.id \in DOMAIN cards
      /\ worker.found.id \in Nat /\ InWork
  BY <1>1, LookingNow DEF CrmCardInv, WorkerHolds, At
<1>3. ~HasCard /\ (entity.id # 0 /\ ~worker.stale => Excused)
  BY <1>1, <1>2 DEF HasCard, At, CrmCardInv, LeavesExcused, Looking
<1>4. PICK k \in {"deal", "lead"}, d \in Nat, c \in Nat :
        /\ Resolved(k, d, c, FALSE) /\ d # 0 /\ d \in DOMAIN cards
        /\ c = 0 \/ c \in DOMAIN cards
        /\ k = "deal" => c # 0
  <2>1. PICK c \in ByPhone("contact") \union {worker.contact} :
          IF c = 0 \/ OpenDeals(c) = {} THEN Resolved("lead", worker.found.id, c, FALSE)
          ELSE Resolved("deal", Newest(OpenDeals(c)), c, FALSE)
    BY DEF Rebind
  <2>2. c \in Nat /\ (c = 0 \/ c \in DOMAIN cards)
    BY <1>1, ByPhoneFinds, LookingNow
  <2>3. CASE c = 0 \/ OpenDeals(c) = {}
    BY <1>2, <2>1, <2>2, <2>3
  <2>4. CASE ~(c = 0 \/ OpenDeals(c) = {})
    BY <2>1, <2>2, <2>4, OpenDealsFinds
  <2>5. QED
    BY <2>3, <2>4
<1>5. /\ worker' \in WorkerType /\ worker'.at = "comment" /\ worker'.task = worker.task
      /\ worker'.found.kind = k /\ worker'.found.id = d /\ worker'.contact = c /\ worker'.new = FALSE
      /\ worker'.stale = worker.stale
  <2>1. k \in {"none", "deal", "lead"} /\ FALSE \in BOOLEAN
    OBVIOUS
  <2>2. QED
    BY ZenonT(40), <1>4, <2>1, ResolvedTo
<1>6. WorkerHolds' /\ InWork'
  BY <1>1, <1>2, <1>4, <1>5, HoldsNext
<1>7. LeavesExcused'
  BY <1>1, <1>3, <1>5 DEF LeavesExcused, Excused, Alive
<1>8. QED
  BY <1>1, <1>3, <1>4, <1>5, <1>6, <1>7, LookingNow, ReadStep

LEMMA FindLeadInv == ASSUME CrmCardInv, FindLead PROVE CrmCardInv'
<1> DEFINE leads == {c \in ByPhone("lead") : cards[c].open}
<1>1. /\ worker.at = "findLead" /\ worker.at \in Looking
      /\ UNCHANGED <<cards, comments, crmMode, timelineMode, contact, entity, tasks, edits, faults>>
  BY DEF FindLead, At, Looking, Read, portal, settings, links
<1>2. InWork
  BY <1>1, LookingNow
<1>3. ~HasCard /\ (entity.id # 0 /\ ~worker.stale => Excused)
  BY <1>1, <1>2 DEF HasCard, At, CrmCardInv, LeavesExcused, Looking
<1>4. CASE leads = {}
  BY <1>1, <1>4, NewClientStep DEF FindLead
<1>5. CASE leads # {}
  <2>1. leads \subseteq DOMAIN cards
    BY DEF ByPhone
  <2>2. Newest(leads) \in leads
    BY <1>5, <2>1, NewestIsOne
  <2>3. PICK d \in Nat : Resolved("lead", d, 0, FALSE) /\ d # 0 /\ d \in DOMAIN cards
    BY <1>5, <2>1, <2>2, TypesNow DEF FindLead
  <2>4. /\ worker' \in WorkerType /\ worker'.at = "comment" /\ worker'.task = worker.task
        /\ worker'.found.kind = "lead" /\ worker'.found.id = d /\ worker'.contact = 0 /\ worker'.new = FALSE
        /\ worker'.stale = worker.stale
    BY <2>3, ResolvedTo
  <2>5. WorkerHolds' /\ InWork'
    BY <1>1, <2>4, HoldsNext
  <2>6. LeavesExcused'
    BY <1>1, <1>3, <2>4 DEF LeavesExcused, Excused, Alive
  <2>7. QED
    BY <1>1, <1>3, <2>3, <2>4, <2>5, <2>6, LookingNow, ReadStep
<1>6. QED
  BY <1>4, <1>5

-----------------------------------------------------------------------------
(* The worker makes a card, or loses the answer to it.                     *)

CardOf == CASE worker.at = "newLead" -> Card("lead", 0, TRUE)
            [] worker.at = "newContact" -> Card("contact", 0, TRUE)
            [] OTHER -> Card("deal", worker.contact, TRUE)

LEMMA CardMade ==
  ASSUME CrmCardInv, worker.at \in {"newLead", "newContact", "newDeal"}, cards' = Append(cards, CardOf)
  PROVE  /\ CardsGrow
         /\ Cardinality(Clients') = Cardinality(Clients) + (IF worker.at = "newDeal" THEN 0 ELSE 1)
         /\ Cardinality(Ours("contact")') = Cardinality(Ours("contact")) + (IF worker.at = "newContact" THEN 1 ELSE 0)
         /\ Cardinality(Ours("deal")') = Cardinality(Ours("deal")) + (IF worker.at = "newDeal" THEN 1 ELSE 0)
         /\ Len(cards) + 1 \in DOMAIN cards' /\ Len(cards) + 1 \in Nat /\ Len(cards) + 1 # 0
         /\ cards'[Len(cards) + 1] = CardOf /\ CardOf.alive /\ CardOf.open
<1>1. worker.at \in Looking
  BY DEF Looking
<1>2. /\ worker.contact \in Nat /\ (worker.contact = 0 \/ worker.contact \in DOMAIN cards)
      /\ worker.at = "newDeal" => worker.contact # 0
  BY <1>1, LookingNow DEF CrmCardInv, WorkerHolds
<1>3. /\ CardOf \in CardType /\ CardOf.ours /\ CardOf.alive /\ CardOf.open
      /\ CardOf.owner = 0 \/ CardOf.owner \in DOMAIN cards
      /\ CardOf.kind = "deal" <=> worker.at = "newDeal"
      /\ CardOf.kind = "contact" <=> worker.at = "newContact"
      /\ CardOf.kind \in {"contact", "lead"} <=> worker.at # "newDeal"
  BY <1>2 DEF CardOf, Card, CardType
<1>4. PICK x \in CardType : x = CardOf
  BY <1>3
<1>5. /\ Len(cards) + 1 \in DOMAIN cards' /\ cards'[Len(cards) + 1] = x
      /\ \A d \in DOMAIN cards : d \in DOMAIN cards'
  BY <1>4, TypesNow, AppendFacts
<1>6. x.owner = 0 \/ x.owner \in DOMAIN cards'
  BY <1>3, <1>4, <1>5
<1>7. /\ CardsGrow
      /\ \A kind : Cardinality(Ours(kind)') = Cardinality(Ours(kind)) + (IF x.kind = kind /\ x.ours THEN 1 ELSE 0)
      /\ Cardinality(Clients') =
           Cardinality(Clients) + (IF x.kind \in {"contact", "lead"} /\ x.ours THEN 1 ELSE 0)
  BY <1>3, <1>4, <1>6, OursAppended
<1>8. QED
  BY <1>3, <1>4, <1>5, <1>7, TypesNow

LEMMA CreateStep ==
  ASSUME CrmCardInv, UNCHANGED <<comments, crmMode, timelineMode, contact, entity, tasks, edits, faults>>,
         worker.at \in {"newLead", "newContact", "newDeal"}, cards' = Append(cards, CardOf),
         worker' \in WorkerType, worker'.task = worker.task, worker'.stale = worker.stale,
         IF worker.at = "newContact" THEN worker'.at = "newDeal" ELSE worker'.at = "comment" /\ worker'.new,
         worker'.found.id = 0 \/ worker'.found.id \in DOMAIN cards',
         worker'.found.kind = "none" <=> worker'.found.id = 0,
         worker'.contact = 0 \/ worker'.contact \in DOMAIN cards',
         WorkerHolds', IF worker.at = "newDeal" THEN HasCard => HasCard' ELSE HasCard'
  PROVE  CrmCardInv'
<1>1. CardsGrow
  BY CardMade
<1>2. CardTypes'
  BY <1>1, TypesNow, TypesNext DEF CardsGrow
<1>3. LinksHold'
  <2>1. worker'.found \in Link
    BY DEF WorkerType
  <2>2. QED
    BY <1>1, <2>1, LinksNext
<1>4. worker.at \in Looking \ {"getContact", "findDeal", "getLead"}
  BY DEF Looking
<1>5. LeavesExcused'
  <2>1. InWork
    BY <1>4, LookingNow
  <2>2. entity.id # 0 /\ ~worker.stale => Excused
    BY <1>4, <2>1 DEF CrmCardInv, LeavesExcused
  <2>3. Excused => Excused'
    BY <1>1, ExcusedStays, TypesNow
  <2>4. QED
    BY <2>2, <2>3 DEF LeavesExcused
<1>6. /\ worker.at # "newDeal" => ~HasCard
      /\ worker.at # "newDeal" => CommentOwed = 0 /\ DealOwed = 0 /\ Credit = 0
      /\ worker.at = "newDeal" => CommentOwed = 1 /\ DealOwed = 1
      /\ CommentOwed' = 1
      /\ worker.at # "newContact" => DealOwed' = 0
      /\ worker.at = "newContact" => DealOwed' = 1
      /\ worker.at # "newDeal" => Credit' = 1
      /\ Credit = 1 => Credit' = 1
      /\ Credit \in {0, 1} /\ Credit' \in {0, 1} /\ Debt \in {0, 1} /\ Debt' = Debt
  <2>1. worker.at # "newDeal" => ~HasCard
    <3>1. InWork
      BY <1>4, LookingNow
    <3>2. QED
      BY <3>1 DEF HasCard, At
  <2>2. worker.at # "newDeal" => CommentOwed = 0 /\ DealOwed = 0
    BY OwedNow
  <2>3. worker.at = "newDeal" => CommentOwed = 1 /\ DealOwed = 1
    BY OwedNow
  <2>4. CommentOwed' = 1
    BY OwedNext
  <2>5. (worker.at # "newContact" => DealOwed' = 0) /\ (worker.at = "newContact" => DealOwed' = 1)
    BY OwedNext
  <2>6. Debt' = Debt
    BY DEF Debt
  <2>7. QED
    BY <2>1, <2>2, <2>3, <2>4, <2>5, <2>6, OwedNow, OwedNext
<1>7. CardsCounted'
  <2>1. faults' = faults + 0 /\ edits' = edits + 0
    BY TypesNow
  <2>2. PICK k \in {0, 1}, l \in {0, 1}, v \in {0, 1} :
          Credit = k /\ Credit' = l /\ Debt = v /\ Debt' = v /\ (k = 1 => l = 1)
    BY <1>6
  <2>3. CASE worker.at = "newLead"
    <3>1. k = 0 /\ l = 1
      BY <1>6, <2>2, <2>3
    <3>2. Credit + Debt' + 1 <= Credit' + Debt + 0 + 0 /\ 0 + DealOwed' <= 0 + DealOwed + 0
      BY <1>6, <2>2, <2>3, <3>1
    <3>3. QED
      BY <2>1, <2>3, <3>2, CardMade, StepCounted
  <2>4. CASE worker.at = "newContact"
    <3>1. k = 0 /\ l = 1
      BY <1>6, <2>2, <2>4
    <3>2. Credit + Debt' + 1 <= Credit' + Debt + 0 + 0 /\ 0 + DealOwed' <= 1 + DealOwed + 0
      BY <1>6, <2>2, <2>4, <3>1
    <3>3. QED
      BY <2>1, <2>4, <3>2, CardMade, StepCounted
  <2>5. CASE worker.at = "newDeal"
    <3>1. k + v + 0 <= l + v + 0 + 0
      BY <2>2
    <3>2. Credit + Debt' + 0 <= Credit' + Debt + 0 + 0
      BY <2>2, <3>1
    <3>3. 1 + DealOwed' <= 0 + DealOwed + 0
      BY <1>6, <2>5
    <3>4. QED
      BY <2>1, <2>5, <3>2, <3>3, CardMade, StepCounted
  <2>6. QED
    BY <2>3, <2>4, <2>5
<1>8. CommentsCounted'
  <2>1. Passed' = Passed
    BY DEF Passed
  <2>2. Cardinality(Passed) \in Nat /\ Cardinality(Clients) \in Nat /\ faults \in Nat
    BY OursFinite, TypesNow
  <2>3. Cardinality(Clients) + CommentOwed' <= Cardinality(Clients') + CommentOwed /\ Cardinality(Clients') \in Nat
    BY <1>6, <2>2, CardMade
  <2>4. \A i \in DOMAIN tasks : tasks'[i].dir = tasks[i].dir
    OBVIOUS
  <2>5. QED
    BY <2>1, <2>2, <2>3, <2>4, CommentsOwed
<1>9. QED
  BY <1>2, <1>3, <1>5, <1>7, <1>8 DEF CrmCardInv

LEMMA CreateInv == ASSUME CrmCardInv, Create PROVE CrmCardInv'
<1> DEFINE n == Len(cards) + 1
<1>1. /\ worker.at \in {"newLead", "newContact", "newDeal"} /\ worker.at \in Looking
      /\ UNCHANGED <<comments, crmMode, timelineMode, contact, entity, tasks, edits, faults>>
  BY DEF Create, At, Looking, settings, links
<1>2. cards' = Append(cards, CardOf)
  BY <1>1 DEF Create, At, CardOf
<1>3. /\ n \in DOMAIN cards' /\ n \in Nat /\ n # 0 /\ cards'[n] = CardOf /\ CardOf.alive /\ CardOf.open
      /\ CardsGrow
  BY <1>1, <1>2, CardMade
<1>4. \A d \in DOMAIN cards : d \in DOMAIN cards' /\ cards'[d] = cards[d]
  BY <1>2, <1>3, TypesNow, AppendFacts DEF CardOf, Card, CardType
<1> HIDE DEF n
<1>5. CASE worker.at = "newLead"
  <2>1. Resolved("lead", n, 0, TRUE)
    BY <1>5 DEF Create, At, n
  <2>2. /\ worker' \in WorkerType /\ worker'.at = "comment" /\ worker'.task = worker.task
        /\ worker'.found.kind = "lead" /\ worker'.found.id = n /\ worker'.contact = 0 /\ worker'.new = TRUE
        /\ worker'.stale = worker.stale
    BY <1>3, <2>1, ResolvedTo
  <2>3. WorkerHolds' /\ InWork'
    BY <1>1, <2>2, HoldsNext
  <2>4. HasCard'
    BY <1>3, <2>2, <2>3 DEF CardOf, Card, HasCard, Keeps, Alive, At
  <2>5. QED
    BY <1>1, <1>2, <1>3, <1>5, <2>2, <2>3, <2>4, CreateStep
<1>6. CASE worker.at = "newContact"
  <2>1. worker' = [worker EXCEPT !.at = "newDeal", !.contact = n]
    BY <1>6 DEF Create, At, n
  <2>2. /\ worker' \in WorkerType /\ worker'.at = "newDeal" /\ worker'.task = worker.task
        /\ worker'.found = worker.found /\ worker'.contact = n /\ worker'.new = worker.new
        /\ worker'.stale = worker.stale
    BY <1>3, <2>1, Turned DEF Looking
  <2>3. WorkerHolds'
    BY <1>1, <1>3, <2>2, LookingNow, HoldsNext DEF Looking
  <2>4. HasCard'
    BY <1>3, <2>2 DEF HasCard, Alive, At
  <2>5. /\ worker'.found.id = 0 \/ worker'.found.id \in DOMAIN cards'
        /\ worker'.found.kind = "none" <=> worker'.found.id = 0
    BY <1>1, <1>4, <2>2, LookingNow
  <2>6. QED
    BY <1>1, <1>2, <1>3, <1>6, <2>2, <2>3, <2>4, <2>5, CreateStep
<1>7. CASE worker.at = "newDeal"
  <2>1. Resolved("deal", n, worker.contact, TRUE)
    BY <1>7 DEF Create, At, n
  <2>2. /\ worker.contact # 0 /\ worker.contact \in DOMAIN cards /\ worker.contact \in Nat
    BY <1>1, <1>7, LookingNow DEF CrmCardInv, WorkerHolds
  <2>3. /\ worker' \in WorkerType /\ worker'.at = "comment" /\ worker'.task = worker.task
        /\ worker'.found.kind = "deal" /\ worker'.found.id = n /\ worker'.contact = worker.contact /\ worker'.new = TRUE
        /\ worker'.stale = worker.stale
    BY <1>3, <2>1, <2>2, ResolvedTo
  <2>4. WorkerHolds' /\ InWork'
    BY <1>1, <2>2, <2>3, HoldsNext
  <2>5. HasCard => HasCard'
    <3>1. InWork
      BY <1>1, LookingNow
    <3>2. HasCard => Alive(worker.contact)
      BY <1>7, <3>1 DEF HasCard, At
    <3>3. QED
      BY <1>3, <1>4, <2>2, <2>3, <2>4, <3>2 DEF HasCard, Keeps, Alive, At
  <2>6. QED
    BY <1>1, <1>2, <1>3, <1>4, <1>7, <2>2, <2>3, <2>4, <2>5, CreateStep
<1>8. QED
  BY <1>1, <1>5, <1>6, <1>7

-----------------------------------------------------------------------------
(* The worker gives the task up for now, or is lost with it.               *)

LEMMA IdleWorker ==
  /\ Idle \in WorkerType /\ Idle.at = "idle" /\ Idle.found = None /\ Idle.contact = 0 /\ ~Idle.new /\ ~Idle.stale
  /\ None \in Link /\ None.kind = "none" /\ None.id = 0
<1>1. None \in Link /\ None.kind = "none" /\ None.id = 0
  BY DEF None, Link
<1>2. QED
  BY <1>1 DEF Idle, WorkerType

Abandoned ==
  /\ worker.at # "idle" /\ worker' = Idle
  /\ tasks' \in Seq(TaskType) /\ DOMAIN tasks' = DOMAIN tasks
  /\ \A i \in DOMAIN tasks : tasks'[i].dir = tasks[i].dir
  /\ \A i \in DOMAIN tasks \ {worker.task} : tasks'[i] = tasks[i]
  /\ tasks'[worker.task].status # "done"

LEMMA RetryAbandons ==
  ASSUME CrmCardInv, worker.at # "idle", FailOrRetry
  PROVE  Abandoned
<1> DEFINE i == worker.task
           t == IF tasks[i].attempts + 1 >= MaxAttempts
                  THEN [tasks[i] EXCEPT !.status = "failed", !.attempts = @ + 1]
                ELSE [tasks[i] EXCEPT !.status = "retrying", !.attempts = @ + 1]
<1>1. i \in DOMAIN tasks /\ tasks[i] \in TaskType
  BY TypesNow DEF CrmCardInv, WorkerHolds, At
<1>2. tasks' = [tasks EXCEPT ![i] = t] /\ worker' = Idle
  BY DEF FailOrRetry
<1>3. t \in TaskType /\ t.dir = tasks[i].dir /\ t.status # "done"
  <2>1. ASSUME NEW r \in TaskType, NEW s \in {"failed", "retrying"}
        PROVE  /\ [r EXCEPT !.status = s, !.attempts = @ + 1] \in TaskType
               /\ [r EXCEPT !.status = s, !.attempts = @ + 1].dir = r.dir
               /\ [r EXCEPT !.status = s, !.attempts = @ + 1].status # "done"
    <3>1. PICK n \in Nat : r.attempts + 1 = n
      BY DEF TaskType
    <3>2. [r EXCEPT !.status = s, !.attempts = @ + 1] = [r EXCEPT !.status = s, !.attempts = n]
      BY <3>1, Zenon
    <3>3. LET u == [r EXCEPT !.status = s, !.attempts = n]
          IN u \in TaskType /\ u.dir = r.dir /\ u.status # "done"
      BY DEF TaskType
    <3>4. QED
      BY <3>2, <3>3
  <2>2. t = [tasks[i] EXCEPT !.status = "failed", !.attempts = @ + 1]
        \/ t = [tasks[i] EXCEPT !.status = "retrying", !.attempts = @ + 1]
    BY Zenon
  <2>3. QED
    BY <1>1, <2>1, <2>2
<1> HIDE DEF t
<1>4. QED
  BY <1>1, <1>2, <1>3, TypesNow, ExceptFacts DEF Abandoned

LEMMA KeptAbandons ==
  ASSUME CrmCardInv, worker.at # "idle", worker' = Idle, tasks' = tasks
  PROVE  Abandoned
BY TypesNow DEF Abandoned, CrmCardInv, WorkerHolds, At, Due

LEMMA PassedLeft ==
  ASSUME CrmCardInv, Abandoned
  PROVE  /\ Passed' = Passed \ {worker.task}
         /\ worker.at \notin {"apply", "done"} => Passed' = Passed
         /\ Cardinality(Passed') \in Nat
         /\ Cardinality(Passed) <= Cardinality(Passed') + 1
<1>1. worker.task \in DOMAIN tasks /\ tasks[worker.task].status # "done"
  BY DEF Abandoned, CrmCardInv, WorkerHolds, At, Due
<1>2. Passed' = Passed \ {worker.task}
  BY <1>1, IdleWorker DEF Abandoned, Passed
<1>3. worker.at \notin {"apply", "done"} => Passed' = Passed
  BY <1>1, <1>2 DEF Passed
<1>4. IsFiniteSet(Passed) /\ Cardinality(Passed) \in Nat
  BY OursFinite
<1>5. Cardinality(Passed \ {worker.task}) \in Nat
      /\ Cardinality(Passed) <= Cardinality(Passed \ {worker.task}) + 1
  <2>1. CASE worker.task \in Passed
    <3>1. IsFiniteSet(Passed \ {worker.task})
          /\ Cardinality(Passed \ {worker.task}) = Cardinality(Passed) - 1
      BY <1>4, <2>1, FS_RemoveElement
    <3>2. PICK n \in Nat, m \in Nat : Cardinality(Passed \ {worker.task}) = m /\ Cardinality(Passed) = n
      BY <1>4, <3>1, FS_CardinalityType
    <3>3. n <= m + 1
      BY <3>1, <3>2
    <3>4. QED
      BY <3>2, <3>3
  <2>2. CASE worker.task \notin Passed
    <3>1. Passed \ {worker.task} = Passed
      BY <2>2
    <3>2. QED
      BY <1>4, <3>1
  <2>3. QED
    BY <2>1, <2>2
<1>6. QED
  BY <1>2, <1>3, <1>5

LEMMA AbandonedHolds ==
  ASSUME CrmCardInv, CardsGrow, Abandoned, comments' \in Seq(CommentType),
         UNCHANGED <<crmMode, timelineMode, contact, entity>>, faults' \in Nat, edits' \in Nat
  PROVE  CardTypes' /\ LinksHold' /\ WorkerHolds' /\ LeavesExcused'
<1>1. CardTypes'
  BY IdleWorker, TypesNow, TypesNext DEF Abandoned, CardsGrow
<1>2. LinksHold'
  BY IdleWorker, LinksNext DEF Abandoned
<1>3. worker'.at = "idle" /\ ~worker'.stale
  BY IdleWorker DEF Abandoned
<1>4. WorkerHolds'
  BY <1>3 DEF WorkerHolds, Looking, At
<1>5. LeavesExcused'
  BY <1>3 DEF LeavesExcused, Looking
<1>6. QED
  BY <1>1, <1>2, <1>4, <1>5

LEMMA NothingOwed ==
  ASSUME worker'.at \notin {"newDeal", "comment"}
  PROVE  DealOwed' = 0 /\ CommentOwed' = 0 /\ DealOwed' <= DealOwed /\ CommentOwed' <= CommentOwed
<1>1. DealOwed' = 0 /\ CommentOwed' = 0
  BY OwedNext
<1>2. 0 <= DealOwed /\ 0 <= CommentOwed
  BY OwedNow
<1>3. QED
  BY <1>1, <1>2

LEMMA FaultMore ==
  ASSUME CrmCardInv, faults' = faults + 1
  PROVE  faults' \in Nat /\ faults <= faults' /\ faults' > 0
BY TypesNow

(* A fault pays for the card the dialog may have lost.                     *)
LEMMA FaultCounted ==
  ASSUME CrmCardInv, UNCHANGED <<cards, edits>>, faults' = faults + 1, worker'.at # "newDeal",
         worker'.stale => worker.stale
  PROVE  CardsCounted'
<1>1. Clients' = Clients /\ \A kind : Ours(kind)' = Ours(kind)
  BY DEF Clients, Ours
<1>2. edits' = edits + 0 /\ 1 + 0 >= 1
  BY TypesNow
<1>3. QED
  BY <1>1, <1>2, CardsKept

LEMMA AbandonStep ==
  ASSUME CrmCardInv, Abandoned, faults' = faults + 1,
         UNCHANGED <<cards, comments, crmMode, timelineMode, contact, entity, edits>>
  PROVE  CrmCardInv'
<1>1. CardTypes' /\ LinksHold' /\ WorkerHolds' /\ LeavesExcused'
  BY AbandonedHolds, CardsSame, FaultMore, TypesNow
<1>2. worker'.at = "idle" /\ ~worker'.stale
  BY IdleWorker DEF Abandoned
<1>3. DealOwed' = 0 /\ CommentOwed' <= CommentOwed
  BY <1>2, NothingOwed
<1>4. CardsCounted'
  BY <1>2, FaultCounted
<1>5. CommentsCounted'
  <2>1. /\ Cardinality(Passed') \in Nat /\ Cardinality(Passed) <= Cardinality(Passed') + 1
        /\ \A i \in DOMAIN tasks : i \in Passed' => i \in Passed
    BY PassedLeft
  <2>2. Cardinality(Passed) \in Nat /\ faults \in Nat
    BY OursFinite, TypesNow
  <2>3. Cardinality(Passed') + faults' >= Cardinality(Passed) + faults
    <3>1. PICK m \in Nat : Cardinality(Passed') = m
      BY <2>1
    <3>2. Cardinality(Passed) <= m + 1
      BY <2>1, <3>1
    <3>3. m + (faults + 1) >= Cardinality(Passed) + faults
      BY <2>2, <3>2
    <3>4. QED
      BY <3>1, <3>3
  <2>4. Clients' = Clients
    BY DEF Clients, Ours
  <2>5. QED
    BY <1>3, <2>1, <2>3, <2>4, FaultMore, CommentsRest DEF Abandoned
<1>6. QED
  BY <1>1, <1>4, <1>5 DEF CrmCardInv

(* get_contact, or get_lead, answers that the card is gone.                *)
LEMMA UnseenStep ==
  ASSUME CrmCardInv, faults' = faults + 1,
         UNCHANGED <<cards, comments, crmMode, timelineMode, contact, entity, tasks, edits>>,
         \/ worker.at = "getContact" /\ Goto("findContact")
         \/ worker.at = "getLead" /\ Goto("findLead")
  PROVE  CrmCardInv'
<1>1. worker.at \in Looking
  BY DEF Looking
<1>2. PICK a \in {"findContact", "findLead"} :
        /\ Goto(a)
        /\ a = "findContact" => worker.at = "getContact"
        /\ a = "findLead" => worker.at = "getLead"
  OBVIOUS
<1>3. /\ worker' \in WorkerType /\ worker'.at = a /\ worker'.task = worker.task
      /\ worker'.found = worker.found /\ worker'.contact = worker.contact /\ worker'.new = worker.new
      /\ worker'.stale = worker.stale
  BY <1>2, Gone DEF Looking
<1>4. CardTypes'
  BY <1>3, FaultMore, TypesNow, TypesNext
<1>5. LinksHold'
  BY <1>1, <1>3, CardsSame, LookingNow, LinksNext
<1>6. WorkerHolds'
  <2>1. /\ worker.at = "getContact" => worker.found.kind # "lead" /\ (~worker.stale => worker.contact = contact)
        /\ worker.at = "getLead" => worker.found.kind = "lead"
    BY DEF CrmCardInv, WorkerHolds
  <2>2. QED
    BY <1>1, <1>2, <1>3, <2>1, LookingNow, HoldsNext DEF Looking
<1>7. LeavesExcused'
  BY FaultMore DEF LeavesExcused, Excused
<1>8. DealOwed' = 0 /\ CommentOwed' <= CommentOwed
  BY <1>3, NothingOwed
<1>9. CardsCounted'
  BY <1>3, FaultCounted
<1>10. CommentsCounted'
  <2>1. Passed' = Passed /\ Clients' = Clients
    BY <1>1, <1>3 DEF Passed, Looking, Clients, Ours
  <2>2. Cardinality(Passed) \in Nat /\ faults \in Nat
    BY OursFinite, TypesNow
  <2>3. Cardinality(Passed) + (faults + 1) >= Cardinality(Passed) + faults
    BY <2>2
  <2>4. \A i \in DOMAIN tasks : tasks'[i].dir = tasks[i].dir
    OBVIOUS
  <2>5. QED
    BY <1>8, <2>1, <2>2, <2>3, <2>4, FaultMore, CommentsRest
<1>11. QED
  BY <1>4, <1>5, <1>6, <1>7, <1>9, <1>10 DEF CrmCardInv

LEMMA CallFailsInv == ASSUME CrmCardInv, CallFails PROVE CrmCardInv'
<1>1. /\ faults' = faults + 1 /\ worker.at # "idle"
      /\ UNCHANGED <<cards, comments, crmMode, timelineMode, contact, entity, edits>>
  BY DEF CallFails, Fault, At, portal, settings, links
<1>2. \/ worker.at = "getContact" /\ Goto("findContact") /\ tasks' = tasks
      \/ worker.at = "getLead" /\ Goto("findLead") /\ tasks' = tasks
      \/ worker' = Idle /\ tasks' = tasks
      \/ FailOrRetry
  BY DEF CallFails, At
<1>3. QED
  BY <1>1, <1>2, UnseenStep, AbandonStep, KeptAbandons, RetryAbandons

LEMMA CrashInv == ASSUME CrmCardInv, Crash PROVE CrmCardInv'
<1>1. /\ faults' = faults + 1 /\ worker.at # "idle" /\ worker' = Idle /\ tasks' = tasks
      /\ UNCHANGED <<cards, comments, crmMode, timelineMode, contact, entity, edits>>
  BY DEF Crash, Fault, At, portal, settings, links
<1>2. QED
  BY <1>1, AbandonStep, KeptAbandons

-----------------------------------------------------------------------------
(* The comment.                                                            *)

(* What is known when the comment is to be written.                        *)
LEMMA CommentNow ==
  ASSUME CrmCardInv, worker.at = "comment"
  PROVE  /\ worker.task \in DOMAIN tasks /\ worker.task \in Nat /\ Due(worker.task)
         /\ Target \in Nat
         /\ worker.task \notin Passed
         /\ timelineMode = "none" => ~Writes
         /\ timelineMode = "first" /\ Writes => tasks[worker.task].dir = "in" /\ CommentOwed = 1
         /\ timelineMode = "all" /\ tasks[worker.task].dir = "in" => Writes
<1>1. worker.task \in DOMAIN tasks /\ worker.task \in Nat /\ Due(worker.task) /\ tasks[worker.task] \in TaskType
  BY TypesNow DEF CrmCardInv, WorkerHolds, At
<1>2. Target \in Nat
  BY TypesNow DEF Target, WorkerType, Link
<1>3. worker.task \notin Passed
  BY <1>1 DEF Passed, Due
<1>4. /\ timelineMode = "none" => ~Writes
      /\ timelineMode = "first" /\ Writes => tasks[worker.task].dir = "in" /\ worker.new
      /\ timelineMode = "all" /\ tasks[worker.task].dir = "in" => Writes
  BY <1>1 DEF Writes, TaskType
<1>5. QED
  BY <1>1, <1>2, <1>3, <1>4, OwedNow

(* A comment is written, with or without an answer.                        *)
LEMMA CommentWritten ==
  ASSUME CrmCardInv, worker.at = "comment", Writes, NEW q, q = [card |-> Target, msg |-> worker.task],
         comments' = Append(comments, q),
         timelineMode' = timelineMode, cards' = cards,
         DOMAIN tasks' = DOMAIN tasks, \A i \in DOMAIN tasks : tasks'[i].dir = tasks[i].dir,
         CommentOwed' = 0, faults' \in Nat, Cardinality(Passed') \in Nat,
         Cardinality(Passed) + faults + 1 <= Cardinality(Passed') + faults',
         \A i \in Passed' : i \in Passed \/ i = worker.task
  PROVE  CommentsCounted' /\ comments' \in Seq(CommentType)
<1>1. q \in CommentType /\ q.msg = worker.task
  BY CommentNow DEF CommentType
<1>2. /\ comments' \in Seq(CommentType) /\ Len(comments') = Len(comments) + 1
      /\ Len(comments) + 1 \in DOMAIN comments' /\ comments'[Len(comments) + 1] = q
      /\ \A k \in DOMAIN comments : k \in DOMAIN comments' /\ comments'[k] = comments[k]
      /\ \A k \in DOMAIN comments' : k \in DOMAIN comments \/ k = Len(comments) + 1
  BY <1>1, TypesNow, AppendFacts
<1>3. /\ Len(comments) <= Cardinality(Passed) + faults
      /\ timelineMode = "first" => Len(comments) + CommentOwed <= Cardinality(Clients)
      /\ \A k \in DOMAIN comments : comments[k].msg \in DOMAIN tasks
      /\ \A i \in DOMAIN tasks :
           /\ timelineMode = "none" => Of(i) = {}
           /\ timelineMode = "first" /\ tasks[i].dir = "out" => Of(i) = {}
           /\ timelineMode = "all" /\ tasks[i].dir = "in" /\ i \in Passed => Of(i) # {}
  BY DEF CrmCardInv, CommentsCounted
<1>4. Len(comments') <= Cardinality(Passed') + faults'
  <2>1. PICK p \in Nat, f \in Nat : Cardinality(Passed') = p /\ faults' = f
    OBVIOUS
  <2>2. Cardinality(Passed) \in Nat /\ faults \in Nat /\ Len(comments) \in Nat
    BY OursFinite, TypesNow
  <2>3. Cardinality(Passed) + faults + 1 <= p + f
    BY <2>1
  <2>4. Len(comments) + 1 <= p + f
    BY <1>3, <2>2, <2>3
  <2>5. QED
    BY <1>2, <2>1, <2>4
<1>5. timelineMode' = "first" => Len(comments') + CommentOwed' <= Cardinality(Clients')
  <2>1. ASSUME timelineMode = "first" PROVE Len(comments) + 1 <= Cardinality(Clients)
    BY <1>3, <2>1, CommentNow
  <2>2. Clients' = Clients /\ Len(comments) + 1 \in Nat
    BY TypesNow DEF Clients, Ours
  <2>3. Len(comments) + 1 + 0 = Len(comments) + 1
    BY <2>2
  <2>4. QED
    BY <1>2, <2>1, <2>2, <2>3
<1>6. \A k \in DOMAIN comments' : comments'[k].msg \in DOMAIN tasks'
  BY <1>1, <1>2, <1>3, CommentNow
<1>7. ASSUME NEW i \in DOMAIN tasks'
      PROVE  /\ timelineMode' = "none" => Of(i)' = {}
             /\ timelineMode' = "first" /\ tasks'[i].dir = "out" => Of(i)' = {}
             /\ timelineMode' = "all" /\ tasks'[i].dir = "in" /\ i \in Passed' => Of(i)' # {}
  <2>1. CASE i = worker.task
    <3>1. Len(comments) + 1 \in Of(i)'
      BY <1>1, <1>2, <2>1 DEF Of
    <3>2. QED
      BY <2>1, <3>1, CommentNow
  <2>2. CASE i # worker.task
    <3>1. Of(i)' = Of(i)
      BY <1>1, <1>2, <2>2 DEF Of
    <3>2. QED
      BY <1>3, <2>2, <3>1
  <2>3. QED
    BY <2>1, <2>2
<1>8. QED
  BY <1>2, <1>4, <1>5, <1>6, <1>7 DEF CommentsCounted

LEMMA AnswerLostInv == ASSUME CrmCardInv, AnswerLost PROVE CrmCardInv'
<1>1. /\ faults' = faults + 1 /\ FailOrRetry
      /\ worker.at \in {"newLead", "newContact", "newDeal", "comment"}
      /\ UNCHANGED <<crmMode, timelineMode, contact, entity, edits>>
  BY DEF AnswerLost, Fault, At, settings, links
<1>2. Abandoned
  BY <1>1, RetryAbandons
<1>3. worker'.at = "idle" /\ ~worker'.stale /\ worker.at \notin {"apply", "done"}
  BY <1>1, <1>2, IdleWorker DEF Abandoned
<1>4. DealOwed' = 0 /\ CommentOwed' = 0
  BY <1>3, NothingOwed
<1>5. Passed' = Passed /\ Cardinality(Passed) \in Nat /\ faults \in Nat /\ faults' \in Nat
  BY <1>2, <1>3, PassedLeft, OursFinite, TypesNow, <1>1, FaultMore
<1>6. DOMAIN tasks' = DOMAIN tasks /\ \A i \in DOMAIN tasks : tasks'[i].dir = tasks[i].dir
  BY <1>2 DEF Abandoned
<1>7. CASE worker.at = "comment"
  <2>1. PICK q : q = [card |-> Target, msg |-> worker.task]
    OBVIOUS
  <2>2. Writes /\ comments' = Append(comments, q) /\ cards' = cards
    BY <1>7, <2>1 DEF AnswerLost, At
  <2>3. Cardinality(Passed) + faults + 1 <= Cardinality(Passed) + (faults + 1)
    BY <1>5
  <2>4. CommentsCounted' /\ comments' \in Seq(CommentType)
    BY <1>1, <1>4, <1>5, <1>6, <1>7, <2>1, <2>2, <2>3, CommentWritten
  <2>5. CardsCounted'
    BY <1>1, <1>3, <2>2, FaultCounted
  <2>6. CardTypes' /\ LinksHold' /\ WorkerHolds' /\ LeavesExcused'
    BY <1>1, <1>2, <1>5, <2>2, <2>4, AbandonedHolds, CardsSame, TypesNow
  <2>7. QED
    BY <2>4, <2>5, <2>6 DEF CrmCardInv
<1>8. CASE worker.at # "comment"
  <2>1. worker.at \in {"newLead", "newContact", "newDeal"} /\ comments' = comments
    BY <1>1, <1>8 DEF AnswerLost, At
  <2>2. cards' = Append(cards, CardOf)
    BY <1>8 DEF AnswerLost, At, CardOf
  <2>3. /\ CardsGrow
        /\ Cardinality(Clients') = Cardinality(Clients) + (IF worker.at = "newDeal" THEN 0 ELSE 1)
        /\ Cardinality(Ours("contact")') = Cardinality(Ours("contact")) + (IF worker.at = "newContact" THEN 1 ELSE 0)
        /\ Cardinality(Ours("deal")') = Cardinality(Ours("deal")) + (IF worker.at = "newDeal" THEN 1 ELSE 0)
    BY <2>1, <2>2, CardMade
  <2>4. CardTypes' /\ LinksHold' /\ WorkerHolds' /\ LeavesExcused'
    BY <1>1, <1>2, <1>5, <2>1, <2>3, AbandonedHolds, TypesNow
  <2>5. CardsCounted'
    <3>1. PICK a \in {0, 1}, b \in {0, 1}, d \in {0, 1} :
            /\ a = (IF worker.at = "newDeal" THEN 0 ELSE 1)
            /\ b = (IF worker.at = "newContact" THEN 1 ELSE 0)
            /\ d = (IF worker.at = "newDeal" THEN 1 ELSE 0)
      OBVIOUS
    <3>2. PICK k \in {0, 1}, l \in {0, 1}, x \in {0, 1}, v \in {0, 1} :
            Credit = k /\ Credit' = l /\ DealOwed = x /\ Debt = v /\ Debt' = 0
      BY <1>3, OwedNow, OwedNext
    <3>3. worker.at # "newDeal" => ~HasCard
      <4>1. InWork
        BY <2>1, LookingNow DEF Looking
      <4>2. QED
        BY <2>1, <4>1 DEF HasCard, At
    <3>4. (a = 1 => k = 0) /\ (d = 1 => x = 1)
      BY <3>1, <3>2, <3>3, OwedNow
    <3>5. k + 0 + a <= l + v + 1 + 0 /\ d + 0 <= b + x + 1
      BY <3>4
    <3>6. Credit + Debt' + a <= Credit' + Debt + 1 + 0 /\ d + DealOwed' <= b + DealOwed + 1
      BY <1>4, <3>2, <3>5
    <3>7. edits' = edits + 0
      BY <1>1, TypesNow
    <3>8. QED
      BY <1>1, <2>3, <3>1, <3>6, <3>7, StepCounted
  <2>6. CommentsCounted'
    <3>1. Cardinality(Clients) \in Nat /\ CommentOwed \in {0, 1}
      BY OursFinite, OwedNow
    <3>2. PICK a \in {0, 1} : Cardinality(Clients') = Cardinality(Clients) + a
      BY <2>3
    <3>3. Cardinality(Clients) + 0 <= Cardinality(Clients) + a + CommentOwed /\ Cardinality(Clients) + a \in Nat
      BY <3>1
    <3>4. Cardinality(Passed) + (faults + 1) >= Cardinality(Passed) + faults
      BY <1>5
    <3>5. QED
      BY <1>1, <1>4, <1>5, <1>6, <2>1, <3>2, <3>3, <3>4, CommentsOwed
  <2>7. QED
    BY <2>4, <2>5, <2>6 DEF CrmCardInv
<1>9. QED
  BY <1>7, <1>8

LEMMA GoneOn ==
  ASSUME CrmCardInv, NEW a \in {"apply", "done"}, Goto(a)
  PROVE  /\ worker' \in WorkerType /\ worker'.at = a /\ worker'.task = worker.task
         /\ worker'.found = worker.found /\ worker'.contact = worker.contact /\ worker'.new = worker.new
         /\ worker'.stale = worker.stale
BY TypesNow DEF Goto, WorkerType

LEMMA CommentInv == ASSUME CrmCardInv, Comment PROVE CrmCardInv'
<1>1. /\ worker.at = "comment"
      /\ UNCHANGED <<cards, crmMode, timelineMode, contact, entity, edits, faults>>
  BY DEF Comment, At, settings, links
<1>2. Cardinality(Passed) \in Nat /\ faults \in Nat /\ edits \in Nat /\ Cardinality(Clients) \in Nat
      /\ Clients' = Clients
  BY <1>1, OursFinite, TypesNow DEF Clients, Ours
<1>3. CASE tasks' = tasks /\ Goto("apply")
  <2>1. /\ worker' \in WorkerType /\ worker'.at = "apply" /\ worker'.task = worker.task
        /\ worker'.found = worker.found /\ worker'.contact = worker.contact /\ worker'.new = worker.new
        /\ worker'.stale = worker.stale /\ InWork' = InWork
    BY <1>1, <1>3, GoneOn DEF InWork
  <2>2. LinksHold'
    <3>1. /\ worker.found \in Link /\ (worker.found.id = 0 \/ worker.found.id \in DOMAIN cards)
          /\ (worker.found.kind = "none" <=> worker.found.id = 0)
          /\ (worker.contact = 0 \/ worker.contact \in DOMAIN cards)
      BY DEF CrmCardInv, LinksHold, LinkOrNone, OrNone
    <3>2. QED
      BY <1>1, <2>1, <3>1, CardsSame, LinksNext
  <2>3. WorkerHolds'
    BY <1>1, <1>3, <2>1 DEF CrmCardInv, WorkerHolds, Looking, At, Due
  <2>4. LeavesExcused'
    BY <1>1, <2>1 DEF CrmCardInv, LeavesExcused, Looking, Excused, Alive
  <2>5. HasCard => HasCard'
    BY <1>1, <2>1 DEF HasCard, Keeps, Alive, At
  <2>6. CardsCounted'
    BY <1>1, <2>1, <2>5, CardsFree
  <2>7. DealOwed' = 0 /\ CommentOwed' = 0
    BY <2>1, NothingOwed
  <2>8. Passed' = Passed \union {worker.task}
    BY <1>1, <1>3, <2>1, CommentNow DEF Passed
  <2>9. Cardinality(Passed') = Cardinality(Passed) + 1
    BY <1>1, <2>8, CommentNow, OursFinite, FS_AddElement
  <2>10. Cardinality(Passed') \in Nat /\ Cardinality(Passed) + faults + 1 <= Cardinality(Passed') + faults'
    BY <1>1, <1>2, <2>9
  <2>11. CommentsCounted' /\ comments' \in Seq(CommentType)
    <3>1. CASE Writes
      <4>1. PICK q : q = [card |-> Target, msg |-> worker.task]
        OBVIOUS
      <4>2. comments' = Append(comments, q)
        BY <1>3, <3>1, <4>1, IdleWorker, <2>1 DEF Comment, FailOrRetry
      <4>3. \A i \in Passed' : i \in Passed \/ i = worker.task
        BY <2>8
      <4>4. DOMAIN tasks' = DOMAIN tasks /\ \A i \in DOMAIN tasks : tasks'[i].dir = tasks[i].dir
        BY <1>3
      <4>5. faults' \in Nat
        BY <1>1, <1>2
      <4>6. QED
        BY <1>1, <2>7, <2>10, <3>1, <4>1, <4>2, <4>3, <4>4, <4>5, CommentWritten
    <3>2. CASE ~Writes
      <4>1. comments' = comments
        BY <3>2 DEF Comment
      <4>2. /\ Len(comments) <= Cardinality(Passed) + faults
            /\ timelineMode = "first" => Len(comments) + CommentOwed <= Cardinality(Clients)
            /\ \A k \in DOMAIN comments : comments[k].msg \in DOMAIN tasks
            /\ \A i \in DOMAIN tasks :
                 /\ timelineMode = "none" => Of(i) = {}
                 /\ timelineMode = "first" /\ tasks[i].dir = "out" => Of(i) = {}
                 /\ timelineMode = "all" /\ tasks[i].dir = "in" /\ i \in Passed => Of(i) # {}
        BY DEF CrmCardInv, CommentsCounted
      <4>3. Len(comments) <= Cardinality(Passed) + 1 + faults
        BY <1>2, <4>2, TypesNow
      <4>4. timelineMode = "first" => Len(comments) + 0 <= Cardinality(Clients)
        <5>1. Len(comments) \in Nat /\ CommentOwed \in {0, 1}
          BY TypesNow, OwedNow
        <5>2. QED
          BY <1>2, <4>2, <5>1
      <4>5. \A i \in DOMAIN tasks' :
              /\ timelineMode' = "none" => Of(i)' = {}
              /\ timelineMode' = "first" /\ tasks'[i].dir = "out" => Of(i)' = {}
              /\ timelineMode' = "all" /\ tasks'[i].dir = "in" /\ i \in Passed' => Of(i)' # {}
        <5>1. \A i : Of(i)' = Of(i)
          BY <4>1 DEF Of
        <5>2. QED
          BY <1>1, <1>3, <2>8, <3>2, <4>2, <5>1, CommentNow
      <4>6. Len(comments') <= Cardinality(Passed') + faults'
        BY <1>1, <2>9, <4>1, <4>3
      <4>7. timelineMode' = "first" => Len(comments') + CommentOwed' <= Cardinality(Clients')
        BY <1>1, <1>2, <2>7, <4>1, <4>4
      <4>8. \A k \in DOMAIN comments' : comments'[k].msg \in DOMAIN tasks'
        BY <1>3, <4>1, <4>2
      <4>9. QED
        BY <4>1, <4>5, <4>6, <4>7, <4>8, TypesNow DEF CommentsCounted
    <3>3. QED
      BY <3>1, <3>2
  <2>12. CardTypes'
    BY <1>1, <1>3, <2>1, <2>11, TypesNow, TypesNext
  <2>13. QED
    BY <2>2, <2>3, <2>4, <2>6, <2>11, <2>12 DEF CrmCardInv
<1>4. CASE FailOrRetry /\ comments' = comments /\ Writes /\ ~Alive(Target)
  <2>1. Abandoned
    BY <1>1, <1>4, RetryAbandons
  <2>2. worker'.at = "idle" /\ ~worker'.stale /\ ~InWork' /\ worker.at \notin {"apply", "done"}
    BY <1>1, <2>1, IdleWorker DEF Abandoned, InWork
  <2>3. DealOwed' = 0 /\ CommentOwed' <= CommentOwed
    BY <2>2, NothingOwed
  <2>4. CardTypes' /\ LinksHold' /\ WorkerHolds' /\ LeavesExcused'
    BY <1>1, <1>2, <1>4, <2>1, AbandonedHolds, CardsSame, TypesNow
  <2>5. HasCard => HasCard'
    <3>1. CASE InWork
      <4>1. /\ worker.found.kind = "none" <=> worker.found.id = 0
            /\ worker.found.kind \in {"none", "deal", "lead"}
            /\ 0 \notin DOMAIN cards
        BY TypesNow DEF CrmCardInv, LinksHold, LinkOrNone, WorkerType, Link
      <4>2. HasCard => Keeps(worker.found, worker.contact)
        BY <1>1, <3>1 DEF HasCard, At
      <4>3. ~Keeps(worker.found, worker.contact)
        BY <1>4, <4>1 DEF Keeps, Target, Alive
      <4>4. QED
        BY <4>2, <4>3
    <3>2. CASE ~InWork
      <4>1. HasCard => Keeps(entity, contact)
        BY <1>1, <3>2 DEF HasCard, At
      <4>2. Keeps(entity, contact) => HasCard'
        BY <1>1, <2>2 DEF HasCard, Keeps, Alive, At
      <4>3. QED
        BY <4>1, <4>2
    <3>3. QED
      BY <3>1, <3>2
  <2>6. CardsCounted'
    BY <1>1, <2>2, <2>5, CardsFree
  <2>7. CommentsCounted'
    <3>1. Passed' = Passed
      BY <2>1, <2>2, PassedLeft
    <3>2. Cardinality(Passed) + faults >= Cardinality(Passed) + faults
      BY <1>2
    <3>3. QED
      BY <1>1, <1>2, <1>4, <2>1, <2>3, <3>1, <3>2, CommentsRest DEF Abandoned
  <2>8. QED
    BY <2>4, <2>6, <2>7 DEF CrmCardInv
<1>5. QED
  BY <1>3, <1>4 DEF Comment

-----------------------------------------------------------------------------
(* The end of the task, and the queue.                                     *)

(* A step that leaves the portal alone, and the dialog where it was.       *)
LEMMA QuietStep ==
  ASSUME CrmCardInv, UNCHANGED <<cards, comments, crmMode, timelineMode, edits, faults>>,
         DOMAIN tasks' = DOMAIN tasks, \A i \in DOMAIN tasks : tasks'[i].dir = tasks[i].dir,
         tasks' \in Seq(TaskType), worker' \in WorkerType, contact' \in Nat, entity' \in Link,
         worker'.at # "newDeal", worker'.at = "comment" => ~worker'.new,
         HasCard /\ ~(worker.stale /\ ~worker'.stale) => HasCard', worker'.stale => worker.stale,
         Passed' = Passed
  PROVE  CardTypes' /\ CardsCounted' /\ CommentsCounted'
<1>1. CardTypes'
  BY TypesNow, TypesNext
<1>2. CardsCounted'
  BY CardsFree
<1>3. CommentsCounted'
  <2>1. CommentOwed' = 0 /\ CommentOwed \in {0, 1}
    BY OwedNow, OwedNext
  <2>2. CommentOwed' <= CommentOwed
    BY <2>1
  <2>3. Cardinality(Passed) \in Nat /\ faults \in Nat /\ Clients' = Clients
    BY OursFinite, TypesNow DEF Clients, Ours
  <2>4. Cardinality(Passed) + faults >= Cardinality(Passed) + faults
    BY <2>3
  <2>5. QED
    BY <2>2, <2>3, <2>4, CommentsRest
<1>4. QED
  BY <1>1, <1>2, <1>3

LEMMA ApplyInv == ASSUME CrmCardInv, Apply PROVE CrmCardInv'
<1> DEFINE i == worker.task
           e == IF worker.found.id # 0 THEN worker.found ELSE entity
           c == IF worker.contact # 0 THEN worker.contact ELSE contact
<1>1. /\ worker.at = "apply" /\ worker' = [worker EXCEPT !.at = "done", !.stale = FALSE]
      /\ UNCHANGED <<cards, comments, crmMode, timelineMode, tasks, edits, faults>>
  BY DEF Apply, At, portal, settings
<1>2. /\ worker' \in WorkerType /\ worker'.at = "done" /\ worker'.task = worker.task
      /\ worker'.found = worker.found /\ worker'.contact = worker.contact /\ ~worker'.stale
  BY <1>1, TypesNow DEF WorkerType
<1>3. /\ i \in DOMAIN tasks /\ Due(i) /\ tasks[i].dir \in {"in", "out"}
      /\ InWork <=> tasks[i].dir = "in"
      /\ ~InWork'
  BY <1>1, <1>2, TypesNow DEF CrmCardInv, WorkerHolds, At, TaskType, InWork
<1>4. /\ LinkOrNone(entity) /\ LinkOrNone(worker.found) /\ OrNone(contact) /\ OrNone(worker.contact)
      /\ \A d \in DOMAIN cards : OrNone(cards[d].owner)
  BY DEF CrmCardInv, LinksHold
<1>5. IF InWork THEN entity' = e /\ contact' = c ELSE UNCHANGED <<entity, contact>>
  BY <1>3 DEF Apply, links
<1>6. contact \in Nat /\ worker.contact \in Nat /\ contact' \in Nat /\ entity' \in Link
  BY <1>4, <1>5, TypesNow DEF LinkOrNone, WorkerType
<1>7. LinksHold'
  BY <1>1, <1>2, <1>4, <1>5 DEF LinksHold, LinkOrNone, OrNone
<1>8. WorkerHolds'
  BY <1>1, <1>2, <1>3 DEF WorkerHolds, Looking, At, Due
<1>9. LeavesExcused'
  BY <1>3 DEF LeavesExcused
<1>10. HasCard /\ ~worker.stale => HasCard'
  <2>1. CASE InWork
    <3>1. HasCard => Keeps(worker.found, worker.contact)
      BY <1>1, <2>1 DEF HasCard, At
    <3>2. /\ worker.found.kind = "none" <=> worker.found.id = 0
          /\ worker.found.kind # "lead" => worker.contact # 0
          /\ worker.found.kind = "none" /\ ~worker.stale => entity = None
          /\ entity.kind = "none" <=> entity.id = 0
          /\ 0 \notin DOMAIN cards
      BY <1>1, <1>4, <2>1, TypesNow DEF CrmCardInv, WorkerHolds, LinkOrNone
    <3>3. CASE worker.found.id # 0
      <4>1. entity' = worker.found /\ (worker.found.kind # "lead" => contact' = worker.contact)
        BY <1>5, <2>1, <3>2, <3>3
      <4>2. Keeps(worker.found, worker.contact) => Keeps(entity, contact)'
        BY <1>1, <3>2, <3>3, <4>1 DEF Keeps, Alive
      <4>3. QED
        BY <1>3, <3>1, <4>2 DEF HasCard
    <3>4. CASE worker.found.id = 0 /\ ~worker.stale
      <4>1. entity' = None /\ contact' = worker.contact
        BY <1>5, <2>1, <3>2, <3>4
      <4>2. Keeps(worker.found, worker.contact) => Keeps(entity, contact)'
        BY <1>1, <3>2, <3>4, <4>1 DEF Keeps, Alive, None
      <4>3. QED
        BY <1>3, <3>1, <4>2 DEF HasCard
    <3>5. QED
      BY <3>3, <3>4
  <2>2. CASE ~InWork
    BY <1>1, <1>3, <1>5, <2>2 DEF HasCard, Keeps, Alive, At
  <2>3. QED
    BY <2>1, <2>2
<1>11. Passed' = Passed
  BY <1>1, <1>2 DEF Passed
<1>12. \A k \in DOMAIN tasks : tasks'[k].dir = tasks[k].dir
  BY <1>1
<1>13. CardTypes' /\ CardsCounted' /\ CommentsCounted'
  BY <1>1, <1>2, <1>6, <1>10, <1>11, <1>12, QuietStep, TypesNow
<1>14. QED
  BY <1>7, <1>8, <1>9, <1>13 DEF CrmCardInv

LEMMA DoneInv == ASSUME CrmCardInv, Done PROVE CrmCardInv'
<1> DEFINE i == worker.task
           t == [tasks[i] EXCEPT !.status = "done"]
<1>1. /\ worker.at = "done" /\ worker' = Idle
      /\ UNCHANGED <<cards, comments, crmMode, timelineMode, contact, entity, edits, faults>>
  BY DEF Done, At, portal, settings, links
<1>2. i \in DOMAIN tasks /\ tasks[i] \in TaskType
  BY <1>1, TypesNow DEF CrmCardInv, WorkerHolds, At
<1>3. t \in TaskType /\ t.dir = tasks[i].dir /\ t.status = "done"
  BY <1>2 DEF TaskType
<1>4. tasks' = [tasks EXCEPT ![i] = t]
  BY DEF Done
<1> HIDE DEF t
<1>5. /\ tasks' \in Seq(TaskType) /\ DOMAIN tasks' = DOMAIN tasks
      /\ tasks'[i] = t /\ \A k \in DOMAIN tasks \ {i} : tasks'[k] = tasks[k]
  BY <1>2, <1>3, <1>4, TypesNow, ExceptFacts
<1>6. /\ worker' \in WorkerType /\ worker'.at = "idle" /\ worker'.found = None /\ worker'.contact = 0
      /\ ~worker'.stale /\ ~InWork /\ ~InWork'
  BY <1>1, IdleWorker DEF InWork
<1>7. LinksHold'
  BY <1>1, <1>6, CardsSame, IdleWorker, LinksNext
<1>8. WorkerHolds'
  BY <1>6 DEF WorkerHolds, Looking, At
<1>9. LeavesExcused'
  BY <1>6 DEF LeavesExcused, Looking
<1>10. HasCard => HasCard'
  BY <1>1, <1>6 DEF HasCard, Keeps, Alive, At
<1>11. Passed' = Passed
  BY <1>1, <1>2, <1>3, <1>5, <1>6 DEF Passed
<1>12. \A k \in DOMAIN tasks : tasks'[k].dir = tasks[k].dir
  BY <1>3, <1>5
<1>13. CardTypes' /\ CardsCounted' /\ CommentsCounted'
  BY <1>1, <1>5, <1>6, <1>10, <1>11, <1>12, QuietStep, TypesNow
<1>14. QED
  BY <1>7, <1>8, <1>9, <1>13 DEF CrmCardInv

LEMMA TakeInv == ASSUME CrmCardInv, NEW i \in DOMAIN tasks, Take(i) PROVE CrmCardInv'
<1>1. /\ worker.at = "idle" /\ Due(i)
      /\ UNCHANGED <<cards, comments, crmMode, timelineMode, contact, entity, tasks, edits, faults>>
  BY DEF Take, At, portal, settings, links
<1>2. /\ entity \in Link /\ (entity.id = 0 \/ entity.id \in DOMAIN cards) /\ (entity.kind = "none" <=> entity.id = 0)
      /\ contact \in Nat /\ (contact = 0 \/ contact \in DOMAIN cards) /\ 0 \notin DOMAIN cards
      /\ entity = [kind |-> entity.kind, id |-> entity.id]
      /\ entity.kind \in {"none", "deal", "lead"} /\ crmMode \in {"deal", "lead"}
      /\ i \in Nat /\ tasks[i].dir \in {"in", "out"}
  BY TypesNow DEF CrmCardInv, LinksHold, LinkOrNone, OrNone, Link, TaskType
<1>3. PICK a \in {"comment", "getLead", "findLead", "getContact", "findContact"} :
        /\ worker' = [at |-> a, task |-> i, mode |-> crmMode, contact |-> contact, found |-> entity,
                      new |-> FALSE, stale |-> FALSE]
        /\ a = "comment" => tasks[i].dir = "out"
        /\ a # "comment" => tasks[i].dir = "in"
        /\ a \in {"getLead", "findLead"} => Kind(crmMode) = "lead"
        /\ a \in {"getContact", "findContact"} => Kind(crmMode) # "lead"
        /\ a = "getLead" => entity.id # 0
        /\ a = "findLead" => entity.id = 0
        /\ a = "getContact" => contact # 0
        /\ a = "findContact" => contact = 0
  <2>1. CASE tasks[i].dir = "out"
    BY <2>1 DEF Take
  <2>2. CASE tasks[i].dir = "in" /\ Kind(crmMode) = "lead"
    BY <2>2 DEF Take
  <2>3. CASE tasks[i].dir = "in" /\ Kind(crmMode) # "lead"
    BY <2>3 DEF Take
  <2>4. QED
    BY <1>2, <2>1, <2>2, <2>3
<1>4. /\ worker' \in WorkerType /\ worker'.at = a /\ worker'.task = i /\ worker'.found = entity
      /\ worker'.contact = contact /\ worker'.new = FALSE /\ ~worker'.stale
      /\ ~InWork /\ (InWork' <=> a # "comment")
  BY <1>1, <1>2, <1>3 DEF WorkerType, Looking, InWork, At
<1>5. /\ Kind(crmMode) = "lead" => entity.kind # "deal"
      /\ Kind(crmMode) # "lead" => entity.kind # "lead"
  BY <1>2 DEF Kind
<1>6. LinksHold'
  BY <1>1, <1>2, <1>4, CardsSame, LinksNext
<1>7. WorkerHolds'
  BY <1>1, <1>2, <1>3, <1>4, <1>5 DEF WorkerHolds, Looking, At, Due
<1>8. LeavesExcused'
  <2>1. ASSUME entity.id # 0, a = "findContact" PROVE Excused'
    BY <1>1, <1>2, <1>3, <1>5, <2>1 DEF Excused, Alive
  <2>2. QED
    BY <1>1, <1>2, <1>3, <1>4, <2>1 DEF LeavesExcused, Looking
<1>9. HasCard => HasCard'
  <2>1. HasCard => Keeps(entity, contact)
    BY <1>1 DEF HasCard, At
  <2>2. Keeps(entity, contact) => a \notin {"findLead", "findContact"}
    BY <1>2, <1>3 DEF Keeps, Alive, Kind
  <2>3. Keeps(entity, contact) /\ a \notin {"findLead", "findContact"} => HasCard'
    BY <1>1, <1>4 DEF HasCard, Keeps, Alive, At
  <2>4. QED
    BY <2>1, <2>2, <2>3
<1>10. Passed' = Passed
  BY <1>1, <1>4 DEF Passed
<1>11. \A k \in DOMAIN tasks : tasks'[k].dir = tasks[k].dir
  BY <1>1
<1>12. CardTypes' /\ CardsCounted' /\ CommentsCounted'
  BY <1>1, <1>2, <1>4, <1>9, <1>10, <1>11, QuietStep, TypesNow
<1>13. QED
  BY <1>6, <1>7, <1>8, <1>12 DEF CrmCardInv

LEMMA EnqueueInv == ASSUME CrmCardInv, NEW dir \in {"in", "out"}, Enqueue(dir) PROVE CrmCardInv'
<1> DEFINE t == [dir |-> dir, status |-> "queued", attempts |-> 0]
           n == Len(tasks) + 1
<1>1. UNCHANGED <<cards, comments, crmMode, timelineMode, contact, entity, worker, edits, faults>>
  BY DEF Enqueue, portal, settings, links
<1>2. t \in TaskType /\ t.status = "queued"
  BY DEF TaskType
<1>3. tasks' = Append(tasks, t)
  BY DEF Enqueue
<1> HIDE DEF t
<1>4. /\ tasks' \in Seq(TaskType) /\ tasks'[n] = t
      /\ \A i \in DOMAIN tasks : i \in DOMAIN tasks' /\ tasks'[i] = tasks[i]
      /\ \A i \in DOMAIN tasks' : i \in DOMAIN tasks \/ i = n
      /\ n \notin DOMAIN tasks
  BY <1>2, <1>3, TypesNow, AppendFacts
<1> HIDE DEF n
<1>5. (worker.at # "idle" => worker.task \in DOMAIN tasks) /\ InWork' = InWork
  BY <1>1, <1>4 DEF CrmCardInv, WorkerHolds, At, InWork
<1>6. CardTypes'
  BY <1>1, <1>4, TypesNow, TypesNext
<1>7. LinksHold'
  BY <1>1 DEF CrmCardInv, LinksHold, LinkOrNone, OrNone
<1>8. WorkerHolds'
  BY <1>1, <1>4, <1>5 DEF CrmCardInv, WorkerHolds, Looking, At, Due
<1>9. LeavesExcused'
  BY <1>1, <1>5 DEF CrmCardInv, LeavesExcused, Excused, Alive
<1>10. CardsCounted'
  <2>1. HasCard => HasCard'
    BY <1>1, <1>5 DEF HasCard, Keeps, Alive, At
  <2>2. QED
    BY <1>1, <2>1, CardsFree
<1>11. CommentsCounted'
  <2>1. Passed' = Passed
    BY <1>1, <1>2, <1>4, <1>5 DEF Passed
  <2>2. CommentOwed' = CommentOwed /\ Clients' = Clients /\ \A i : Of(i)' = Of(i)
    BY <1>1 DEF CommentOwed, At, Clients, Ours, Of
  <2>3. /\ Len(comments) <= Cardinality(Passed) + faults
        /\ timelineMode = "first" => Len(comments) + CommentOwed <= Cardinality(Clients)
        /\ \A k \in DOMAIN comments : comments[k].msg \in DOMAIN tasks
        /\ \A i \in DOMAIN tasks :
             /\ timelineMode = "none" => Of(i) = {}
             /\ timelineMode = "first" /\ tasks[i].dir = "out" => Of(i) = {}
             /\ timelineMode = "all" /\ tasks[i].dir = "in" /\ i \in Passed => Of(i) # {}
    BY DEF CrmCardInv, CommentsCounted
  <2>4. Of(n) = {} /\ n \notin Passed
    BY <1>4, <2>3 DEF Of, Passed
  <2>5. /\ Len(comments') <= Cardinality(Passed') + faults'
        /\ timelineMode' = "first" => Len(comments') + CommentOwed' <= Cardinality(Clients')
    BY <1>1, <2>1, <2>2, <2>3
  <2>6. \A k \in DOMAIN comments' : comments'[k].msg \in DOMAIN tasks'
    BY <1>1, <1>4, <2>3
  <2>7. \A i \in DOMAIN tasks' :
          /\ timelineMode' = "none" => Of(i)' = {}
          /\ timelineMode' = "first" /\ tasks'[i].dir = "out" => Of(i)' = {}
          /\ timelineMode' = "all" /\ tasks'[i].dir = "in" /\ i \in Passed' => Of(i)' # {}
    BY <1>1, <1>4, <2>1, <2>2, <2>3, <2>4
  <2>8. QED
    BY <2>5, <2>6, <2>7 DEF CommentsCounted
<1>12. QED
  BY <1>6, <1>7, <1>8, <1>9, <1>10, <1>11 DEF CrmCardInv

-----------------------------------------------------------------------------
(* The theorems.                                                           *)

LEMMA InitInv == ASSUME Init PROVE CrmCardInv
<1> DEFINE known == Card("contact", 0, FALSE)
<1>1. known \in CardType /\ ~known.ours /\ known.owner = 0 /\ known.kind = "contact"
  BY DEF Card, CardType
<1>2. /\ cards \in {<<>>, <<known>>} /\ comments = <<>> /\ tasks = <<>>
      /\ crmMode \in {"deal", "lead"} /\ timelineMode \in {"all", "first", "none"}
      /\ contact = 0 /\ entity = None /\ worker = Idle /\ edits = 0 /\ faults = 0
  BY DEF Init
<1> HIDE DEF known
<1>3. /\ cards \in Seq(CardType) /\ comments \in Seq(CommentType) /\ tasks \in Seq(TaskType)
      /\ DOMAIN tasks = {} /\ DOMAIN comments = {} /\ Len(comments) = 0
      /\ \A c \in DOMAIN cards : cards[c] = known
  <2>1. cards \in Seq(CardType) /\ \A c \in DOMAIN cards : cards[c] = known
    <3>1. CASE cards = <<>>
      BY <3>1
    <3>2. CASE cards = <<known>>
      BY <1>1, <3>2
    <3>3. QED
      BY <1>2, <3>1, <3>2
  <2>2. comments \in Seq(CommentType) /\ DOMAIN comments = {} /\ Len(comments) = 0
    BY <1>2
  <2>3. tasks \in Seq(TaskType) /\ DOMAIN tasks = {}
    BY <1>2
  <2>4. QED
    BY <2>1, <2>2, <2>3
<1>4. CardTypes
  BY <1>2, <1>3, IdleWorker DEF CardTypes, CommentType, TaskType, WorkerType
<1>5. LinksHold
  BY <1>1, <1>2, <1>3, IdleWorker DEF LinksHold, LinkOrNone, OrNone
<1>6. WorkerHolds
  BY <1>2, IdleWorker DEF WorkerHolds, Looking, At
<1>7. LeavesExcused
  BY <1>2, IdleWorker DEF LeavesExcused
<1>8. /\ Clients = {} /\ Ours("deal") = {} /\ Ours("contact") = {} /\ Passed = {}
  BY <1>1, <1>3 DEF Clients, Ours, Passed
<1>9. Cardinality({}) = 0
  BY FS_EmptySet
<1>10. Credit \in {0, 1} /\ Debt = 0 /\ DealOwed = 0 /\ CommentOwed = 0
  BY <1>2, IdleWorker, OwedNow
<1>11. CardsCounted
  <2>1. Cardinality(Clients) = 0 /\ Cardinality(Ours("deal")) = 0 /\ Cardinality(Ours("contact")) = 0
    BY <1>8, <1>9
  <2>2. PICK k \in {0, 1} : Credit = k
    BY <1>10
  <2>3. 0 + 0 <= 0 + 0 + k /\ 0 + 0 <= 0 + 0
    OBVIOUS
  <2>4. QED
    BY <1>2, <1>10, <2>1, <2>2, <2>3 DEF CardsCounted
<1>12. CommentsCounted
  BY <1>2, <1>3, <1>8, <1>9, <1>10 DEF CommentsCounted
<1>13. QED
  BY <1>4, <1>5, <1>6, <1>7, <1>11, <1>12 DEF CrmCardInv

LEMMA NextInv == ASSUME CrmCardInv, Next PROVE CrmCardInv'
<1>1. CASE \E dir \in {"in", "out"} : Enqueue(dir)
  BY <1>1, EnqueueInv
<1>2. CASE \E i \in DOMAIN tasks : Take(i)
  BY <1>2, TakeInv
<1>3. CASE Handle
  BY <1>3, GetContactInv, FindContactInv, FindDealInv, GetLeadInv, RebindInv, FindLeadInv,
     CreateInv, CommentInv, ApplyInv, DoneInv DEF Handle, Resolve
<1>4. CASE People
  BY <1>4, SwitchModeInv, AddCardInv, DeleteInv, CloseDealInv, ConvertInv, InitiateInv DEF People
<1>5. CASE CallFails \/ AnswerLost \/ Crash
  BY <1>5, CallFailsInv, AnswerLostInv, CrashInv
<1>6. QED
  BY <1>1, <1>2, <1>3, <1>4, <1>5 DEF Next

LEMMA StutterInv == ASSUME CrmCardInv, UNCHANGED vars PROVE CrmCardInv'
<1>1. UNCHANGED <<cards, comments, phone, crmMode, timelineMode, contact, entity, tasks, worker, edits, faults>>
  BY DEF vars, portal, settings, links
<1>2. CardTypes' /\ LinksHold' /\ WorkerHolds'
  BY <1>1 DEF CrmCardInv, CardTypes, LinksHold, LinkOrNone, OrNone, WorkerHolds, InWork, At, Due
<1>3. CardsCounted'
  <2>1. HasCard => HasCard'
    BY <1>1 DEF HasCard, InWork, Keeps, Alive, At
  <2>2. QED
    BY <1>1, <2>1, CardsFree
<1>4. CommentsCounted'
  BY <1>1 DEF CrmCardInv, CommentsCounted, Passed, CommentOwed, Clients, Ours, Of, At
<1>5. LeavesExcused'
  BY <1>1 DEF CrmCardInv, LeavesExcused, Excused, InWork, Alive
<1>6. QED
  BY <1>2, <1>3, <1>4, <1>5 DEF CrmCardInv

(* However the worker, the people at the portal and the faults interleave, *)
(* every card the worker made is accounted for: by the card the dialog has, *)
(* by a fault or by a change (process_inbound, b24/sync.py).                *)
THEOREM CrmCardInvariant == Spec => []CrmCardInv
<1>1. CrmCardInv /\ [Next]_vars => CrmCardInv'
  BY NextInv, StutterInv
<1>2. QED
  BY <1>1, InitInv, PTL DEF Spec

(* A client gets one contact or lead of ours, and a contact one deal, but  *)
(* for the creations whose answer was lost, or what people changed: the    *)
(* retries of the CRM queue look the card up before they make one.         *)
THEOREM CardsFollowFaults == Spec => []CardsAreAccounted
<1>1. ASSUME CrmCardInv PROVE CardsAreAccounted
  <2>1. /\ Cardinality(Clients) + Debt <= faults + edits + Credit
        /\ Cardinality(Ours("deal")) + DealOwed <= Cardinality(Ours("contact")) + faults
    BY <1>1 DEF CrmCardInv, CardsCounted
  <2>2. /\ Cardinality(Clients) \in Nat /\ Cardinality(Ours("deal")) \in Nat /\ Cardinality(Ours("contact")) \in Nat
        /\ faults \in Nat /\ edits \in Nat /\ Credit \in {0, 1} /\ Debt \in {0, 1} /\ DealOwed \in {0, 1}
    BY <1>1, OursFinite, TypesNow, OwedNow
  <2>3. Cardinality(Clients) <= 1 + faults + edits /\ Cardinality(Ours("deal")) <= Cardinality(Ours("contact")) + faults
    BY <2>1, <2>2
  <2>4. QED
    BY <2>3 DEF CardsAreAccounted, Clients
<1>2. QED
  BY <1>1, CrmCardInvariant, PTL

(* The timeline of the card follows the mode of the administrator, and     *)
(* holds no comment too many that no fault accounts for: the worker of the *)
(* queue (crm_sync_worker.py) may retry a task whose comment was written.  *)
THEOREM TimelineFollowsMode == Spec => []WrittenOnce
<1>1. ASSUME CrmCardInv PROVE WrittenOnce
  <2>1. /\ Len(comments) <= Cardinality(Passed) + faults
        /\ timelineMode = "first" => Len(comments) + CommentOwed <= Cardinality(Clients)
        /\ \A i \in DOMAIN tasks :
             /\ timelineMode = "none" => Of(i) = {}
             /\ timelineMode = "first" /\ tasks[i].dir = "out" => Of(i) = {}
             /\ timelineMode = "all" /\ tasks[i].dir = "in" /\ i \in Passed => Of(i) # {}
    BY <1>1 DEF CrmCardInv, CommentsCounted
  <2>2. /\ Cardinality(Clients) \in Nat /\ Cardinality(Passed) \in Nat /\ Len(comments) \in Nat /\ Len(tasks) \in Nat
        /\ faults \in Nat /\ edits \in Nat /\ Credit \in {0, 1} /\ Debt \in {0, 1} /\ CommentOwed \in {0, 1}
    BY <1>1, OursFinite, TypesNow, OwedNow
  <2>3. Cardinality(Passed) <= Len(tasks)
    <3>1. IsFiniteSet(DOMAIN tasks) /\ Cardinality(DOMAIN tasks) = Len(tasks)
      <4>1. DOMAIN tasks = 1..Len(tasks)
        BY <1>1, TypesNow
      <4>2. IsFiniteSet(1..Len(tasks)) /\ Cardinality(1..Len(tasks)) = Len(tasks)
        <5>1. PICK n \in Nat : Len(tasks) = n
          BY <2>2
        <5>2. IsFiniteSet(1..n) /\ Cardinality(1..n) = IF 1 > n THEN 0 ELSE n - 1 + 1
          BY FS_Interval
        <5>3. (IF 1 > n THEN 0 ELSE n - 1 + 1) = n
          OBVIOUS
        <5>4. QED
          BY <5>1, <5>2, <5>3
      <4>3. QED
        BY <4>1, <4>2
    <3>2. Passed \subseteq DOMAIN tasks
      BY DEF Passed
    <3>3. QED
      BY <3>1, <3>2, FS_Subset
  <2>4. Len(comments) <= Len(tasks) + faults
    BY <2>1, <2>2, <2>3
  <2>5. Cardinality(Clients) + Debt <= faults + edits + Credit
    BY <1>1 DEF CrmCardInv, CardsCounted
  <2>6. timelineMode = "first" => Len(comments) <= 1 + faults + edits
    BY <2>1, <2>2, <2>5
  <2>7. \A i \in DOMAIN tasks : tasks[i].status = "done" => i \in Passed
    BY DEF Passed
  <2>8. QED
    BY <2>1, <2>4, <2>6, <2>7 DEF WrittenOnce
<1>2. QED
  BY <1>1, CrmCardInvariant, PTL

(* Only the end of a task, or a manager who writes first, moves the dialog *)
(* to another card; and the worker had a reason to look for one, or had    *)
(* read the links before they changed: apply_inbound_result,               *)
(* crm_sync_repo.py, and _apply, initiation_worker.py.                     *)
THEOREM LinkOutlivesMode == Spec => DialogKeepsCard
<1> DEFINE Moves ==
      entity.id # 0 /\ entity' # entity =>
        \/ \E c \in DOMAIN cards : Initiate(c)
        \/ ~Alive(entity.id) \/ faults > 0 \/ worker.stale
        \/ entity.kind = "lead" /\ ~cards[entity.id].open
        \/ entity.kind = "deal" /\ ~Alive(contact)
<1>1. ASSUME CrmCardInv, [Next]_vars PROVE [Moves]_vars
  <2>1. entity' # entity => Apply \/ \E c \in DOMAIN cards : Initiate(c)
    BY <1>1 DEF Next, Enqueue, Take, Handle, Resolve, GetContact, FindContact, FindDeal, GetLead, Rebind, FindLead,
         Read, Create, Comment, Done, People, SwitchMode, AddCard, Delete, CloseDeal, Convert,
         CallFails, AnswerLost, Crash, vars, links
  <2>2. ASSUME Apply, entity.id # 0, entity' # entity, ~worker.stale PROVE Excused
    <3>1. worker.at = "apply" /\ worker.found # entity /\ InWork
      BY <1>1, <2>2, TypesNow DEF Apply, At, links, InWork, CrmCardInv, WorkerHolds, TaskType
    <3>2. QED
      BY <1>1, <2>2, <3>1 DEF CrmCardInv, LeavesExcused
  <2>3. QED
    BY <2>1, <2>2 DEF Excused
<1>2. QED
  BY <1>1, CrmCardInvariant, PTL DEF Spec, DialogKeepsCard
=============================================================================
