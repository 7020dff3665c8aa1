---------------------------- MODULE EndpointProofs ----------------------------
(***************************************************************************)
(* Proofs about the two ends of a conversation: the page of the manager    *)
(* (Panel), for any number of dialogs, messages and requests under way, any *)
(* size of the pages and any history; and the session with the messenger   *)
(* (MaxSession), for any number of files.  The two share no state; each    *)
(* theorem is about the specification it names.                            *)
(***************************************************************************)
EXTENDS Panel, MaxSession, Integers, FiniteSetTheorems, SequenceTheorems, TLAPS

-----------------------------------------------------------------------------
(* The page: the inductive invariant.                                      *)

RowType   == [dlg : Dialogs, dir : {"in", "out"}, state : {"row", "flushed"}, file : Nat, done : BOOLEAN]
EntryType == [id : Nat, done : BOOLEAN]
PostType  == [at : {"idle", "asked", "stored", "refused"}, dlg : Nat, file : Nat, row : Nat]
GetType   ==
  [kind : {"first", "open", "older", "poll", "tail"}, dlg : Nat, arg : Nat, got : Seq(EntryType),
   at : {"asked", "ok", "404", "body", "left"}, seen : SUBSET Dialogs]

PanelTypes ==
  /\ rows \in Seq(RowType) /\ visible \subseteq Dialogs /\ listed \subseteq Dialogs
  /\ active \in Dialogs \union {0} /\ feed \in Seq(EntryType) /\ lastId \in Nat
  /\ file \in Nat /\ post \in PostType /\ gets \subseteq GetType

(* An answer on its way holds messages of the dialog it was asked for, and *)
(* that dialog is open while the body of a load is read, unless it was     *)
(* left meanwhile.                                                         *)
GotHolds ==
  \A g \in gets :
    /\ \A k \in DOMAIN g.got : g.got[k].id \in DOMAIN rows /\ rows[g.got[k].id].dlg = g.dlg
    /\ g.at = "body" => g.dlg = active

(* And so does the answer to a message that was sent.                      *)
PostHolds == post.at = "stored" => post.row \in DOMAIN rows /\ rows[post.row].dlg = post.dlg

(* There is one bubble at most, and it belongs to the message under way.   *)
OneBubble(f) == \A j, k \in DOMAIN f : f[j].id = 0 /\ f[k].id = 0 => j = k
Bare(f)      == \A k \in DOMAIN f : f[k].id # 0
BubbleHolds  == OneBubble(feed) /\ (Bare(feed) \/ (Sending /\ post.dlg = active))

PanelInv == PanelTypes /\ GotHolds /\ PostHolds /\ BubbleHolds

-----------------------------------------------------------------------------
(* Sets of numbers.                                                        *)

(* How many of a set are not above a number: the place of the number.      *)
Rank(S, i) == Cardinality(S \intersect 1..i)

(* The places of the members of a set are 1 up to its size, in the order   *)
(* of the members.                                                         *)
LEMMA RankFacts ==
  ASSUME NEW n \in Nat, NEW S \in SUBSET (1..n)
  PROVE  /\ IsFiniteSet(S) /\ Cardinality(S) \in Nat
         /\ \A i \in S : Rank(S, i) \in 1..Cardinality(S)
         /\ \A i, j \in S : i < j => Rank(S, i) < Rank(S, j)
         /\ \A k \in 1..Cardinality(S) : \E i \in S : Rank(S, i) = k
<1>1. IsFiniteSet(S) /\ Cardinality(S) \in Nat
  <2>1. IsFiniteSet(1..n)
    BY FS_Interval
  <2>2. IsFiniteSet(S)
    BY <2>1, FS_Subset
  <2>3. QED
    BY <2>2, FS_CardinalityType
<1>2. \A i \in S : /\ IsFiniteSet(S \intersect 1..i)
                   /\ Rank(S, i) \in Int /\ Rank(S, i) \in 1..Cardinality(S)
  <2> SUFFICES ASSUME NEW i \in S
               PROVE  /\ IsFiniteSet(S \intersect 1..i)
                      /\ Rank(S, i) \in Int /\ Rank(S, i) \in 1..Cardinality(S)
    OBVIOUS
  <2>1. S \intersect 1..i \in SUBSET S
    OBVIOUS
  <2>2. IsFiniteSet(S \intersect 1..i) /\ Rank(S, i) <= Cardinality(S)
    BY <1>1, <2>1, FS_Subset DEF Rank
  <2>3. i \in S \intersect 1..i
    OBVIOUS
  <2>4. Rank(S, i) # 0
    BY <2>2, <2>3, FS_EmptySet DEF Rank
  <2>5. Rank(S, i) \in Nat
    BY <2>2, FS_CardinalityType DEF Rank
  <2>6. QED
    BY <1>1, <2>2, <2>4, <2>5
<1>3. \A i, j \in S : i < j => Rank(S, i) < Rank(S, j)
  <2> SUFFICES ASSUME NEW i \in S, NEW j \in S, i < j PROVE Rank(S, i) < Rank(S, j)
    OBVIOUS
  <2>1. (S \intersect 1..i) \in SUBSET ((S \intersect 1..j) \ {j}) /\ j \in S \intersect 1..j
    OBVIOUS
  <2>2. /\ IsFiniteSet((S \intersect 1..j) \ {j})
        /\ Cardinality((S \intersect 1..j) \ {j}) = Rank(S, j) - 1
    BY <1>2, <2>1, FS_RemoveElement DEF Rank
  <2>3. Rank(S, i) <= Rank(S, j) - 1
    BY <2>1, <2>2, FS_Subset DEF Rank
  <2>4. Rank(S, i) \in Int /\ Rank(S, j) \in Int
    BY Zenon, <1>2
  <2>5. QED
    BY <2>3, <2>4
<1>4. \A i, j \in S : Rank(S, i) = Rank(S, j) => i = j
  <2> SUFFICES ASSUME NEW i \in S, NEW j \in S, Rank(S, i) = Rank(S, j), i # j PROVE FALSE
    OBVIOUS
  <2>1. i < j \/ j < i
    OBVIOUS
  <2>2. Rank(S, i) < Rank(S, j) \/ Rank(S, j) < Rank(S, i)
    BY <1>3, <2>1
  <2>3. Rank(S, i) \in Int /\ Rank(S, j) \in Int
    BY Zenon, <1>2
  <2>4. QED
    BY <2>2, <2>3
<1>5. \A k \in 1..Cardinality(S) : \E i \in S : Rank(S, i) = k
  <2> SUFFICES ASSUME NEW k \in 1..Cardinality(S), \A i \in S : Rank(S, i) # k PROVE FALSE
    OBVIOUS
  <2>1. IsFiniteSet(1..Cardinality(S)) /\ Cardinality(1..Cardinality(S)) = Cardinality(S)
    BY <1>1, FS_Interval
  <2> DEFINE T == (1..Cardinality(S)) \ {k}
             f == [i \in S |-> Rank(S, i)]
  <2>2. IsFiniteSet(T) /\ Cardinality(T) = Cardinality(S) - 1
    <3> DEFINE U == 1..Cardinality(S)
    <3>1. IsFiniteSet(U) /\ Cardinality(U) = Cardinality(S) /\ k \in U
      BY <2>1
    <3> HIDE DEF U
    <3>2. IsFiniteSet(U \ {k}) /\ Cardinality(U \ {k}) = Cardinality(S) - 1
      BY <3>1, FS_RemoveElement
    <3>3. QED
      BY <3>2 DEF U
  <2>3. f \in [S -> T]
    BY <1>2
  <2>4. Cardinality(T) < Cardinality(S)
    BY <1>1, <2>2
  <2>5. \E x, y \in S : x # y /\ f[x] = f[y]
    <3> HIDE DEF f, T
    <3>1. QED
      BY <1>1, <2>2, <2>3, <2>4, FS_PigeonHole
  <2>6. QED
    BY <1>4, <2>5
<1>6. QED
  BY <1>1, <1>2, <1>3, <1>5

(* The numbers of a set in ascending order are those of the set.           *)
LEMMA AscendingFacts ==
  ASSUME NEW n \in Nat, NEW S \in SUBSET (1..n)
  PROVE  /\ Ascending(S) \in Seq(S)
         /\ \A k \in DOMAIN Ascending(S) : Ascending(S)[k] \in S
<1>1. \A k \in 1..Cardinality(S) : (CHOOSE i \in S : Rank(S, i) = k) \in S
  BY RankFacts
<1>2. Ascending(S) = [k \in 1..Cardinality(S) |-> CHOOSE i \in S : Rank(S, i) = k]
  BY DEF Ascending, Rank
<1>3. Cardinality(S) \in Nat
  BY RankFacts
<1>4. Ascending(S) \in [1..Cardinality(S) -> S]
  BY <1>1, <1>2
<1>5. QED
  BY <1>3, <1>4

(* A set of numbers that is not empty has a greatest and a least one.      *)
LEMMA Extremes ==
  ASSUME NEW n \in Nat, NEW S \in SUBSET (1..n), S # {}
  PROVE  /\ \E m \in S : \A i \in S : i <= m
         /\ \E m \in S : \A i \in S : m <= i
<1> DEFINE c == Cardinality(S)
<1>1. c \in Nat \ {0}
  BY RankFacts, FS_EmptySet
<1>2. PICK m \in S : Rank(S, m) = c
  <2>1. c \in 1..c
    BY <1>1
  <2>2. QED
    BY <2>1, RankFacts
<1>3. PICK l \in S : Rank(S, l) = 1
  <2>1. 1 \in 1..c
    BY <1>1
  <2>2. QED
    BY <2>1, RankFacts
<1>4. \A i \in S : i <= m
  <2> SUFFICES ASSUME NEW i \in S, m < i PROVE FALSE
    OBVIOUS
  <2>1. Rank(S, m) < Rank(S, i) /\ Rank(S, i) \in 1..c
    BY RankFacts
  <2>2. QED
    BY <1>1, <1>2, <2>1
<1>5. \A i \in S : l <= i
  <2> SUFFICES ASSUME NEW i \in S, i < l PROVE FALSE
    OBVIOUS
  <2>1. Rank(S, i) < Rank(S, l) /\ Rank(S, i) \in 1..c
    BY RankFacts
  <2>2. QED
    BY <1>1, <1>3, <2>1
<1>6. QED
  BY <1>4, <1>5

(* Top of a set of numbers is a number.                                    *)
LEMMA TopFacts ==
  ASSUME NEW n \in Nat, NEW S \in SUBSET (0..n)
  PROVE  Top(S) \in Nat
<1> DEFINE P == S \ {0}
<1>0. \A m \in S : m \in Nat
  OBVIOUS
<1>1. CASE P = {}
  <2>1. \A m \in S : m = 0
    BY <1>1
  <2>2. CASE S = {}
    BY <2>2 DEF Top
  <2>3. CASE S # {}
    <3>1. S = {0}
      BY <2>1, <2>3
    <3>2. \E m \in S : \A i \in S : i <= m
      BY <3>1
    <3>3. Top(S) \in S
      BY <2>3, <3>2 DEF Top
    <3>4. QED
      BY <1>0, <3>3
  <2>4. QED
    BY <2>2, <2>3
<1>2. CASE P # {}
  <2>1. P \in SUBSET (1..n)
    OBVIOUS
  <2>2. PICK m \in P : \A i \in P : i <= m
    BY <1>2, <2>1, Extremes
  <2>3. \A i \in S : i <= m
    BY <2>2
  <2>4. Top(S) \in S
    BY <2>2, <2>3 DEF Top
  <2>5. QED
    BY <1>0, <2>4
<1>3. QED
  BY <1>1, <1>2

-----------------------------------------------------------------------------
(* The lists the server answers with.                                      *)

LEMMA CommittedFacts ==
  ASSUME rows \in Seq(RowType), NEW d
  PROVE  /\ Len(rows) \in Nat /\ DOMAIN rows = 1..Len(rows)
         /\ Committed(d) \in SUBSET (1..Len(rows))
  BY DEF Committed

LEMMA AgeFacts ==
  ASSUME rows \in Seq(RowType), NEW d
  PROVE  Age(d) \in 0..Len(rows)
<1>1. Committed(d) \in SUBSET (1..Len(rows)) /\ Len(rows) \in Nat
  BY CommittedFacts
<1>2. CASE Committed(d) = {}
  BY <1>1, <1>2 DEF Age, Top
<1>3. CASE Committed(d) # {}
  <2>1. \E m \in Committed(d) : \A i \in Committed(d) : i <= m
    BY <1>1, <1>3, Extremes
  <2>2. Age(d) \in Committed(d)
    BY <1>3, <2>1 DEF Age, Top
  <2>3. QED
    BY <1>1, <2>2
<1>4. QED
  BY <1>2, <1>3

(* The head of a list that is not empty is in the list.                    *)
LEMMA FirstOfFacts ==
  ASSUME rows \in Seq(RowType), NEW s, s # {}
  PROVE  FirstOf(s) \in s
<1>1. Len(rows) \in Nat /\ \A d : Age(d) \in 0..Len(rows)
  BY AgeFacts, CommittedFacts
<1>2. ASSUME NEW t \in SUBSET s, t # {}
      PROVE  /\ \E d \in t : \A e \in t : Age(d) >= Age(e)
             /\ \E d \in t : \A e \in t : Age(d) <= Age(e)
  <2> DEFINE A == {Age(d) + 1 : d \in t}
  <2>1. A \in SUBSET (1..Len(rows) + 1) /\ A # {}
    BY <1>1, <1>2
  <2>2. Len(rows) + 1 \in Nat
    BY <1>1
  <2> HIDE DEF A
  <2>3. /\ \E m \in A : \A i \in A : i <= m
        /\ \E m \in A : \A i \in A : m <= i
    BY <2>1, <2>2, Extremes
  <2> USE DEF A
  <2>4. PICK d \in t : \A i \in A : i <= Age(d) + 1
    BY <2>3
  <2>5. PICK l \in t : \A i \in A : Age(l) + 1 <= i
    BY <2>3
  <2>6. \A e \in t : Age(e) + 1 <= Age(d) + 1 /\ Age(l) + 1 <= Age(e) + 1
    BY <2>4, <2>5
  <2>7. \A e \in t : Age(d) >= Age(e) /\ Age(l) <= Age(e)
    BY <1>1, <2>6
  <2>8. QED
    BY <2>7
<1>3. CASE \E d \in s : Waits(d)
  <2> DEFINE t == {d \in s : Waits(d)}
  <2>1. t \in SUBSET s /\ t # {}
    BY <1>3
  <2>2. \E d \in t : \A e \in t : Age(d) <= Age(e)
    BY <1>2, <2>1
  <2>3. \E d \in s : Waits(d) /\ \A e \in s : Waits(e) => Age(d) <= Age(e)
    BY <2>2
  <2>4. QED
    BY <1>3, <2>3 DEF FirstOf
<1>4. CASE ~\E d \in s : Waits(d)
  <2>1. \E d \in s : \A e \in s : Age(d) >= Age(e)
    BY <1>2
  <2>2. QED
    BY <1>4, <2>1 DEF FirstOf
<1>5. QED
  BY <1>3, <1>4

LEMMA CutFacts ==
  ASSUME NEW S, NEW s \in Seq(S), NEW n \in Nat
  PROVE  Oldest(s, n) \in Seq(S) /\ Newest(s, n) \in Seq(S)
<1> DEFINE u == IF n < Len(s) THEN n ELSE Len(s)
           l == IF n < Len(s) THEN Len(s) - n + 1 ELSE 1
<1>1. /\ u \in Int /\ l \in Int /\ Len(s) \in Int /\ 1 \in Int
      /\ \A i \in 1..u : s[i] \in S
      /\ \A i \in l..Len(s) : s[i] \in S
  OBVIOUS
<1> HIDE DEF u, l
<1>2. SubSeq(s, 1, u) \in Seq(S) /\ SubSeq(s, l, Len(s)) \in Seq(S)
  BY <1>1, SubSeqProperties
<1>3. QED
  BY <1>2 DEF Oldest, Newest, u, l

(* Every request is answered with messages of its dialog.                  *)
LEMMA ListingFacts ==
  ASSUME rows \in Seq(RowType), NEW g \in GetType
  PROVE  Listing(g) \in Seq(Committed(g.dlg))
<1> DEFINE C == Committed(g.dlg)
<1>1. Len(rows) \in Nat /\ C \in SUBSET (1..Len(rows))
  BY CommittedFacts
<1>2. ASSUME NEW S \in SUBSET C PROVE Ascending(S) \in Seq(C)
  <2>1. S \in SUBSET (1..Len(rows))
    BY <1>1
  <2>2. Ascending(S) \in Seq(S)
    BY <1>1, <2>1, AscendingFacts
  <2>3. QED
    BY <2>2
<1>3. /\ Above(g.dlg, g.arg) \in SUBSET C /\ Below(g.dlg, g.arg) \in SUBSET C
      /\ C \in SUBSET C
  BY DEF Above, Below
<1> HIDE DEF C
<1>4. /\ Ascending(Above(g.dlg, g.arg)) \in Seq(C) /\ Ascending(Below(g.dlg, g.arg)) \in Seq(C)
      /\ Ascending(C) \in Seq(C)
  BY <1>2, <1>3
<1>5. PageSize \in Nat /\ PollLimit \in Nat
  BY PanelAssumption
<1>6. /\ Oldest(Ascending(Above(g.dlg, g.arg)), PollLimit) \in Seq(C)
      /\ Newest(Ascending(Below(g.dlg, g.arg)), PageSize) \in Seq(C)
      /\ Newest(Ascending(C), PageSize) \in Seq(C)
  BY <1>4, <1>5, CutFacts
<1>7. g.kind \in {"first", "open", "older", "poll", "tail"}
  BY DEF GetType
<1>8. QED
  BY <1>4, <1>6, <1>7 DEF Listing, C

LEMMA RenderedFacts ==
  ASSUME rows \in Seq(RowType), NEW d, NEW s \in Seq(Committed(d))
  PROVE  /\ Rendered(s) \in Seq(EntryType)
         /\ \A k \in DOMAIN Rendered(s) :
              Rendered(s)[k].id \in DOMAIN rows /\ rows[Rendered(s)[k].id].dlg = d
<1>1. \A i \in Committed(d) : i \in Nat /\ i \in DOMAIN rows /\ rows[i].dlg = d /\ rows[i].done \in BOOLEAN
  <2> SUFFICES ASSUME NEW i \in Committed(d)
               PROVE  i \in Nat /\ i \in DOMAIN rows /\ rows[i].dlg = d /\ rows[i].done \in BOOLEAN
    OBVIOUS
  <2>1. i \in 1..Len(rows) /\ i \in DOMAIN rows /\ rows[i].dlg = d
    BY DEF Committed
  <2>2. rows[i] \in RowType
    BY <2>1
  <2>3. QED
    BY <2>1, <2>2 DEF RowType
<1>2. \A i \in Committed(d) : Entry(i) \in EntryType /\ Entry(i).id = i
  BY <1>1 DEF Entry, EntryType
<1>3. Len(s) \in Nat /\ DOMAIN s = 1..Len(s) /\ \A k \in DOMAIN s : s[k] \in Committed(d)
  OBVIOUS
<1>4. /\ Rendered(s) = [k \in 1..Len(s) |-> Entry(s[k])]
      /\ \A k \in 1..Len(s) : Rendered(s)[k] = Entry(s[k])
  BY <1>3 DEF Rendered
<1>5. Rendered(s) \in [1..Len(s) -> EntryType]
  BY <1>2, <1>3, <1>4
<1>6. Rendered(s) \in Seq(EntryType)
  BY <1>3, <1>5
<1>7. ASSUME NEW k \in DOMAIN Rendered(s)
      PROVE  Rendered(s)[k].id \in DOMAIN rows /\ rows[Rendered(s)[k].id].dlg = d
  <2>1. k \in 1..Len(s) /\ s[k] \in Committed(d)
    BY <1>3, <1>5
  <2>2. Rendered(s)[k].id = s[k]
    BY <1>2, <1>4, <2>1
  <2>3. QED
    BY <1>1, <2>1, <2>2
<1>8. QED
  BY <1>6, <1>7

-----------------------------------------------------------------------------
(* What the page does to its feed.                                         *)

LEMMA EntriesFacts ==
  ASSUME NEW f \in Seq(EntryType)
  PROVE  /\ Len(f) \in Nat /\ DOMAIN f = 1..Len(f)
         /\ \A k \in DOMAIN f : f[k] \in EntryType /\ f[k].id \in Nat
<1>1. Len(f) \in Nat /\ DOMAIN f = 1..Len(f) /\ \A k \in DOMAIN f : f[k] \in EntryType
  OBVIOUS
<1>2. \A e \in EntryType : e.id \in Nat
  BY DEF EntryType
<1>3. QED
  BY <1>1, <1>2

(* One part of a feed after another.                                       *)
LEMMA JoinFacts ==
  ASSUME NEW f \in Seq(EntryType), NEW h \in Seq(EntryType)
  PROVE  /\ f \o h \in Seq(EntryType)
         /\ Ids(f \o h) \subseteq Ids(f) \union Ids(h)
         /\ Bare(f) /\ Bare(h) => Bare(f \o h)
         /\ (Bare(f) /\ OneBubble(h)) \/ (OneBubble(f) /\ Bare(h)) => OneBubble(f \o h)
<1> DEFINE j == f \o h
           m == Len(f)
<1>1. /\ j \in Seq(EntryType) /\ Len(j) = Len(f) + Len(h)
      /\ \A i \in 1..Len(f) + Len(h) : j[i] = IF i <= m THEN f[i] ELSE h[i - m]
  BY ConcatProperties
<1>2. /\ m \in Nat /\ Len(h) \in Nat /\ DOMAIN j = 1..m + Len(h)
      /\ DOMAIN f = 1..m /\ DOMAIN h = 1..Len(h)
  BY <1>1
<1> HIDE DEF j, m
<1>3. \A k \in DOMAIN j : /\ k \in Int
                          /\ \/ k \in DOMAIN f /\ j[k] = f[k] /\ k <= m
                             \/ k - m \in DOMAIN h /\ j[k] = h[k - m] /\ k > m
  BY <1>1, <1>2 DEF m
<1>4. Ids(j) \subseteq Ids(f) \union Ids(h)
  BY <1>3 DEF Ids
<1>5. Bare(f) /\ Bare(h) => Bare(j)
  BY <1>3 DEF Bare
<1>6. Bare(f) /\ OneBubble(h) => OneBubble(j)
  <2> SUFFICES ASSUME Bare(f), OneBubble(h), NEW i \in DOMAIN j, NEW k \in DOMAIN j,
                      j[i].id = 0, j[k].id = 0
               PROVE  i = k
    BY DEF OneBubble
  <2>1. /\ i - m \in DOMAIN h /\ h[i - m].id = 0 /\ i \in Int
        /\ k - m \in DOMAIN h /\ h[k - m].id = 0 /\ k \in Int
    BY <1>3 DEF Bare
  <2>2. i - m = k - m
    BY <2>1 DEF OneBubble
  <2>3. QED
    BY <1>2, <2>1, <2>2
<1>7. OneBubble(f) /\ Bare(h) => OneBubble(j)
  BY <1>3 DEF Bare, OneBubble
<1>8. QED
  BY <1>1, <1>4, <1>5, <1>6, <1>7 DEF j

(* A bubble is added at the end.                                           *)
LEMMA BubbleFacts ==
  ASSUME NEW f \in Seq(EntryType)
  PROVE  /\ Append(f, Bubble) \in Seq(EntryType)
         /\ Ids(Append(f, Bubble)) \subseteq Ids(f) \union {0}
         /\ Bare(f) => OneBubble(Append(f, Bubble))
<1> DEFINE a == Append(f, Bubble)
<1>1. Bubble \in EntryType /\ Bubble.id = 0
  BY DEF Bubble, EntryType
<1>2. /\ a \in Seq(EntryType) /\ Len(a) = Len(f) + 1
      /\ \A i \in 1..Len(f) : a[i] = f[i]
      /\ a[Len(f) + 1] = Bubble
  BY <1>1, AppendProperties
<1>3. DOMAIN a = 1..Len(f) + 1 /\ Len(f) \in Nat /\ DOMAIN f = 1..Len(f)
  BY <1>2
<1> HIDE DEF a
<1>4. \A k \in DOMAIN a : \/ k \in DOMAIN f /\ a[k] = f[k]
                          \/ k = Len(f) + 1 /\ a[k].id = 0
  BY <1>1, <1>2, <1>3
<1>5. Ids(a) \subseteq Ids(f) \union {0}
  BY <1>4 DEF Ids
<1>6. Bare(f) => OneBubble(a)
  BY <1>4 DEF Bare, OneBubble
<1>7. QED
  BY <1>2, <1>5, <1>6 DEF a

(* The bubble becomes the message that was stored.                         *)
LEMMA StoredFacts ==
  ASSUME NEW f \in Seq(EntryType), NEW p \in DOMAIN f, NEW e \in EntryType, e.id # 0,
         OneBubble(f), f[p].id = 0
  PROVE  /\ [f EXCEPT ![p] = e] \in Seq(EntryType)
         /\ Ids([f EXCEPT ![p] = e]) \subseteq Ids(f) \union {e.id}
         /\ Bare([f EXCEPT ![p] = e])
<1> DEFINE a == [f EXCEPT ![p] = e]
<1>1. a \in Seq(EntryType) /\ DOMAIN a = DOMAIN f
  OBVIOUS
<1>2. \A k \in DOMAIN f : a[k] = IF k = p THEN e ELSE f[k]
  OBVIOUS
<1> HIDE DEF a
<1>3. Ids(a) \subseteq Ids(f) \union {e.id}
  BY <1>1, <1>2 DEF Ids
<1>4. Bare(a)
  BY <1>1, <1>2 DEF Bare, OneBubble
<1>5. QED
  BY <1>1, <1>3, <1>4 DEF a

(* The bubble is taken out.                                                *)
LEMMA RemovedFacts ==
  ASSUME NEW f \in Seq(EntryType), NEW p \in DOMAIN f, OneBubble(f), f[p].id = 0
  PROVE  /\ RemoveAt(f, p) \in Seq(EntryType)
         /\ Ids(RemoveAt(f, p)) \subseteq Ids(f)
         /\ Bare(RemoveAt(f, p))
<1> DEFINE l == SubSeq(f, 1, p - 1)
           r == SubSeq(f, p + 1, Len(f))
<1>1. /\ Len(f) \in Nat /\ DOMAIN f = 1..Len(f) /\ p \in 1..Len(f)
      /\ p - 1 \in Int /\ p + 1 \in Int /\ 1 \in Int /\ Len(f) \in Int
  BY EntriesFacts
<1>2. /\ \A i \in 1..p - 1 : f[i] \in EntryType
      /\ \A i \in p + 1..Len(f) : f[i] \in EntryType
  BY <1>1, EntriesFacts
<1>3. /\ l \in Seq(EntryType) /\ Len(l) = IF 1 <= p - 1 THEN (p - 1) - 1 + 1 ELSE 0
      /\ \A i \in 1..(p - 1) - 1 + 1 : l[i] = f[1 + i - 1]
  BY <1>1, <1>2, SubSeqProperties
<1>4. /\ r \in Seq(EntryType) /\ Len(r) = IF p + 1 <= Len(f) THEN Len(f) - (p + 1) + 1 ELSE 0
      /\ \A i \in 1..Len(f) - (p + 1) + 1 : r[i] = f[(p + 1) + i - 1]
  BY <1>1, <1>2, SubSeqProperties
<1> HIDE DEF l, r
<1>5. \A k \in DOMAIN l : k \in DOMAIN f /\ k # p /\ l[k] = f[k]
  <2>1. Len(l) = p - 1 /\ DOMAIN l = 1..p - 1
    BY <1>1, <1>3
  <2>2. \A k \in 1..p - 1 : k \in 1..(p - 1) - 1 + 1 /\ 1 + k - 1 = k /\ k \in 1..Len(f) /\ k # p
    BY <1>1
  <2>3. QED
    BY <1>1, <1>3, <2>1, <2>2
<1>6. \A k \in DOMAIN r : k + p \in DOMAIN f /\ k + p # p /\ r[k] = f[k + p]
  <2>1. Len(r) = Len(f) - p /\ DOMAIN r = 1..Len(f) - p
    BY <1>1, <1>4
  <2>2. \A k \in 1..Len(f) - p : /\ k \in 1..Len(f) - (p + 1) + 1 /\ (p + 1) + k - 1 = k + p
                                 /\ k + p \in 1..Len(f) /\ k + p # p
    BY <1>1
  <2>3. QED
    BY <1>1, <1>4, <2>1, <2>2
<1>7. Ids(l) \subseteq Ids(f) /\ Bare(l)
  BY <1>5 DEF Ids, Bare, OneBubble
<1>8. Ids(r) \subseteq Ids(f) /\ Bare(r)
  BY <1>6 DEF Ids, Bare, OneBubble
<1>9. RemoveAt(f, p) = l \o r
  BY DEF RemoveAt, l, r
<1>10. QED
  BY <1>3, <1>4, <1>7, <1>8, <1>9, JoinFacts

LEMMA IsSequence ==
  ASSUME NEW S, NEW n \in Nat, NEW s \in [1..n -> S]
  PROVE  s \in Seq(S)
  OBVIOUS

LEMMA SameNumbers ==
  ASSUME NEW f, NEW a, DOMAIN a = DOMAIN f, \A k \in DOMAIN a : a[k].id = f[k].id
  PROVE  (Bare(f) => Bare(a)) /\ (OneBubble(f) => OneBubble(a))
  BY DEF Bare, OneBubble

(* Only the status of some entries changes.                                *)
LEMMA RenewedFacts ==
  ASSUME NEW f \in Seq(EntryType), NEW h \in Seq(EntryType),
         NEW a, a = [k \in DOMAIN f |->
                       IF f[k].id \in Ids(h) THEN CHOOSE e \in ToSet(h) : e.id = f[k].id ELSE f[k]]
  PROVE  /\ a \in Seq(EntryType)
         /\ Ids(a) \subseteq Ids(f)
         /\ Bare(f) => Bare(a)
         /\ OneBubble(f) => OneBubble(a)
<1>1. Len(f) \in Nat /\ DOMAIN f = 1..Len(f) /\ \A k \in DOMAIN f : f[k] \in EntryType
  BY EntriesFacts
<1>2. ASSUME NEW k \in DOMAIN f PROVE a[k] \in EntryType /\ a[k].id = f[k].id
  <2>1. CASE f[k].id \in Ids(h)
    <3>1. \A e \in ToSet(h) : e \in EntryType
      BY EntriesFacts DEF ToSet
    <3>2. \E e \in ToSet(h) : e.id = f[k].id
      BY <2>1 DEF Ids, ToSet
    <3>3. QED
      BY <2>1, <3>1, <3>2
  <2>2. CASE f[k].id \notin Ids(h)
    BY <1>1, <2>2
  <2>3. QED
    BY <2>1, <2>2
<1>3. DOMAIN a = DOMAIN f
  OBVIOUS
<1>4. a \in [1..Len(f) -> EntryType]
  <2>1. a = [k \in DOMAIN f |-> a[k]]
    BY <1>3
  <2>2. QED
    BY <1>1, <1>2, <2>1
<1>5. a \in Seq(EntryType)
  BY <1>1, <1>4, IsSequence
<1>6. (\A k \in DOMAIN a : a[k].id = f[k].id) /\ DOMAIN a = DOMAIN f
  BY <1>2, <1>3
<1>7. QED
  <2>1. Ids(a) \subseteq Ids(f)
    BY ZenonT(60), <1>6 DEF Ids
  <2>2. (Bare(f) => Bare(a)) /\ (OneBubble(f) => OneBubble(a))
    BY <1>6, SameNumbers
  <2>3. QED
    BY <1>5, <2>1, <2>2

(* The page finds its bubble.                                              *)
LEMMA FirstBubbleFacts ==
  ASSUME feed \in Seq(EntryType), OneBubble(feed)
  PROVE  \/ FirstBubble = 0 /\ Bare(feed)
         \/ FirstBubble \in DOMAIN feed /\ feed[FirstBubble].id = 0 /\ FirstBubble # 0
<1> DEFINE I == {i \in 1..Len(feed) : feed[i].id = 0}
<1>1. FirstBubble = IF I # {} THEN Min(I) ELSE 0
  BY DEF FirstBubble, SelectInSeq
<1>2. Len(feed) \in Nat /\ DOMAIN feed = 1..Len(feed)
  BY EntriesFacts
<1>3. CASE I = {}
  BY <1>1, <1>2, <1>3 DEF Bare
<1>4. CASE I # {}
  <2>1. I \in SUBSET (1..Len(feed))
    OBVIOUS
  <2> HIDE DEF I
  <2>2. \E x \in I : \A y \in I : x <= y
    BY <1>2, <1>4, <2>1, Extremes
  <2>3. Min(I) \in I
    BY <2>2 DEF Min
  <2>4. QED
    BY <1>1, <1>2, <1>4, <2>3 DEF I
<1>5. QED
  BY <1>3, <1>4

(* The messages of an answer the page does not show yet.                   *)
LEMMA UnseenFacts ==
  ASSUME NEW h \in Seq(EntryType), NEW S \in SUBSET (DOMAIN h)
  PROVE  LET unseen == [k \in DOMAIN Ascending(S) |-> h[Ascending(S)[k]]]
         IN  unseen \in Seq(EntryType) /\ Ids(unseen) \subseteq Ids(h)
<1>1. Len(h) \in Nat /\ S \in SUBSET (1..Len(h)) /\ \A k \in DOMAIN h : h[k] \in EntryType
  BY EntriesFacts
<1>2. Ascending(S) \in Seq(S)
  BY <1>1, AscendingFacts
<1> DEFINE u == [k \in DOMAIN Ascending(S) |-> h[Ascending(S)[k]]]
<1>3. \A k \in DOMAIN Ascending(S) : u[k] \in EntryType /\ u[k].id \in Ids(h)
  BY <1>1, <1>2 DEF Ids
<1>4. /\ DOMAIN u = DOMAIN Ascending(S) /\ Len(Ascending(S)) \in Nat
      /\ DOMAIN Ascending(S) = 1..Len(Ascending(S))
  BY <1>2
<1> HIDE DEF u
<1>5. u \in Seq(EntryType)
  <2>1. u \in [1..Len(Ascending(S)) -> EntryType]
    BY <1>3, <1>4 DEF u
  <2>2. QED
    BY <1>4, <2>1
<1>6. Ids(u) \subseteq Ids(h)
  BY <1>3, <1>4 DEF Ids
<1>7. QED
  BY <1>5, <1>6 DEF u

-----------------------------------------------------------------------------
(* The invariant.                                                          *)

LEMMA PanelInit == Init => PanelInv
<1> SUFFICES ASSUME Init PROVE PanelInv
  OBVIOUS
<1> USE DEF Init
<1>1. History \in Seq(Dialogs) /\ Len(History) \in Nat /\ DOMAIN History = 1..Len(History)
  BY PanelAssumption
<1>2. \A i \in DOMAIN History :
        [dlg |-> History[i], dir |-> "in", state |-> "row", file |-> 0, done |-> TRUE] \in RowType
  BY <1>1 DEF RowType
<1>3. rows \in [1..Len(History) -> RowType]
  BY <1>1, <1>2
<1>4. rows \in Seq(RowType)
  BY <1>1, <1>3, IsSequence
<1>5. PanelTypes
  BY <1>4 DEF PanelTypes, NoPost, PostType
<1>6. GotHolds /\ PostHolds /\ BubbleHolds
  BY DEF GotHolds, PostHolds, BubbleHolds, OneBubble, Bare, NoPost
<1>7. QED
  BY <1>5, <1>6 DEF PanelInv

(* A message keeps its id and its dialog.                                  *)
Grown == /\ rows' \in Seq(RowType)
         /\ \A i \in DOMAIN rows : i \in DOMAIN rows' /\ rows'[i].dlg = rows[i].dlg

(* A request without an answer is new, or moves on with the answer it has; *)
(* its body is read for the dialog that is open.                           *)
Asked ==
  \A g \in gets' :
    /\ g.got = <<>> \/ \E h \in gets : g.got = h.got /\ g.dlg = h.dlg
    /\ g.at = "body" => g.dlg = active' \/ (g \in gets /\ active' = active)

LEMMA GotStep == ASSUME GotHolds, Grown, Asked PROVE GotHolds'
<1>1. ASSUME NEW g \in gets', NEW k \in DOMAIN g.got
      PROVE  g.got[k].id \in DOMAIN rows' /\ rows'[g.got[k].id].dlg = g.dlg
  <2>1. PICK h \in gets : g.got = h.got /\ g.dlg = h.dlg
    BY <1>1 DEF Asked
  <2>2. QED
    BY <1>1, <2>1 DEF GotHolds, Grown
<1>2. ASSUME NEW g \in gets', g.at = "body" PROVE g.dlg = active'
  BY <1>2 DEF Asked, GotHolds
<1>3. QED
  BY <1>1, <1>2 DEF GotHolds

LEMMA PostStep == ASSUME PostHolds, Grown, post' = post \/ post'.at # "stored" PROVE PostHolds'
  BY DEF PostHolds, Grown

LEMMA BubbleStep == ASSUME BubbleHolds, UNCHANGED <<feed, post, active>> PROVE BubbleHolds'
  BY DEF BubbleHolds, Sending

LEMMA RowsSame == ASSUME PanelTypes, UNCHANGED rows PROVE Grown
  BY DEF PanelTypes, Grown

LEMMA RowAdded ==
  ASSUME PanelTypes, NEW r \in RowType, rows' = Append(rows, r)
  PROVE  /\ Grown /\ Len(rows) + 1 \in DOMAIN rows' /\ Len(rows) + 1 \in Nat
         /\ rows'[Len(rows) + 1] = r
<1>1. rows \in Seq(RowType)
  BY DEF PanelTypes
<1>2. /\ rows' \in Seq(RowType) /\ Len(rows') = Len(rows) + 1
      /\ \A i \in 1..Len(rows) : rows'[i] = rows[i]
      /\ rows'[Len(rows) + 1] = r
  BY <1>1, AppendProperties
<1>3. /\ Len(rows) \in Nat /\ DOMAIN rows = 1..Len(rows) /\ DOMAIN rows' = 1..Len(rows) + 1
  BY <1>1, <1>2
<1>4. QED
  BY <1>2, <1>3 DEF Grown

LEMMA RowChanged ==
  ASSUME PanelTypes, NEW i \in DOMAIN rows,
         rows' = [rows EXCEPT ![i].state = "row"] \/ rows' = [rows EXCEPT ![i].done = TRUE]
  PROVE  Grown
<1>1. rows \in Seq(RowType) /\ \A k \in DOMAIN rows : rows[k] \in RowType
  BY DEF PanelTypes
<1>2. /\ [rows[i] EXCEPT !.state = "row"] \in RowType
      /\ [rows[i] EXCEPT !.done = TRUE] \in RowType
      /\ [rows[i] EXCEPT !.state = "row"].dlg = rows[i].dlg
      /\ [rows[i] EXCEPT !.done = TRUE].dlg = rows[i].dlg
  BY <1>1 DEF RowType
<1>3. PICK r \in RowType : rows' = [rows EXCEPT ![i] = r] /\ r.dlg = rows[i].dlg
  BY <1>2
<1>4. rows' \in Seq(RowType) /\ DOMAIN rows' = DOMAIN rows
  BY <1>1, <1>3
<1>5. QED
  BY <1>3, <1>4 DEF Grown

LEMMA AskFacts ==
  ASSUME NEW kind \in {"first", "open", "older", "poll", "tail"}, NEW d \in Nat, NEW arg \in Nat
  PROVE  /\ Ask(kind, d, arg) \in GetType /\ Ask(kind, d, arg).got = <<>>
         /\ Ask(kind, d, arg).at = "asked"
  BY DEF Ask, GetType

(* The dialog is left by the bodies under way; what they hold stays.       *)
LEMMA LeftFacts ==
  ASSUME NEW s \in SUBSET GetType
  PROVE  /\ Left(s) \subseteq GetType
         /\ \A g \in Left(s) : g.at # "body" /\ \E h \in s : g.got = h.got /\ g.dlg = h.dlg
<1>1. \A h \in s : [h EXCEPT !.at = "left"] \in GetType
  BY DEF GetType
<1>2. ASSUME NEW g \in Left(s)
      PROVE  g \in GetType /\ g.at # "body" /\ \E h \in s : g.got = h.got /\ g.dlg = h.dlg
  <2>1. PICK h \in s : g = IF h.at = "body" THEN [h EXCEPT !.at = "left"] ELSE h
    BY <1>2 DEF Left
  <2>2. CASE h.at = "body"
    BY <1>1, <2>1, <2>2 DEF GetType
  <2>3. CASE h.at # "body"
    BY <2>1, <2>3
  <2>4. QED
    BY <2>2, <2>3
<1>3. QED
  BY <1>2

LEMMA NumbersFacts ==
  ASSUME PanelTypes
  PROVE  /\ Dialogs \subseteq Nat /\ active \in Nat /\ visible \subseteq Nat
         /\ feed \in Seq(EntryType) /\ post \in PostType
  BY PanelAssumption DEF PanelTypes

-----------------------------------------------------------------------------
(* Every step keeps the invariant: first the server.                       *)

LEMMA RowSteps ==
  ASSUME PanelInv,
         \/ \E d \in Dialogs : Inbound(d)
         \/ \E i \in DOMAIN rows : Commit(i) \/ Delivered(i)
  PROVE  PanelInv'
<1> USE DEF PanelInv
<1>1. UNCHANGED <<visible, listed, active, feed, lastId, file, post, gets>>
  BY DEF Inbound, Commit, Delivered, page, outbox
<1>2. Grown
  <2>1. CASE \E d \in Dialogs : Inbound(d)
    <3>1. PICK d \in Dialogs : Inbound(d)
      BY <2>1
    <3>2. [dlg |-> d, dir |-> "in", state |-> "flushed", file |-> 0, done |-> TRUE] \in RowType
      BY DEF RowType
    <3>3. QED
      BY <3>1, <3>2, RowAdded DEF Inbound
  <2>2. CASE \E i \in DOMAIN rows : Commit(i) \/ Delivered(i)
    <3>1. PICK i \in DOMAIN rows : Commit(i) \/ Delivered(i)
      BY <2>2
    <3>2. rows' = [rows EXCEPT ![i].state = "row"] \/ rows' = [rows EXCEPT ![i].done = TRUE]
      BY <3>1 DEF Commit, Delivered
    <3>3. QED
      BY <3>2, RowChanged
  <2>3. QED
    BY <2>1, <2>2
<1>3. PanelTypes'
  BY <1>1, <1>2 DEF PanelTypes, Grown
<1>4. GotHolds'
  BY <1>1, <1>2, GotStep DEF Asked
<1>5. PostHolds'
  BY <1>1, <1>2, PostStep
<1>6. BubbleHolds'
  BY <1>1, BubbleStep
<1>7. QED
  BY <1>3, <1>4, <1>5, <1>6

LEMMA StoreStep == ASSUME PanelInv, Store PROVE PanelInv'
<1> USE DEF PanelInv
<1> DEFINE r == [dlg |-> post.dlg, dir |-> "out", state |-> "row", file |-> post.file, done |-> FALSE]
<1>1. post \in PostType /\ post.dlg \in Dialogs /\ post.file \in Nat
  BY DEF Store, PanelTypes, PostType
<1>2. r \in RowType
  BY <1>1 DEF RowType
<1>3. rows' = Append(rows, r)
  BY DEF Store
<1> HIDE DEF r
<1>4. /\ Grown /\ Len(rows) + 1 \in DOMAIN rows' /\ Len(rows) + 1 \in Nat
      /\ rows'[Len(rows) + 1] = r
  BY <1>2, <1>3, RowAdded
<1>5. post' = [post EXCEPT !.at = "stored", !.row = Len(rows) + 1]
  BY DEF Store
<1>6. post' \in PostType /\ post'.dlg = post.dlg /\ post'.row = Len(rows) + 1 /\ post'.at = "stored"
  BY <1>1, <1>4, <1>5 DEF PostType
<1>7. UNCHANGED <<visible, listed, active, feed, lastId, file, gets>>
  BY DEF Store, page
<1>8. PanelTypes'
  BY <1>4, <1>6, <1>7 DEF PanelTypes, Grown
<1>9. GotHolds'
  BY <1>4, <1>7, GotStep DEF Asked
<1>10. PostHolds'
  BY <1>4, <1>6 DEF PostHolds, r
<1>11. BubbleHolds'
  BY <1>6, <1>7 DEF BubbleHolds, Sending, Store
<1>12. QED
  BY <1>8, <1>9, <1>10, <1>11

LEMMA RefuseStep == ASSUME PanelInv, Refuse PROVE PanelInv'
<1> USE DEF PanelInv
<1>1. UNCHANGED <<rows, visible, listed, active, feed, lastId, file, gets>>
  BY DEF Refuse, page, server
<1>2. post' = [post EXCEPT !.at = "refused"] /\ post \in PostType /\ post.at = "asked"
  BY DEF Refuse, PanelTypes
<1>3. post' \in PostType /\ post'.at = "refused" /\ post'.dlg = post.dlg
  BY <1>2 DEF PostType
<1>4. PanelTypes' /\ Grown
  BY <1>1, <1>3, RowsSame DEF PanelTypes
<1>5. GotHolds'
  BY <1>1, <1>4, GotStep DEF Asked
<1>6. PostHolds'
  BY <1>3, <1>4, PostStep
<1>7. BubbleHolds'
  BY <1>1, <1>2, <1>3 DEF BubbleHolds, Sending
<1>8. QED
  BY <1>4, <1>5, <1>6, <1>7

LEMMA ScopeStep == ASSUME PanelInv, \E d \in Dialogs : LeaveScope(d) PROVE PanelInv'
<1> USE DEF PanelInv
<1>1. /\ UNCHANGED <<rows, listed, active, feed, lastId, file, post, gets>>
      /\ visible' \subseteq visible
  BY DEF LeaveScope, page, outbox
<1>2. PanelTypes' /\ Grown
  BY <1>1, RowsSame DEF PanelTypes
<1>3. GotHolds' /\ PostHolds' /\ BubbleHolds'
  BY <1>1, <1>2, GotStep, PostStep, BubbleStep DEF Asked
<1>4. QED
  BY <1>2, <1>3

LEMMA ServeStep == ASSUME PanelInv, NEW g \in gets, Serve(g) PROVE PanelInv'
<1> USE DEF PanelInv
<1>1. UNCHANGED <<rows, visible, listed, active, feed, lastId, file, post>>
  BY DEF Serve, page, server, outbox
<1>2. g \in GetType /\ rows \in Seq(RowType) /\ visible \subseteq Dialogs
  BY DEF PanelTypes
<1> DEFINE answer == IF g.dlg \in visible THEN Rendered(Listing(g)) ELSE <<>>
           h == [g EXCEPT !.at = IF g.dlg \in visible THEN "ok" ELSE "404", !.seen = visible,
                          !.got = answer]
<1>3. gets' = (gets \ {g}) \union {h}
  BY DEF Serve
<1>4. /\ answer \in Seq(EntryType)
      /\ \A k \in DOMAIN answer : answer[k].id \in DOMAIN rows /\ rows[answer[k].id].dlg = g.dlg
  <2>1. CASE g.dlg \in visible
    <3>1. Listing(g) \in Seq(Committed(g.dlg))
      BY <1>2, ListingFacts
    <3>2. QED
      BY <1>2, <2>1, <3>1, RenderedFacts
  <2>2. CASE g.dlg \notin visible
    BY <2>2
  <2>3. QED
    BY <2>1, <2>2
<1> HIDE DEF answer
<1>5. h \in GetType /\ h.got = answer /\ h.dlg = g.dlg /\ h.at # "body"
  BY <1>2, <1>4 DEF GetType
<1> HIDE DEF h
<1>6. PanelTypes'
  BY <1>1, <1>3, <1>5 DEF PanelTypes
<1>7. GotHolds'
  BY <1>1, <1>3, <1>4, <1>5 DEF GotHolds
<1>8. PostHolds' /\ BubbleHolds'
  BY <1>1, RowsSame, PostStep, BubbleStep
<1>9. QED
  BY <1>6, <1>7, <1>8

-----------------------------------------------------------------------------
(* Then the page.  What a step brings into the feed belongs to the dialog   *)
(* that is open then, but for a body read after the dialog was left and a   *)
(* page of older messages that comes after it was left.                     *)
Apart ==
  \A i \in Shown(feed') \ Ids(feed) :
    \/ rows[i].dlg = active'
    \/ \E g \in gets \ gets' : g.at = "left" \/ (g.kind = "older" /\ ~Fresh(g))

(* A step that leaves the feed, the dialog and the message under way alone. *)
LEMMA QuietStep ==
  ASSUME PanelInv, UNCHANGED <<rows, visible, active, feed, lastId, post>>,
         listed' \subseteq Dialogs, file' \in Nat, gets' \subseteq GetType, Asked
  PROVE  PanelInv' /\ Apart
<1> USE DEF PanelInv
<1>1. PanelTypes' /\ Grown
  BY RowsSame DEF PanelTypes
<1>2. GotHolds' /\ PostHolds' /\ BubbleHolds'
  BY <1>1, GotStep, PostStep, BubbleStep
<1>3. Apart
  BY DEF Apart, Shown
<1>4. QED
  BY <1>1, <1>2, <1>3

(* A dialog is opened: the feed is empty until its messages come.          *)
LEMMA OpenStep ==
  ASSUME PanelInv, UNCHANGED <<rows, visible, post>>, listed' \subseteq Dialogs,
         NEW d \in Dialogs, NEW kind \in {"first", "open"}, OpenFirst(d, kind)
  PROVE  PanelInv' /\ Apart
<1> USE DEF PanelInv
<1>1. /\ active' = d /\ feed' = <<>> /\ lastId' = 0 /\ file' = 0
      /\ gets' = Left(gets) \union {Ask(kind, d, 0)}
  BY DEF OpenFirst
<1>2. /\ Ask(kind, d, 0) \in GetType /\ Ask(kind, d, 0).got = <<>> /\ Ask(kind, d, 0).at = "asked"
      /\ Left(gets) \subseteq GetType
      /\ \A g \in Left(gets) : g.at # "body" /\ \E h \in gets : g.got = h.got /\ g.dlg = h.dlg
  <2>1. d \in Nat /\ gets \in SUBSET GetType
    BY NumbersFacts DEF PanelTypes
  <2>2. QED
    BY <2>1, AskFacts, LeftFacts
<1>3. PanelTypes' /\ Grown
  BY <1>1, <1>2, RowsSame DEF PanelTypes
<1>4. Asked
  BY <1>1, <1>2 DEF Asked
<1>5. GotHolds' /\ PostHolds'
  BY <1>3, <1>4, GotStep, PostStep
<1>6. BubbleHolds'
  BY <1>1 DEF BubbleHolds, OneBubble, Bare
<1>7. Apart
  BY <1>1 DEF Apart, Shown, Ids
<1>8. QED
  BY <1>3, <1>5, <1>6, <1>7

LEMMA OpenedStep == ASSUME PanelInv, \E d \in Dialogs : Open(d) PROVE PanelInv' /\ Apart
<1>1. PICK d \in Dialogs : Open(d)
  OBVIOUS
<1>2. UNCHANGED <<rows, visible, listed, post>> /\ OpenFirst(d, "open")
  BY <1>1 DEF Open, server
<1>3. listed' \subseteq Dialogs
  BY <1>2 DEF PanelInv, PanelTypes
<1>4. QED
  BY <1>2, <1>3, OpenStep

LEMMA ResumeStep == ASSUME PanelInv, Resume PROVE PanelInv' /\ Apart
<1>1. UNCHANGED <<rows, visible, post>> /\ PanelTypes
  BY DEF Resume, server, PanelInv
<1>2. CASE active # 0
  <2>1. UNCHANGED <<listed, active, feed, lastId, file, gets>>
    BY <1>2 DEF Resume, page
  <2>2. QED
    BY <1>1, <2>1, QuietStep DEF PanelTypes, Asked
<1>3. CASE active = 0 /\ visible = {}
  <2>1. listed' = visible /\ UNCHANGED <<active, feed, lastId, file, gets>>
    BY <1>3 DEF Resume
  <2>2. QED
    BY <1>1, <2>1, QuietStep DEF PanelTypes, Asked
<1>4. CASE active = 0 /\ visible # {}
  <2>1. listed' = visible /\ OpenFirst(FirstOf(visible), "first")
    BY <1>4 DEF Resume
  <2>2. FirstOf(visible) \in Dialogs /\ visible \subseteq Dialogs
    BY <1>1, <1>4, FirstOfFacts DEF PanelTypes
  <2>3. QED
    BY <1>1, <2>1, <2>2, OpenStep
<1>5. QED
  BY <1>2, <1>3, <1>4

LEMMA AskSteps ==
  ASSUME PanelInv, LoadOlder \/ PollTick \/ Pick \/ \E g \in gets : GetLost(g)
  PROVE  PanelInv' /\ Apart
<1>1. UNCHANGED <<rows, visible, listed, active, feed, lastId, post>> /\ PanelTypes
  BY DEF LoadOlder, PollTick, Pick, GetLost, server, page, outbox, PanelInv
<1>2. listed' \subseteq Dialogs /\ lastId \in Nat /\ file \in Nat /\ active \in Nat
  BY <1>1, NumbersFacts DEF PanelTypes
<1>3. CASE LoadOlder
  <2>1. /\ gets' = gets \union {Ask("older", active, feed[1].id)} /\ UNCHANGED file
        /\ feed # <<>>
    BY <1>3 DEF LoadOlder, outbox
  <2>2. feed[1].id \in Nat
    <3>1. feed \in Seq(EntryType)
      BY <1>1 DEF PanelTypes
    <3>2. 1 \in DOMAIN feed
      BY <2>1, <3>1
    <3>3. QED
      BY <3>1, <3>2, EntriesFacts
  <2>3. /\ Ask("older", active, feed[1].id) \in GetType /\ Ask("older", active, feed[1].id).got = <<>>
        /\ Ask("older", active, feed[1].id).at = "asked"
    BY <1>2, <2>2, AskFacts
  <2>4. gets' \subseteq GetType /\ Asked
    BY <1>1, <2>1, <2>3 DEF PanelTypes, Asked
  <2>5. QED
    BY <1>1, <1>2, <2>1, <2>4, QuietStep
<1>4. CASE PollTick
  <2>1. gets' = gets \union {Ask("poll", active, lastId)} /\ UNCHANGED file
    BY <1>4 DEF PollTick, outbox
  <2>2. /\ Ask("poll", active, lastId) \in GetType /\ Ask("poll", active, lastId).got = <<>>
        /\ Ask("poll", active, lastId).at = "asked"
    BY <1>2, AskFacts
  <2>3. gets' \subseteq GetType /\ Asked
    BY <1>1, <2>1, <2>2 DEF PanelTypes, Asked
  <2>4. QED
    BY <1>1, <1>2, <2>1, <2>3, QuietStep
<1>5. CASE Pick
  <2>1. file' = active /\ gets' = gets
    BY <1>5 DEF Pick
  <2>2. QED
    BY <1>1, <1>2, <2>1, QuietStep DEF PanelTypes, Asked
<1>6. CASE \E g \in gets : GetLost(g)
  <2>1. gets' \subseteq gets /\ UNCHANGED file
    BY <1>6 DEF GetLost, outbox
  <2>2. QED
    BY <1>1, <1>2, <2>1, QuietStep DEF PanelTypes, Asked
<1>7. QED
  BY <1>3, <1>4, <1>5, <1>6

(* What an answer brings belongs to its dialog.                            *)
LEMMA GotFacts ==
  ASSUME PanelInv, NEW g \in gets
  PROVE  /\ g \in GetType /\ g.got \in Seq(EntryType)
         /\ \A i \in Ids(g.got) : i \in 1..Len(rows) /\ rows[i].dlg = g.dlg
         /\ Bare(g.got) /\ Len(rows) \in Nat
<1>1. g \in GetType /\ g.got \in Seq(EntryType) /\ rows \in Seq(RowType)
  BY DEF PanelInv, PanelTypes, GetType
<1>2. Len(rows) \in Nat /\ DOMAIN rows = 1..Len(rows)
  BY <1>1
<1>3. \A k \in DOMAIN g.got : g.got[k].id \in 1..Len(rows) /\ rows[g.got[k].id].dlg = g.dlg
  BY <1>2 DEF PanelInv, GotHolds
<1>4. \A i \in Ids(g.got) : i \in 1..Len(rows) /\ rows[i].dlg = g.dlg
  BY <1>3 DEF Ids
<1>5. Bare(g.got)
  BY <1>2, <1>3 DEF Bare
<1>6. QED
  BY <1>1, <1>2, <1>4, <1>5

LEMMA CheckStep == ASSUME PanelInv, NEW g \in gets, LoadChecked(g) PROVE PanelInv' /\ Apart
<1>1. /\ UNCHANGED <<rows, visible, listed, active, feed, lastId, file, post>> /\ PanelTypes
      /\ g \in GetType
  BY DEF LoadChecked, server, page, outbox, PanelInv, PanelTypes
<1>2. CASE g.at = "ok" /\ Fresh(g)
  <2> DEFINE h == [g EXCEPT !.at = "body"]
  <2>1. gets' = (gets \ {g}) \union {h}
    BY <1>2 DEF LoadChecked
  <2>2. h \in GetType /\ h.got = g.got /\ h.dlg = g.dlg /\ h.dlg = active
    BY <1>1, <1>2 DEF GetType, Fresh
  <2> HIDE DEF h
  <2>3. gets' \subseteq GetType /\ Asked
    BY <1>1, <2>1, <2>2 DEF PanelTypes, Asked
  <2>4. QED
    BY <1>1, <2>3, QuietStep DEF PanelTypes
<1>3. CASE ~(g.at = "ok" /\ Fresh(g))
  <2>1. gets' = gets \ {g}
    BY <1>3 DEF LoadChecked
  <2>2. QED
    BY <1>1, <2>1, QuietStep DEF PanelTypes, Asked
<1>4. QED
  BY <1>2, <1>3

LEMMA LoadStep == ASSUME PanelInv, NEW g \in gets, LoadRead(g) PROVE PanelInv' /\ Apart
<1>1. /\ UNCHANGED <<rows, visible, listed, active, file, post>> /\ gets' = gets \ {g} /\ PanelTypes
      /\ g.at \in {"body", "left"} /\ feed' = g.got /\ lastId' = Top(Ids(g.got))
  BY DEF LoadRead, server, outbox, PanelInv
<1>2. /\ g.got \in Seq(EntryType) /\ Bare(g.got) /\ Len(rows) \in Nat
      /\ \A i \in Ids(g.got) : i \in 1..Len(rows) /\ rows[i].dlg = g.dlg
  BY GotFacts
<1>3. Ids(g.got) \in SUBSET (0..Len(rows))
  BY <1>2
<1>4. lastId' \in Nat
  BY <1>1, <1>2, <1>3, TopFacts
<1>5. PanelTypes' /\ Grown
  BY <1>1, <1>2, <1>4, RowsSame DEF PanelTypes
<1>6. GotHolds' /\ PostHolds'
  BY <1>1, <1>5, GotStep, PostStep DEF PanelInv, Asked
<1>7. BubbleHolds'
  BY <1>1, <1>2 DEF BubbleHolds, OneBubble, Bare
<1>8. Apart
  <2>1. CASE g.at = "body"
    <3>1. g.dlg = active
      BY <2>1 DEF PanelInv, GotHolds
    <3>2. QED
      BY <1>1, <1>2, <3>1 DEF Apart, Shown
  <2>2. CASE g.at = "left"
    BY <1>1, <2>2 DEF Apart
  <2>3. QED
    BY <1>1, <2>1, <2>2
<1>9. QED
  BY <1>5, <1>6, <1>7, <1>8 DEF PanelInv

LEMMA OlderStep == ASSUME PanelInv, NEW g \in gets, OlderAnswered(g) PROVE PanelInv' /\ Apart
<1>1. /\ UNCHANGED <<rows, visible, listed, active, lastId, file, post>> /\ gets' = gets \ {g}
      /\ PanelTypes /\ g.kind = "older"
  BY DEF OlderAnswered, server, outbox, PanelInv
<1>2. CASE g.at = "ok"
  <2>1. feed' = g.got \o feed
    BY <1>2 DEF OlderAnswered
  <2>2. /\ g.got \in Seq(EntryType) /\ Bare(g.got) /\ feed \in Seq(EntryType) /\ BubbleHolds
        /\ \A i \in Ids(g.got) : rows[i].dlg = g.dlg
    BY GotFacts DEF PanelInv, PanelTypes
  <2>3. /\ feed' \in Seq(EntryType) /\ (Bare(feed) => Bare(feed')) /\ OneBubble(feed')
        /\ Ids(feed') \subseteq Ids(g.got) \union Ids(feed)
    BY <2>1, <2>2, JoinFacts DEF BubbleHolds
  <2>4. PanelTypes' /\ Grown
    BY <1>1, <2>3, RowsSame DEF PanelTypes
  <2>5. GotHolds' /\ PostHolds'
    BY <1>1, <2>4, GotStep, PostStep DEF PanelInv, Asked
  <2>6. BubbleHolds'
    BY <1>1, <2>2, <2>3 DEF BubbleHolds, Sending
  <2>7. Apart
    BY <1>1, <2>2, <2>3 DEF Apart, Shown, Fresh
  <2>8. QED
    BY <2>4, <2>5, <2>6, <2>7 DEF PanelInv
<1>3. CASE g.at # "ok"
  <2>1. UNCHANGED feed
    BY <1>3 DEF OlderAnswered
  <2>2. QED
    BY <1>1, <2>1, QuietStep DEF PanelTypes, Asked
<1>4. QED
  BY <1>2, <1>3

LEMMA PollStep == ASSUME PanelInv, NEW g \in gets, PollAnswered(g) PROVE PanelInv' /\ Apart
<1> DEFINE places == Ascending({k \in DOMAIN g.got : g.got[k].id \notin Ids(feed)})
           unseen == [k \in DOMAIN places |-> g.got[places[k]]]
           closed == active # 0 /\ active \notin g.seen
<1>1. UNCHANGED <<rows, visible, file, post>> /\ PanelTypes /\ listed' = g.seen
  BY DEF PollAnswered, server, outbox, PanelInv
<1>2. /\ g \in GetType /\ g.got \in Seq(EntryType) /\ Bare(g.got) /\ Len(rows) \in Nat
      /\ \A i \in Ids(g.got) : i \in 1..Len(rows) /\ rows[i].dlg = g.dlg
  BY GotFacts
<1>3. unseen \in Seq(EntryType) /\ Ids(unseen) \subseteq Ids(g.got)
  <2> DEFINE S == {k \in DOMAIN g.got : g.got[k].id \notin Ids(feed)}
  <2>1. S \in SUBSET (DOMAIN g.got)
    OBVIOUS
  <2>2. QED
    BY <1>2, <2>1, UnseenFacts
<1>4. active' = IF closed THEN 0 ELSE active
  BY DEF PollAnswered
<1>5. IF closed THEN feed' = <<>> /\ UNCHANGED lastId
      ELSE IF Fresh(g) /\ unseen # <<>>
             THEN feed' = feed \o unseen /\ lastId' = Top({lastId} \union Ids(unseen))
             ELSE UNCHANGED <<feed, lastId>>
  BY DEF PollAnswered
<1>6. IF closed THEN gets' = Left(gets \ {g})
                ELSE gets' \subseteq (gets \ {g}) \union {Ask("tail", active, 0)}
  BY DEF PollAnswered
<1> HIDE DEF places, unseen, closed
<1>7. gets' \subseteq GetType /\ Asked /\ listed' \subseteq Dialogs /\ lastId \in Nat /\ file' \in Nat
  <2>1. /\ Ask("tail", active, 0) \in GetType /\ Ask("tail", active, 0).got = <<>>
        /\ Ask("tail", active, 0).at = "asked"
    BY <1>1, NumbersFacts, AskFacts
  <2>2. gets' \subseteq GetType /\ Asked
    <3>1. CASE closed
      <4>1. gets \ {g} \in SUBSET GetType
        BY <1>1 DEF PanelTypes
      <4>2. QED
        BY <1>6, <3>1, <4>1, LeftFacts DEF Asked
    <3>2. CASE ~closed
      <4>1. active' = active /\ gets' \subseteq (gets \ {g}) \union {Ask("tail", active, 0)}
        BY <1>4, <1>6, <3>2
      <4>2. QED
        BY <1>1, <2>1, <4>1 DEF PanelTypes, Asked
    <3>3. QED
      BY <3>1, <3>2
  <2>3. QED
    BY <1>1, <1>2, <2>2 DEF PanelTypes, GetType
<1>8. ASSUME lastId' \in Nat, feed' \in Seq(EntryType), BubbleHolds', Apart
      PROVE  PanelInv' /\ Apart
  <2>1. PanelTypes' /\ Grown
    BY <1>1, <1>4, <1>7, <1>8, RowsSame DEF PanelTypes
  <2>2. GotHolds' /\ PostHolds'
    BY <1>1, <1>7, <2>1, GotStep, PostStep DEF PanelInv
  <2>3. QED
    BY <1>8, <2>1, <2>2 DEF PanelInv
<1>9. CASE closed
  <2>1. feed' = <<>> /\ lastId' = lastId
    BY <1>5, <1>9
  <2>2. BubbleHolds' /\ Apart
    BY <2>1 DEF BubbleHolds, OneBubble, Bare, Apart, Shown, Ids
  <2>3. QED
    BY <1>7, <1>8, <2>1, <2>2
<1>10. CASE ~closed /\ Fresh(g) /\ unseen # <<>>
  <2>1. feed' = feed \o unseen /\ lastId' = Top({lastId} \union Ids(unseen)) /\ active' = active
    BY <1>4, <1>5, <1>10
  <2>2. Bare(unseen)
    BY <1>2, <1>3 DEF Bare, Ids
  <2>3. feed \in Seq(EntryType) /\ BubbleHolds
    BY DEF PanelInv, PanelTypes
  <2>4. /\ feed' \in Seq(EntryType) /\ Ids(feed') \subseteq Ids(feed) \union Ids(unseen)
        /\ (Bare(feed) => Bare(feed')) /\ OneBubble(feed')
    BY <1>3, <2>1, <2>2, <2>3, JoinFacts DEF BubbleHolds
  <2>5. BubbleHolds'
    BY <1>1, <2>1, <2>3, <2>4 DEF BubbleHolds, Sending
  <2>6. lastId' \in Nat
    <3>1. lastId + Len(rows) \in Nat
      BY <1>2, <1>7
    <3>2. {lastId} \union Ids(unseen) \in SUBSET (0..lastId + Len(rows))
      BY <1>2, <1>3, <1>7
    <3>3. QED
      BY <2>1, <3>1, <3>2, TopFacts
  <2>7. Apart
    BY <1>2, <1>3, <1>10, <2>1, <2>4 DEF Apart, Shown, Fresh
  <2>8. QED
    BY <1>8, <2>4, <2>5, <2>6, <2>7
<1>11. CASE ~closed /\ ~(Fresh(g) /\ unseen # <<>>)
  <2>1. UNCHANGED <<feed, lastId, active>>
    BY <1>4, <1>5, <1>11
  <2>2. QED
    BY <1>1, <1>7, <2>1, QuietStep
<1>12. QED
  BY <1>9, <1>10, <1>11

LEMMA TailStep == ASSUME PanelInv, NEW g \in gets, TailAnswered(g) PROVE PanelInv' /\ Apart
<1>1. /\ UNCHANGED <<rows, visible, listed, active, lastId, file, post>> /\ gets' = gets \ {g}
      /\ PanelTypes
  BY DEF TailAnswered, server, outbox, PanelInv
<1>2. g.got \in Seq(EntryType) /\ feed \in Seq(EntryType) /\ BubbleHolds
  BY GotFacts DEF PanelInv, PanelTypes
<1>3. feed' = [k \in DOMAIN feed |->
                 IF feed[k].id \in Ids(g.got) THEN CHOOSE e \in ToSet(g.got) : e.id = feed[k].id
                                              ELSE feed[k]]
  BY DEF TailAnswered
<1>4. /\ feed' \in Seq(EntryType) /\ Ids(feed') \subseteq Ids(feed)
      /\ (Bare(feed) => Bare(feed')) /\ (OneBubble(feed) => OneBubble(feed'))
  <2> DEFINE a == feed'
  <2>1. a = [k \in DOMAIN feed |->
               IF feed[k].id \in Ids(g.got) THEN CHOOSE e \in ToSet(g.got) : e.id = feed[k].id
                                            ELSE feed[k]]
    BY <1>3
  <2> HIDE DEF a
  <2>2. /\ a \in Seq(EntryType) /\ Ids(a) \subseteq Ids(feed)
        /\ (Bare(feed) => Bare(a)) /\ (OneBubble(feed) => OneBubble(a))
    BY <1>2, <2>1, RenewedFacts
  <2>3. QED
    BY <2>2 DEF a
<1>5. PanelTypes' /\ Grown
  BY <1>1, <1>4, RowsSame DEF PanelTypes
<1>6. GotHolds' /\ PostHolds'
  BY <1>1, <1>5, GotStep, PostStep DEF PanelInv, Asked
<1>7. BubbleHolds'
  BY <1>1, <1>2, <1>4 DEF BubbleHolds, Sending
<1>8. Apart
  BY <1>4 DEF Apart, Shown
<1>9. QED
  BY <1>5, <1>6, <1>7, <1>8 DEF PanelInv

-----------------------------------------------------------------------------
(* Sending.                                                                *)

LEMMA SendStep == ASSUME PanelInv, Send PROVE PanelInv' /\ Apart
<1>1. /\ UNCHANGED <<rows, visible, listed, active, lastId, gets>> /\ PanelTypes /\ ~Sending
      /\ file' = 0 /\ feed' = Append(feed, Bubble)
      /\ post' = [at |-> "asked", dlg |-> active, file |-> file, row |-> 0]
  BY DEF Send, server, PanelInv
<1>2. feed \in Seq(EntryType) /\ Bare(feed) /\ active \in Nat /\ file \in Nat
  BY <1>1, NumbersFacts DEF PanelInv, PanelTypes, BubbleHolds
<1>3. feed' \in Seq(EntryType) /\ Ids(feed') \subseteq Ids(feed) \union {0} /\ OneBubble(feed')
  BY <1>1, <1>2, BubbleFacts
<1>4. post' \in PostType /\ post'.at = "asked" /\ post'.dlg = active
  BY <1>1, <1>2 DEF PostType
<1>5. PanelTypes' /\ Grown
  BY <1>1, <1>3, <1>4, RowsSame DEF PanelTypes
<1>6. GotHolds' /\ PostHolds'
  BY <1>1, <1>4, <1>5, GotStep, PostStep DEF PanelInv, Asked
<1>7. BubbleHolds'
  BY <1>1, <1>3, <1>4 DEF BubbleHolds, Sending
<1>8. Apart
  BY <1>3 DEF Apart, Shown
<1>9. QED
  BY <1>5, <1>6, <1>7, <1>8 DEF PanelInv

LEMMA PostedStep == ASSUME PanelInv, PostAnswered PROVE PanelInv' /\ Apart
<1>1. /\ UNCHANGED <<rows, visible, listed, active, file, gets>> /\ PanelTypes
      /\ post' = NoPost /\ post.at = "stored"
  BY DEF PostAnswered, server, PanelInv
<1>2. post' \in PostType /\ post'.at = "idle"
  BY <1>1 DEF NoPost, PostType
<1>3. /\ feed \in Seq(EntryType) /\ OneBubble(feed) /\ (Bare(feed) \/ post.dlg = active)
      /\ lastId \in Nat
  BY DEF PanelInv, PanelTypes, BubbleHolds
<1>4. /\ post.row \in DOMAIN rows /\ rows[post.row].dlg = post.dlg
      /\ post.row \in Nat /\ post.row # 0
  <2>1. post.row \in DOMAIN rows /\ rows[post.row].dlg = post.dlg
    BY <1>1 DEF PanelInv, PostHolds
  <2>2. rows \in Seq(RowType)
    BY <1>1 DEF PanelTypes
  <2>3. QED
    BY <2>1, <2>2
<1>5. /\ feed' \in Seq(EntryType) /\ Bare(feed') /\ lastId' \in Nat
      /\ \A i \in Ids(feed') : i \in Ids(feed) \/ (i = post.row /\ active = post.dlg)
  <2>1. CASE active = post.dlg
    <3>1. /\ feed' = IF FirstBubble = 0 THEN feed
                     ELSE [feed EXCEPT ![FirstBubble] = [id |-> post.row, done |-> FALSE]]
          /\ lastId' = Top({lastId, post.row})
      BY <2>1 DEF PostAnswered
    <3>2. lastId' \in Nat
      <4>1. {lastId, post.row} \in SUBSET (0..lastId + post.row) /\ lastId + post.row \in Nat
        BY <1>3, <1>4
      <4>2. QED
        BY <3>1, <4>1, TopFacts
    <3>3. CASE FirstBubble = 0
      BY <1>3, <3>1, <3>2, <3>3, FirstBubbleFacts, EntriesFacts
    <3>4. CASE FirstBubble # 0
      <4> DEFINE e == [id |-> post.row, done |-> FALSE]
                 p == FirstBubble
      <4>1. e \in EntryType /\ e.id # 0 /\ e.id = post.row
        BY <1>4 DEF EntryType
      <4>2. p \in DOMAIN feed /\ feed[p].id = 0
        BY <1>3, <3>4, FirstBubbleFacts
      <4>3. feed' = [feed EXCEPT ![p] = e]
        BY <3>1, <3>4
      <4> HIDE DEF e, p
      <4>4. /\ feed' \in Seq(EntryType) /\ Bare(feed')
            /\ Ids(feed') \subseteq Ids(feed) \union {post.row}
        BY <1>3, <4>1, <4>2, <4>3, StoredFacts
      <4>5. QED
        BY <2>1, <3>2, <4>4
    <3>5. QED
      BY <3>3, <3>4
  <2>2. CASE active # post.dlg
    BY <1>3, <2>2 DEF PostAnswered
  <2>3. QED
    BY <2>1, <2>2
<1>6. PanelTypes' /\ Grown
  BY <1>1, <1>2, <1>5, RowsSame DEF PanelTypes
<1>7. GotHolds' /\ PostHolds'
  BY <1>1, <1>2, <1>6, GotStep, PostStep DEF PanelInv, Asked
<1>8. BubbleHolds'
  BY <1>5 DEF BubbleHolds, OneBubble, Bare
<1>9. Apart
  BY <1>1, <1>4, <1>5 DEF Apart, Shown
<1>10. QED
  BY <1>6, <1>7, <1>8, <1>9 DEF PanelInv

LEMMA RollBackStep ==
  ASSUME PanelInv, PostRefused \/ PostLost
  PROVE  PanelInv' /\ Apart
<1>1. RollBack /\ PanelTypes
  BY DEF PostRefused, PostLost, PanelInv
<1>2. /\ UNCHANGED <<rows, visible, listed, active, lastId, gets>> /\ post' = NoPost
      /\ file' = (IF post.file = 0 THEN file ELSE post.file)
      /\ feed' = IF FirstBubble = 0 THEN feed ELSE RemoveAt(feed, FirstBubble)
  BY <1>1 DEF RollBack, server
<1>3. post' \in PostType /\ post'.at = "idle" /\ file' \in Nat
  BY <1>1, <1>2 DEF NoPost, PostType, PanelTypes
<1>4. feed \in Seq(EntryType) /\ OneBubble(feed)
  BY DEF PanelInv, PanelTypes, BubbleHolds
<1>5. feed' \in Seq(EntryType) /\ Ids(feed') \subseteq Ids(feed) /\ Bare(feed')
  <2>1. CASE FirstBubble = 0
    BY <1>2, <1>4, <2>1, FirstBubbleFacts, EntriesFacts
  <2>2. CASE FirstBubble # 0
    <3> DEFINE p == FirstBubble
    <3>1. p \in DOMAIN feed /\ feed[p].id = 0 /\ feed' = RemoveAt(feed, p)
      BY <1>2, <1>4, <2>2, FirstBubbleFacts
    <3> HIDE DEF p
    <3>2. QED
      BY <1>4, <3>1, RemovedFacts
  <2>3. QED
    BY <2>1, <2>2
<1>6. PanelTypes' /\ Grown
  BY <1>1, <1>2, <1>3, <1>5, RowsSame DEF PanelTypes
<1>7. GotHolds' /\ PostHolds'
  BY <1>2, <1>3, <1>6, GotStep, PostStep DEF PanelInv, Asked
<1>8. BubbleHolds'
  BY <1>5 DEF BubbleHolds, OneBubble, Bare
<1>9. Apart
  BY <1>5 DEF Apart, Shown
<1>10. QED
  BY <1>6, <1>7, <1>8, <1>9 DEF PanelInv

-----------------------------------------------------------------------------
(* The theorems.                                                           *)

LEMMA PanelStep == ASSUME PanelInv, Next PROVE PanelInv' /\ Apart
<1>1. CASE Server \/ Store \/ Refuse
  <2>1. PanelInv'
    BY <1>1, RowSteps, ScopeStep, StoreStep, RefuseStep DEF Server
  <2>2. UNCHANGED feed
    BY <1>1 DEF Server, Inbound, LeaveScope, Commit, Delivered, Store, Refuse, page
  <2>3. QED
    BY <2>1, <2>2 DEF Apart, Shown
<1>2. CASE PostAnswered \/ PostRefused \/ PostLost
  BY <1>2, PostedStep, RollBackStep
<1>3. CASE Manager \/ Resume \/ PollTick
  BY <1>3, OpenedStep, ResumeStep, AskSteps, SendStep DEF Manager
<1>4. CASE \E g \in gets : Serve(g) \/ Answered(g) \/ GetLost(g)
  <2>1. PICK g \in gets : Serve(g) \/ Answered(g) \/ GetLost(g)
    BY <1>4
  <2>2. CASE Serve(g)
    <3>1. UNCHANGED feed
      BY <2>2 DEF Serve, page
    <3>2. QED
      BY <2>2, <3>1, ServeStep DEF Apart, Shown
  <2>3. CASE Answered(g)
    BY <2>3, CheckStep, LoadStep, OlderStep, PollStep, TailStep DEF Answered
  <2>4. CASE GetLost(g)
    BY <2>4, AskSteps
  <2>5. QED
    BY <2>1, <2>2, <2>3, <2>4
<1>5. QED
  BY <1>1, <1>2, <1>3, <1>4 DEF Next, Reply

LEMMA PanelIdle == ASSUME PanelInv, UNCHANGED vars PROVE PanelInv'
<1>1. UNCHANGED <<rows, visible, listed, active, feed, lastId, file, post, gets>>
  BY DEF vars, server, page, outbox
<1>2. QED
  BY <1>1 DEF PanelInv, PanelTypes, GotHolds, PostHolds, BubbleHolds, Sending

LEMMA PanelAlways == Spec => []PanelInv
<1>1. PanelInv /\ [Next]_vars => PanelInv'
  BY PanelStep, PanelIdle
<1>2. QED
  BY PanelInit, <1>1, PTL DEF Spec

(* The bubble of an unsent message is on the page only while that message  *)
(* is under way to the dialog that is open, and there is one: whatever the *)
(* fate of the request and wherever the manager has gone since.            *)
THEOREM NoBubbleIsLeftBehind == Spec => []BubbleIsSending
<1>1. PanelInv => BubbleIsSending
  <2> SUFFICES ASSUME PanelInv, 0 \in Ids(feed) PROVE BubbleIsSending
    BY DEF BubbleIsSending
  <2>1. PICK k \in DOMAIN feed : feed[k].id = 0
    BY DEF Ids
  <2>2. {j \in DOMAIN feed : feed[j].id = 0} = {k}
    BY <2>1 DEF PanelInv, BubbleHolds, OneBubble
  <2>3. Cardinality({j \in DOMAIN feed : feed[j].id = 0}) = 1
    BY <2>2, FS_Singleton
  <2>4. QED
    BY <2>1, <2>3 DEF PanelInv, BubbleHolds, Bare, BubbleIsSending
<1>2. QED
  BY PanelAlways, <1>1, PTL

(* Whatever answers come, and in what order, the feed takes in no message  *)
(* of a dialog that is not the one open, but from two answers the page does *)
(* not check when it writes them: the body of a load whose dialog was left  *)
(* while the body was read, and a page of older messages for a dialog that  *)
(* was left since.                                                          *)
THEOREM FeedStaysApart == Spec => FeedsApart
<1>1. PanelInv /\ [Next]_vars =>
        [\A i \in Shown(feed') \ Ids(feed) :
           \/ rows[i].dlg = active'
           \/ \E g \in gets \ gets' : g.at = "left" \/ (g.kind = "older" /\ ~Fresh(g))]_vars
  BY PanelStep DEF Apart
<1>2. QED
  BY PanelAlways, <1>1, PTL DEF Spec, FeedsApart
-----------------------------------------------------------------------------
(* The session: types, and what holds until the first trouble.             *)

SessionTypes ==
  /\ ws \in [id : Nat, open : BOOLEAN, live : BOOLEAN, session : BOOLEAN]
  /\ sends \in [Files -> [at : {"idle", "slot", "post", "wait", "send", "sent", "failed", "timeout"},
                          on : Nat, future : {"none", "pending", "ready", "failed"},
                          push : {"none", "sent", "lost", "over"}]]
  /\ faults \in Nat /\ dead \in BOOLEAN

Untroubled == faults = 0 /\ stop = "no" /\ ~dead

(* The first connection is the only one; files wait for its login.         *)
FirstConnection ==
  \/ /\ sup = "transport" /\ ~ws.open /\ ~ws.live /\ ~ws.session
     /\ \A f \in Files : sends[f].at \in {"idle", "failed"} /\ sends[f].push = "none"
  \/ /\ sup = "login" /\ ws.open /\ ws.live /\ ~ws.session
     /\ \A f \in Files : sends[f].at \in {"idle", "failed", "slot"} /\ sends[f].push = "none"
  \/ sup = "tick" /\ ws.open /\ ws.live /\ ws.session

(* The push of a file comes after its slot, on that connection, and finds  *)
(* who waits for it.                                                       *)
PushHolds ==
  \A f \in Files :
    /\ sends[f].at # "timeout" /\ sends[f].push # "lost"
    /\ sends[f].push = "sent" => sends[f].on = ws.id
    /\ sends[f].push # "none" => sends[f].at \notin {"idle", "slot"}
    /\ Expects(f) /\ sends[f].push = "over" => sends[f].future # "pending"

SessionInv == SessionTypes /\ (Untroubled => FirstConnection /\ PushHolds)

LEMMA SessionStart == SessionInit => SessionInv
<1> SUFFICES ASSUME SessionInit PROVE SessionInv
  OBVIOUS
<1>1. SessionTypes
  BY DEF SessionInit, SessionTypes
<1>2. \A f \in Files : sends[f].at = "idle" /\ sends[f].push = "none"
  BY DEF SessionInit
<1>3. FirstConnection /\ PushHolds
  BY <1>2 DEF SessionInit, FirstConnection, PushHolds, Expects
<1>4. QED
  BY <1>1, <1>3 DEF SessionInv

(* A step keeps the types.                                                 *)
LEMMA SessionTypesStep == ASSUME SessionTypes, SessionNext PROVE SessionTypes'
<1> USE DEF SessionTypes
<1>0. MaxFaults \in Nat /\ Closed \in [id : Nat, open : BOOLEAN, live : BOOLEAN, session : BOOLEAN]
  BY MaxSessionAssumption DEF Closed
<1>1. CASE Drops \/ ReaderEnds \/ Revoked
  <2>1. CASE Drops
    <3>1. faults' \in Nat
      BY <2>1 DEF Drops, Fault
    <3>2. ws' \in [id : Nat, open : BOOLEAN, live : BOOLEAN, session : BOOLEAN]
      BY <2>1 DEF Drops
    <3>3. UNCHANGED <<sends, dead>>
      BY <2>1 DEF Drops
    <3>4. QED
      BY <3>1, <3>2, <3>3
  <2>2. CASE ReaderEnds \/ Revoked
    BY <1>0, <2>2 DEF ReaderEnds, Revoked
  <2>3. QED
    BY <1>1, <2>1, <2>2
<1>2. ASSUME FailAll
      PROVE  sends' \in [Files -> [at : {"idle", "slot", "post", "wait", "send", "sent", "failed", "timeout"},
                          on : Nat, future : {"none", "pending", "ready", "failed"},
                          push : {"none", "sent", "lost", "over"}]]
  BY <1>2 DEF FailAll
<1>3. CASE Supervisor \/ CallFails
  <2>1. CASE Transport \/ Login \/ Backoff
    <3>1. CASE Transport
      BY <3>1 DEF Transport
    <3>2. CASE Login
      BY <3>2 DEF Login
    <3>3. CASE Backoff
      BY <3>3 DEF Backoff
    <3>4. QED
      BY <2>1, <3>1, <3>2, <3>3
  <2>2. CASE Refused
    BY <1>0, <1>2, <2>2 DEF Refused
  <2>3. CASE LoginBreaks \/ CallFails
    BY <1>0, <1>2, <2>3 DEF LoginBreaks, CallFails, Recover, Fault
  <2>4. CASE Wake
    BY <1>0, <1>2, <2>4 DEF Wake, Recover
  <2>5. QED
    BY <1>3, <2>1, <2>2, <2>3, <2>4 DEF Supervisor
<1>4. CASE Disconnect
  BY <1>0, <1>2, <1>4 DEF Disconnect
<1>5. ASSUME NEW f \in Files, Start(f) \/ FileStep(f) \/ PostFails(f)
      PROVE  SessionTypes'
  <2>1. ws' = ws /\ faults' \in Nat /\ dead' \in BOOLEAN
    <3>1. CASE Start(f) \/ PostFails(f)
      BY <3>1 DEF Start, PostFails, Kept, Fault
    <3>2. CASE Slot(f) \/ Processed(f) \/ Ready(f) \/ Posted(f)
      BY <3>2 DEF Slot, Processed, Ready, Posted, Kept
    <3>3. CASE Waited(f) \/ Timeout(f) \/ Sent(f)
      BY <3>3 DEF Waited, Timeout, Sent, Kept
    <3>4. CASE SendFails(f)
      <4>1. ws' = ws /\ (dead' = dead \/ dead' = TRUE) /\ (faults' = faults \/ faults' = faults + 1)
        BY <3>4 DEF SendFails, Kept, Fault
      <4>2. faults' \in Nat
        BY <4>1
      <4>3. dead' \in BOOLEAN
        BY Zenon, <4>1
      <4>4. QED
        BY <4>1, <4>2, <4>3
    <3>5. QED
      BY <1>5, <3>1, <3>2, <3>3, <3>4 DEF FileStep
  <2>2. ws.id \in Nat
    OBVIOUS
  <2>3. CASE Start(f) \/ PostFails(f) \/ Posted(f) \/ Waited(f) \/ Timeout(f) \/ Sent(f) \/ SendFails(f)
    BY <2>1, <2>2, <2>3 DEF Start, PostFails, Posted, Waited, Timeout, Sent, SendFails, Goto
  <2>4. CASE Slot(f) \/ Processed(f) \/ Ready(f)
    BY <2>1, <2>2, <2>4 DEF Slot, Processed, Ready
  <2>5. QED
    BY <1>5, <2>3, <2>4 DEF FileStep
<1>6. QED
  BY <1>1, <1>3, <1>4, <1>5 DEF SessionNext

(* A step without trouble comes from a state without trouble, and nothing  *)
(* that breaks a connection is such a step.                                *)
LEMMA UntroubledStep ==
  ASSUME SessionTypes, SessionNext, Untroubled'
  PROVE  Untroubled /\ ~Drops /\ ~CallFails /\ ~Disconnect
<1>1. faults' = 0 /\ faults \in Nat
  BY DEF SessionTypes, Untroubled
<1>2. ~Fault
  BY <1>1 DEF Fault
<1>3. ~Drops /\ ~CallFails
  BY <1>2 DEF Drops, CallFails
<1>4. ~Disconnect
  BY DEF Disconnect, Untroubled
<1>5. ASSUME NEW f \in Files, Start(f) \/ FileStep(f) \/ PostFails(f) PROVE Untroubled
  BY <1>1, <1>2, <1>5 DEF Start, FileStep, PostFails, Slot, Processed, Ready, Posted, Waited, Timeout,
     Sent, SendFails, Kept, Untroubled
<1>6. CASE Supervisor \/ ReaderEnds \/ Revoked
  <2>1. stop' = stop /\ faults' = faults /\ (dead => dead')
    BY <1>6 DEF Supervisor, Transport, Login, Refused, LoginBreaks, Wake, Backoff, ReaderEnds, Revoked
  <2>2. QED
    BY <1>3, <1>4, <2>1 DEF Untroubled
<1>7. QED
  BY <1>3, <1>4, <1>5, <1>6 DEF SessionNext

(* The steps of the connection and of the supervisor.                      *)
LEMMA ConnectionStep ==
  ASSUME SessionTypes, FirstConnection, PushHolds, Untroubled', Supervisor \/ ReaderEnds \/ Revoked
  PROVE  (FirstConnection /\ PushHolds)'
<1> USE DEF FirstConnection, PushHolds, Expects
<1>1. CASE Transport
  BY <1>1 DEF Transport, SessionTypes
<1>2. CASE Login
  BY <1>2 DEF Login, SessionTypes
<1>3. CASE Revoked
  BY <1>3 DEF Revoked
<1>4. ~Refused
  BY DEF Refused, Untroubled
<1>5. ~LoginBreaks /\ ~Wake /\ ~Backoff /\ ~ReaderEnds
  BY DEF LoginBreaks, Wake, Backoff, ReaderEnds
<1>6. QED
  BY <1>1, <1>2, <1>3, <1>4, <1>5 DEF Supervisor

(* The steps of a file.                                                    *)
LEMMA FileKeeps ==
  ASSUME SessionTypes, FirstConnection, PushHolds, Untroubled',
         NEW f \in Files, Start(f) \/ FileStep(f) \/ PostFails(f)
  PROVE  (FirstConnection /\ PushHolds)'
<1>0. UNCHANGED <<ws, sup>> /\ ~Fault
  BY DEF Start, FileStep, PostFails, Slot, Processed, Ready, Posted, Waited, Timeout, Sent, SendFails,
     Kept, Fault, Untroubled, SessionTypes
<1> DEFINE s == sends[f]
<1>1. /\ s.at \in {"idle", "slot", "post", "wait", "send", "sent", "failed", "timeout"}
      /\ s.push \in {"none", "sent", "lost", "over"}
      /\ s.future \in {"none", "pending", "ready", "failed"}
  BY DEF SessionTypes
<1>2. ASSUME NEW r, sends' = [sends EXCEPT ![f] = r],
             r.at # "timeout", r.push # "lost",
             r.push = "sent" => r.on = ws.id,
             r.push # "none" => r.at \notin {"idle", "slot"},
             r.at \in {"post", "wait"} /\ r.push = "over" => r.future # "pending",
             \/ sup = "tick"
             \/ sup = "login" /\ r.at \in {"failed", "slot"} /\ r.push = "none"
             \/ sup = "transport" /\ r.at = "failed" /\ r.push = "none"
      PROVE  (FirstConnection /\ PushHolds)'
  <2>1. /\ \A g \in Files : sends'[g] = IF g = f THEN r ELSE sends[g]
    BY <1>2 DEF SessionTypes
  <2>2. PushHolds'
    BY <1>0, <1>2, <2>1 DEF PushHolds, Expects
  <2>3. FirstConnection'
    BY <1>0, <1>2, <2>1 DEF FirstConnection
  <2>4. QED
    BY <2>2, <2>3
<1>3. /\ s.at # "timeout" /\ s.push # "lost"
      /\ s.push = "sent" => s.on = ws.id
      /\ s.push # "none" => s.at \notin {"idle", "slot"}
      /\ s.at \in {"post", "wait"} /\ s.push = "over" => s.future # "pending"
  BY DEF PushHolds, Expects
<1>4. CASE Start(f)
  <2> DEFINE r == [s EXCEPT !.at = IF ws.open /\ ~dead THEN "slot" ELSE "failed", !.on = ws.id]
  <2>1. sends' = [sends EXCEPT ![f] = r] /\ s.at = "idle"
    BY <1>4 DEF Start, Goto, At, SessionTypes
  <2>2. /\ r.at = (IF ws.open /\ ~dead THEN "slot" ELSE "failed") /\ r.on = ws.id
        /\ r.push = s.push /\ r.future = s.future
    BY DEF SessionTypes
  <2> HIDE DEF r
  <2>3. s.push = "none"
    BY <1>1, <1>3, <2>1
  <2>4. \/ sup = "tick"
        \/ sup = "login" /\ r.at \in {"failed", "slot"} /\ r.push = "none"
        \/ sup = "transport" /\ r.at = "failed" /\ r.push = "none"
    BY <2>2, <2>3 DEF FirstConnection
  <2>5. QED
    BY <1>2, <2>1, <2>2, <2>3, <2>4
<1>5. CASE Slot(f)
  <2> DEFINE r == [s EXCEPT !.at = "post", !.future = "pending"]
  <2>1. sends' = [sends EXCEPT ![f] = r] /\ s.at = "slot" /\ sup = "tick"
    BY <1>5 DEF Slot, At, Answers, SessionTypes, FirstConnection
  <2>2. r.at = "post" /\ r.on = s.on /\ r.push = s.push /\ r.future = "pending"
    BY DEF SessionTypes
  <2> HIDE DEF r
  <2>3. s.push = "none"
    BY <1>1, <1>3, <2>1
  <2>4. QED
    BY <1>2, <2>1, <2>2, <2>3
<1>6. CASE Processed(f)
  <2> DEFINE r == [s EXCEPT !.push = IF ws.live /\ ws.session THEN "sent" ELSE "lost", !.on = ws.id]
  <2>1. sends' = [sends EXCEPT ![f] = r] /\ s.at \in {"post", "wait"}
    BY <1>6 DEF Processed, Expects, SessionTypes
  <2>2. sup = "tick" /\ ws.live /\ ws.session
    BY <2>1 DEF FirstConnection
  <2>3. r.at = s.at /\ r.on = ws.id /\ r.push = "sent" /\ r.future = s.future
    BY <2>2 DEF SessionTypes
  <2> HIDE DEF r
  <2>4. QED
    BY <1>2, <2>1, <2>2, <2>3
<1>7. CASE Ready(f)
  <2> DEFINE r == [s EXCEPT !.push = "over",
                            !.future = IF Hears(f) /\ @ = "pending" THEN "ready" ELSE @]
  <2>1. sends' = [sends EXCEPT ![f] = r] /\ s.push = "sent" /\ sup = "tick"
    BY <1>7 DEF Ready, Answers, SessionTypes, FirstConnection
  <2>2. /\ r.at = s.at /\ r.on = s.on /\ r.push = "over"
        /\ r.at \in {"post", "wait"} => r.future # "pending"
    BY DEF SessionTypes, Hears, Expects
  <2> HIDE DEF r
  <2>3. QED
    BY <1>2, <1>3, <2>1, <2>2
<1>8. CASE Posted(f)
  <2> DEFINE r == [s EXCEPT !.at = "wait"]
  <2>1. sends' = [sends EXCEPT ![f] = r] /\ s.at = "post"
    BY <1>8 DEF Posted, At, SessionTypes
  <2>2. sup = "tick"
    BY <2>1 DEF FirstConnection
  <2>3. r.at = "wait" /\ r.on = s.on /\ r.push = s.push /\ r.future = s.future
    BY DEF SessionTypes
  <2> HIDE DEF r
  <2>4. QED
    BY <1>2, <1>3, <2>1, <2>2, <2>3
<1>9. ~Timeout(f)
  <2> SUFFICES ASSUME Timeout(f) PROVE FALSE
    OBVIOUS
  <2>1. s.at = "wait" /\ s.future = "pending"
    BY DEF Timeout, At
  <2>2. sup = "tick" /\ ws.open /\ ws.live /\ ws.session
    BY <2>1 DEF FirstConnection
  <2>3. ~(s.push = "sent" /\ Fails(s.on))
    BY <1>3, <2>2 DEF Fails
  <2>4. QED
    BY <1>3, <2>1, <2>3 DEF Timeout
<1>10. ASSUME NEW at \in {"send", "sent", "failed"}, Goto(f, at), s.at \in {"slot", "wait", "send"},
              at = "failed" \/ s.at # "slot"
       PROVE  (FirstConnection /\ PushHolds)'
  <2> DEFINE r == [s EXCEPT !.at = at, !.on = ws.id]
  <2>1. sends' = [sends EXCEPT ![f] = r]
    BY <1>10 DEF Goto, SessionTypes
  <2>2. r.at = at /\ r.on = ws.id /\ r.push = s.push /\ r.future = s.future
    BY DEF SessionTypes
  <2> HIDE DEF r
  <2>3. \/ sup = "tick"
        \/ sup = "login" /\ at = "failed" /\ s.push = "none"
    BY <1>10 DEF FirstConnection
  <2>4. QED
    BY <1>2, <1>3, <1>10, <2>1, <2>2, <2>3
<1>11. CASE Waited(f)
  <2>1. /\ s.at = "wait" /\ Goto(f, IF s.future = "ready" THEN "send" ELSE "failed")
    BY <1>11 DEF Waited, At
  <2>2. QED
    BY <1>10, <2>1
<1>12. CASE Sent(f)
  BY <1>10, <1>12 DEF Sent, At
<1>13. CASE SendFails(f)
  BY <1>10, <1>13 DEF SendFails
<1>14. ~PostFails(f)
  BY <1>0 DEF PostFails
<1>15. QED
  BY <1>4, <1>5, <1>6, <1>7, <1>8, <1>9, <1>11, <1>12, <1>13, <1>14 DEF FileStep

LEMMA SessionStep == ASSUME SessionInv, [SessionNext]_sessionVars PROVE SessionInv'
<1>1. CASE SessionNext
  <2>1. SessionTypes /\ SessionTypes'
    BY <1>1, SessionTypesStep DEF SessionInv
  <2>2. ASSUME Untroubled' PROVE (FirstConnection /\ PushHolds)'
    <3>1. Untroubled /\ ~Drops /\ ~CallFails /\ ~Disconnect
      BY <1>1, <2>1, <2>2, UntroubledStep
    <3>2. FirstConnection /\ PushHolds
      BY <3>1 DEF SessionInv
    <3>3. CASE Supervisor \/ ReaderEnds \/ Revoked
      BY <2>1, <2>2, <3>2, <3>3, ConnectionStep
    <3>4. CASE \E f \in Files : Start(f) \/ FileStep(f) \/ PostFails(f)
      BY <2>1, <2>2, <3>2, <3>4, FileKeeps
    <3>5. QED
      BY <1>1, <3>1, <3>3, <3>4 DEF SessionNext
  <2>3. QED
    BY <2>1, <2>2 DEF SessionInv
<1>2. CASE UNCHANGED sessionVars
  BY <1>2 DEF sessionVars, SessionInv, SessionTypes, Untroubled, FirstConnection, PushHolds, Expects
<1>3. QED
  BY <1>1, <1>2

(* A file is given up for want of its push only after a trouble: a broken  *)
(* connection, a failed call, a provider that ended.  However the POST,    *)
(* its answer and the push follow each other, the push is heard.           *)
THEOREM EarlyPushIsHeard == SessionSpec => []ReadyIsHeard
<1>1. SessionInv => ReadyIsHeard
  <2> SUFFICES ASSUME SessionInv, NEW f \in Files, At(f, "timeout"), ~(faults > 0 \/ stop # "no" \/ dead)
               PROVE  FALSE
    BY DEF ReadyIsHeard
  <2>1. Untroubled
    BY DEF SessionInv, SessionTypes, Untroubled
  <2>2. QED
    BY <2>1 DEF SessionInv, PushHolds, At
<1>2. SessionInv /\ [SessionNext]_sessionVars => SessionInv'
  BY SessionStep
<1>3. QED
  BY <1>1, <1>2, SessionStart, PTL DEF SessionSpec
=============================================================================
