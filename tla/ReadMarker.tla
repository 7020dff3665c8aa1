----------------------------- MODULE ReadMarker -----------------------------
(***************************************************************************)
(* Read receipts (bridge/read_marker.py) against the outgoing queue: the   *)
(* client opens the chat, the channel pushes a receipt into the provider's *)
(* in-memory queue, and the account's pump applies it in one transaction:  *)
(* SELECT the readable rows of the dialog, then UPDATE them by id.         *)
(*                                                                         *)
(* The three channels differ in what a receipt says (kind):                *)
(*   "cursor"  Telegram: everything up to this message id                  *)
(*   "chat"    MAX: the chat was read, at a time the marker does not use   *)
(*   "exact"   WhatsApp: this one message, if the provider still knows it  *)
(***************************************************************************)
EXTENDS Outbox

CONSTANTS
  Kinds,          (* the channels considered                               *)
  Line,           (* the account of the dialog                             *)
  KnownMax,       (* _ECHO_MAX_IDS: message ids the WhatsApp provider      *)
                  (* remembers                                             *)
  MaxQueue        (* bound on receipts waiting in _read_queue              *)

ASSUME ReadMarkerAssumption ==
  /\ Kinds \subseteq {"cursor", "chat", "exact"}
  /\ Line \in Account
  /\ KnownMax \in Nat \ {0}
  /\ MaxQueue \in Nat

VARIABLES
  kind,           (* what the receipts of the line's channel say           *)
  seen,           (* the client has read all copies with an id up to this  *)
  owner,          (* owner[i]: the message that copy i is a copy of        *)
  known,          (* WhatsApp _known_sends, oldest first                   *)
  receipts,       (* the provider's _read_queue; 0 stands for "the chat"   *)
  marking         (* rows selected by apply() and not updated yet          *)

pumpVars   == <<known, receipts, marking>>
readerVars == <<kind, seen, owner, pumpVars>>
allVars    == <<outboxVars, readerVars>>

InDialog(m) == AcctOf[m] = Line

ReaderInit ==
  /\ Init
  /\ kind \in Kinds
  /\ seen = 0
  /\ owner = <<>>
  /\ known = <<>>
  /\ receipts = <<>>
  /\ marking = {}

-----------------------------------------------------------------------------
(* Steps of the outgoing queue, with their effect on the receiving side.   *)

(* _remember_send: the answered id is remembered, the oldest forgotten.    *)
Remember(i) ==
  known' = IF Len(known) < KnownMax THEN Append(known, i) ELSE Append(Tail(known), i)

SendAnswered ==
  /\ AnswerOk
  /\ Remember(got')
  /\ owner' = Append(owner, cur)
  /\ UNCHANGED <<kind, seen, receipts, marking>>

StrayArrives(m) ==
  /\ StrayAccepted(m)
  /\ owner' = Append(owner, m)
  /\ UNCHANGED <<kind, seen, pumpVars>>

(* The provider and its pump go, with all they remember.                   *)
PumpEnds ==
  /\ known' = <<>> /\ receipts' = <<>> /\ marking' = {}
  /\ UNCHANGED <<kind, seen, owner>>

PumpGone ==
  /\ Crash \/ AccountDown(Line)
  /\ PumpEnds

OtherStep ==
  /\ \/ \E m \in Item : Enqueue(m) \/ Wake(m)
     \/ \E a \in Account : AccountUp(a)
     \/ \E a \in Account \ {Line} : AccountDown(a)
     \/ DayPasses \/ Poll \/ Decide \/ AnswerFlood \/ AnswerError \/ AnswerLost
     \/ Record \/ DbError \/ HookDone \/ HookFails
  /\ UNCHANGED readerVars

-----------------------------------------------------------------------------
(* The client opens the chat: all that has arrived is read.  Telegram and  *)
(* MAX push a receipt each time, WhatsApp one for each message newly read  *)
(* whose id the provider knows.  While the account is away the push is     *)
(* lost.                                                                   *)
NewlyRead ==      (* the end of known, since ids grow                      *)
  {SubSeq(known, k + 1, Len(known)) :
     k \in {n \in 0..Len(known) : \A j \in 1..Len(known) : known[j] <= seen <=> j <= n}}
Pushed ==
  CASE kind = "cursor" -> {<<lastExt>>}
    [] kind = "chat"   -> {<<0>>}
    [] kind = "exact"  -> NewlyRead

ClientReads ==
  /\ lastExt > 0
  /\ seen' = lastExt
  /\ \E p \in Pushed :
       /\ Len(receipts) + Len(p) <= MaxQueue
       /\ receipts' = IF Line \in up THEN receipts \o p ELSE receipts
  /\ UNCHANGED <<outboxVars, kind, owner, known, marking>>

(* Mutant: every receipt is taken for a chat-level one.                    *)
MatchesAny(m, i) == TRUE

(* apply(): the rows a receipt speaks of (_matches, or the exact id).      *)
Matches(m, i) ==
  CASE kind = "cursor" -> ext[m] # 0 /\ ext[m] <= i
    [] kind = "chat"   -> TRUE
    [] kind = "exact"  -> ext[m] = i

(* Mutant: the status filter is left out.                                  *)
ReadableUnfiltered(i) == {m \in Item : InDialog(m) /\ msg[m] # "none" /\ ext[m] <= i}

(* Only rows that are sent, so that pending, error and read ones stay.     *)
Readable(i) == {m \in Item : InDialog(m) /\ msg[m] = "sent" /\ Matches(m, i)}

(* Mutant: one row per receipt.                                            *)
SelectOne ==
  /\ receipts # <<>> /\ marking = {}
  /\ \E m \in Readable(Head(receipts)) : marking' = {m}
  /\ receipts' = Tail(receipts)
  /\ UNCHANGED <<outboxVars, kind, seen, owner, known>>

(* The next receipt of the queue; the rest of the queue waits for it.      *)
Select ==
  /\ receipts # <<>> /\ marking = {}
  /\ marking'  = Readable(Head(receipts))
  /\ receipts' = Tail(receipts)
  /\ UNCHANGED <<outboxVars, kind, seen, owner, known>>

(* UPDATE ... WHERE id IN (...): the status is not looked at again.        *)
Update ==
  /\ marking # {}
  /\ msg' = [m \in Item |-> IF m \in marking THEN "read" ELSE msg[m]]
  /\ marking' = {}
  /\ UNCHANGED <<item, attempts, lastError, ready, aged, ext, crm, up, taskVars, chanVars,
                 histVars, kind, seen, owner, known, receipts>>

(* The transaction fails: the pump logs it and goes on to the next one.    *)
UpdateFails ==
  /\ marking # {}
  /\ Fault({})
  /\ marking' = {}
  /\ UNCHANGED <<dbVars, up, taskVars, chanVars, failures, kind, seen, owner, known, receipts>>

ReaderNext ==
  \/ SendAnswered \/ PumpGone \/ OtherStep
  \/ \E m \in Item : StrayArrives(m)
  \/ ClientReads \/ Select \/ Update \/ UpdateFails

ReaderSpec == ReaderInit /\ [][ReaderNext]_allVars

-----------------------------------------------------------------------------
(* A mark of "read" is never a lie: the client has opened the chat after a *)
(* copy of that message arrived (push_parser.py:339: "false double ticks   *)
(* are worse than none").                                                  *)
HonestRead ==
  \A m \in Item : msg[m] = "read" => \E i \in 1..seen : owner[i] = m

(* A cursor reads a prefix of the dialog: no message stays "sent" below    *)
(* one that is read, although receipts and recordings interleave freely.   *)
ReadPrefix ==
  kind = "cursor" => \A m, k \in Item :
    msg[m] = "read" /\ msg[k] = "sent" /\ InDialog(m) /\ InDialog(k) => ext[m] < ext[k]

-----------------------------------------------------------------------------
(* The inductive invariant behind these properties, with that of Outbox.   *)

ReaderTypes ==
  /\ kind \in Kinds /\ seen \in 0..lastExt
  /\ owner \in Seq(Item) /\ Len(owner) = lastExt
  /\ known \in Seq(1..lastExt) /\ receipts \in Seq(Nat) /\ marking \subseteq Item

(* An id on a row is that of a copy of its message; the one about to be    *)
(* recorded is younger than all that are.                                  *)
CopiesOwned ==
  /\ \A m \in Item : ext[m] # 0 => ext[m] \in 1..lastExt /\ owner[ext[m]] = m
  /\ op = "sent" => /\ got \in 1..lastExt /\ owner[got] = cur
                    /\ \A m \in Item : ext[m] < got

(* With ids in the receipts, they speak of what the client has seen, and   *)
(* so does every row marked or about to be.                                *)
ById == kind # "chat"
ReceiptsSeen == ById => \A k \in 1..Len(receipts) : receipts[k] \in 1..seen
MarkingSeen ==
  \A m \in marking : msg[m] = "sent" /\ InDialog(m) /\ (ById => ext[m] \in 1..seen)
ReadSeen ==
  \A m \in Item : msg[m] = "read" => InDialog(m) /\ (ById => ext[m] \in 1..seen)

(* What is about to be marked ends below what stays.                       *)
MarkingPrefix ==
  kind = "cursor" => \A m \in marking, k \in Item \ marking :
    msg[k] = "sent" /\ InDialog(k) => ext[m] < ext[k]

ReaderInv ==
  /\ IInv /\ ReaderTypes /\ CopiesOwned
  /\ ReceiptsSeen /\ MarkingSeen /\ ReadSeen /\ MarkingPrefix /\ ReadPrefix
=============================================================================
