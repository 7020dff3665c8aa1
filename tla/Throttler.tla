------------------------------ MODULE Throttler ------------------------------
(***************************************************************************)
(* The sending limits of one account (bridge/throttler.py): replies to a   *)
(* client are limited to ReplyLimit per ReplyWindow; first messages to     *)
(* InitMax per InitWindow and one per InitMinInterval.  Both limits are    *)
(* sliding windows over the times of granted requests, kept in memory, so  *)
(* a restart of the bridge forgets them.                                   *)
(*                                                                         *)
(* The clock is time.monotonic() in whole units; a request may come at any *)
(* time.  Outbox takes the answers as given (Throttled and Send).          *)
(***************************************************************************)
EXTENDS Naturals, Sequences

CONSTANTS
  ReplyLimit,       (* reply_per_minute                                    *)
  ReplyWindow,      (* 60 seconds                                          *)
  InitMax,          (* init_max                                            *)
  InitWindow,       (* init_window_sec                                     *)
  InitMinInterval,  (* init_min_interval                                   *)
  MaxTime,          (* bound on the clock                                  *)
  MaxRestarts       (* bound on restarts of the bridge                     *)

ASSUME ThrottlerAssumption ==
  /\ ReplyLimit \in Nat \ {0} /\ ReplyWindow \in Nat
  /\ InitMax \in Nat \ {0} /\ InitWindow \in Nat /\ InitMinInterval \in Nat
  /\ MaxTime \in Nat /\ MaxRestarts \in Nat

VARIABLES
  now,              (* time.monotonic()                                    *)
  replies,          (* _reply_window: times of grants, oldest first        *)
  inits,            (* _init_timestamps                                    *)
  answer,           (* the last answer of acquire()                        *)
  \* history
  replyLog,         (* times of all granted replies                        *)
  initLog,          (* times of all granted initiations                    *)
  replyBorn,        (* length of replyLog when this process started        *)
  initBorn,
  restarts

throttlerVars == <<now, replies, inits, answer, replyLog, initLog, replyBorn, initBorn, restarts>>

Answers == {"none", "reply", "reply_refused", "init", "init_refused"}

Init ==
  /\ now = 0
  /\ replies = <<>> /\ inits = <<>>
  /\ answer = "none"
  /\ replyLog = <<>> /\ initLog = <<>>
  /\ replyBorn = 0 /\ initBorn = 0
  /\ restarts = 0

Tick ==
  /\ now < MaxTime
  /\ now' = now + 1
  /\ answer' = "none"
  /\ UNCHANGED <<replies, inits, replyLog, initLog, replyBorn, initBorn, restarts>>

(* What the popleft loop leaves of q, as the only element of a set: the    *)
(* leading entries older than width are gone, the next one is not older.   *)
Suffix(q, k) == SubSeq(q, k + 1, Len(q))
Stale(q, k, width) ==
  /\ \A i \in 1..k : q[i] + width < now
  /\ k < Len(q) => q[k + 1] + width >= now

(* Mutant: nothing is ever removed.                                        *)
RecentUnpruned(q, width) == {q}

Recent(q, width) == {Suffix(q, k) : k \in {n \in 0..Len(q) : Stale(q, n, width)}}

(* _check_reply.                                                           *)
RefuseReply ==
  \E w \in Recent(replies, ReplyWindow) :
    /\ Len(w) >= ReplyLimit
    /\ replies' = w
    /\ answer'  = "reply_refused"
    /\ UNCHANGED <<now, inits, replyLog, initLog, replyBorn, initBorn, restarts>>

(* Mutant: one reply too many.                                             *)
GrantReplyLate ==
  \E w \in Recent(replies, ReplyWindow) :
    /\ Len(w) <= ReplyLimit
    /\ replies'  = Append(w, now)
    /\ replyLog' = Append(replyLog, now)
    /\ answer'   = "reply"
    /\ UNCHANGED <<now, inits, initLog, replyBorn, initBorn, restarts>>

GrantReply ==
  \E w \in Recent(replies, ReplyWindow) :
    /\ Len(w) < ReplyLimit
    /\ replies'  = Append(w, now)
    /\ replyLog' = Append(replyLog, now)
    /\ answer'   = "reply"
    /\ UNCHANGED <<now, inits, initLog, replyBorn, initBorn, restarts>>

(* _check_init: the interval to the last grant is checked before the       *)
(* window is pruned.                                                       *)
TooSoon == inits # <<>> /\ now < inits[Len(inits)] + InitMinInterval

RefuseInit ==
  /\ \/ TooSoon /\ inits' = inits
     \/ /\ ~TooSoon
        /\ \E w \in Recent(inits, InitWindow) : Len(w) >= InitMax /\ inits' = w
  /\ answer' = "init_refused"
  /\ UNCHANGED <<now, replies, replyLog, initLog, replyBorn, initBorn, restarts>>

GrantInit ==
  /\ ~TooSoon
  /\ \E w \in Recent(inits, InitWindow) :
       /\ Len(w) < InitMax
       /\ inits'   = Append(w, now)
       /\ initLog' = Append(initLog, now)
  /\ answer' = "init"
  /\ UNCHANGED <<now, replies, replyLog, replyBorn, initBorn, restarts>>

(* The bridge restarts: the throttlers of all accounts start empty.        *)
Restart ==
  /\ restarts < MaxRestarts
  /\ restarts'  = restarts + 1
  /\ replies'   = <<>>
  /\ inits'     = <<>>
  /\ answer'    = "none"
  /\ replyBorn' = Len(replyLog)
  /\ initBorn'  = Len(initLog)
  /\ UNCHANGED <<now, replyLog, initLog>>

Next == Tick \/ RefuseReply \/ GrantReply \/ RefuseInit \/ GrantInit \/ Restart

Spec == Init /\ [][Next]_throttlerVars

-----------------------------------------------------------------------------
(* Types of the variables.                                                 *)
TypeOK ==
  /\ now \in Nat
  /\ replies \in Seq(Nat) /\ inits \in Seq(Nat)
  /\ answer \in Answers
  /\ replyLog \in Seq(Nat) /\ initLog \in Seq(Nat)
  /\ replyBorn \in 0..Len(replyLog) /\ initBorn \in 0..Len(initLog)
  /\ restarts \in Nat

(* limit + 1 entries of log in a row, after the first born ones, never     *)
(* fall into one window.                                                   *)
Spread(log, born, limit, width) ==
  \A i \in 1..Len(log) : i > born /\ i + limit <= Len(log) => log[i] + width < log[i + limit]

(* Whatever the pattern of requests, no window of ReplyWindow (of          *)
(* InitWindow) ever sees more than ReplyLimit (InitMax) grants of one      *)
(* process: the anti-ban limits of layer 1.                                *)
ReplyRate == Spread(replyLog, replyBorn, ReplyLimit, ReplyWindow)
InitRate  == Spread(initLog, initBorn, InitMax, InitWindow)

(* Two initiations of one process are InitMinInterval apart, also when the *)
(* interval is longer than the window.                                     *)
InitSpacing ==
  \A i \in 1..Len(initLog) :
    i > initBorn /\ i < Len(initLog) => initLog[i] + InitMinInterval <= initLog[i + 1]

(* What the messenger sees of one process.                                 *)
Rates == ReplyRate /\ InitRate /\ InitSpacing

(* The limits are not stricter than they say: a reply is refused only if   *)
(* the last ReplyLimit grants are all in the window, an initiation only if *)
(* that holds of the last InitMax or the last one was too recent.          *)
Full(log, born, limit, width) ==
  Len(log) - limit >= born /\ log[Len(log) - limit + 1] + width >= now
RefusalIsDue ==
  /\ answer = "reply_refused" => Full(replyLog, replyBorn, ReplyLimit, ReplyWindow)
  /\ answer = "init_refused" =>
       \/ Full(initLog, initBorn, InitMax, InitWindow)
       \/ Len(initLog) > initBorn /\ initLog[Len(initLog)] + InitMinInterval > now

(* The window is the end of the log; what it has dropped of this process's *)
(* grants is older than the window.                                        *)
Tracks(q, log, born, limit, width) ==
  /\ Len(q) <= limit
  /\ Len(q) <= Len(log) - born
  /\ \A i \in 1..Len(q) : q[i] = log[Len(log) - Len(q) + i]
  /\ \A i \in 1..Len(log) : i > born /\ i <= Len(log) - Len(q) => log[i] + width < now

Ordered(log) ==
  /\ \A i \in 1..Len(log) : log[i] <= now
  /\ \A i, j \in 1..Len(log) : i <= j => log[i] <= log[j]

(* The latest initiation of this process is never pruned, which is why the *)
(* interval to it can always be checked.                                   *)
LatestKept == Len(initLog) > initBorn => inits # <<>>

(* The inductive invariant.                                                *)
IInv ==
  /\ TypeOK
  /\ Ordered(replyLog) /\ Ordered(initLog)
  /\ Tracks(replies, replyLog, replyBorn, ReplyLimit, ReplyWindow)
  /\ Tracks(inits, initLog, initBorn, InitMax, InitWindow)
  /\ ReplyRate
  /\ InitRate
  /\ InitSpacing
  /\ LatestKept
=============================================================================
