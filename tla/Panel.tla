--------------------------------- MODULE Panel ---------------------------------
(***************************************************************************)
(* The messenger page of a manager (static/inbox.js; the widget of a card, *)
(* static/app.js, checks no answer and is left out) and the routes it      *)
(* calls (web/routes/dialogs.py): opening a dialog, the poll, older        *)
(* messages, statuses, sending a text or a file with an optimistic bubble, *)
(* errors.                                                                 *)
(*                                                                         *)
(* Each fetch is three steps: asked, served (the answer is a snapshot of   *)
(* the tables) and answered; the loading of a dialog looks at the headers  *)
(* of its answer first and reads the body in a fourth.  Answers come back  *)
(* in any order, and the manager goes on clicking in between.  The page    *)
(* runs one callback at a time.  The list and the messages of one poll are *)
(* served together.                                                        *)
(***************************************************************************)
EXTENDS Naturals, SequencesExt

CONSTANTS
  Dialogs,        (* the dialogs of the list                               *)
  History,        (* the dialogs of the messages that exist at the start   *)
  PageSize,       (* PAGE_SIZE                                             *)
  PollLimit,      (* the limit list_messages gives a poll (50)             *)
  MaxRows,        (* bound on messages                                     *)
  MaxMoves,       (* bound on what the manager does and what goes wrong    *)
  MaxPolls        (* bound on polls under way                              *)

ASSUME PanelAssumption ==
  /\ Dialogs \subseteq Nat \ {0} /\ History \in Seq(Dialogs)
  /\ PageSize \in Nat \ {0} /\ PollLimit \in Nat \ {0} /\ MaxPolls \in Nat \ {0}
  /\ {MaxRows, MaxMoves} \subseteq Nat

VARIABLES
  rows,           (* messages: [dlg, dir, state, file, done], id: position *)
  visible,        (* the dialogs the manager may see and write to          *)
  listed,         (* unanswered and dialogs of the page                    *)
  active,         (* activeId, 0: none                                     *)
  feed,           (* messages of the page: [id, done]; id 0: the optimistic bubble *)
  lastId, hasOlder,
  polling,        (* pollTimer is set                                      *)
  retry,          (* init, or the timeout of showError, is due             *)
  file,           (* pendingFile: the dialog it was picked in, 0: none     *)
  post,           (* the POST: [at, dlg, file, row]; sending: at # "idle"  *)
  gets,           (* requests under way: [kind, dlg, arg, at, got, seen]   *)
  moves           (* of the manager, and troubles                          *)

server == <<rows, visible>>
page   == <<listed, active, feed, lastId, hasOlder>>
timers == <<polling, retry>>
outbox == <<file, post>>
vars   == <<server, page, timers, outbox, gets, moves>>

NoPost  == [at |-> "idle", dlg |-> 0, file |-> 0, row |-> 0]
Sending == post.at # "idle"
Ids(f)  == {f[k].id : k \in DOMAIN f}
Move == moves < MaxMoves /\ moves' = moves + 1
Top(s)  == IF s = {} THEN 0 ELSE CHOOSE m \in s : \A i \in s : i <= m

Init ==
  /\ rows = [i \in DOMAIN History |->
       [dlg |-> History[i], dir |-> "in", state |-> "row", file |-> 0, done |-> TRUE]]
  /\ visible = Dialogs /\ listed = {} /\ active = 0 /\ feed = <<>> /\ lastId = 0
  /\ hasOlder = FALSE /\ polling = FALSE /\ retry = TRUE
  /\ file = 0 /\ post = NoPost /\ gets = {} /\ moves = 0

-----------------------------------------------------------------------------
(* The server.                                                             *)

Inbound(d) ==       (* an id is given at the flush, the row is seen at the commit *)
  /\ Len(rows) < MaxRows
  /\ rows' = Append(rows, [dlg |-> d, dir |-> "in", state |-> "flushed",
                           file |-> 0, done |-> TRUE])
  /\ UNCHANGED <<visible, page, timers, outbox, gets, moves>>

Commit(i) ==
  /\ rows[i].state = "flushed"
  /\ rows' = [rows EXCEPT ![i].state = "row"]
  /\ UNCHANGED <<visible, page, timers, outbox, gets, moves>>

Delivered(i) ==     (* the outbox and the receipts settle the status       *)
  /\ ~rows[i].done
  /\ rows' = [rows EXCEPT ![i].done = TRUE]
  /\ UNCHANGED <<visible, page, timers, outbox, gets, moves>>

LeaveScope(d) ==    (* archived, or given to another                       *)
  /\ d \in visible /\ Move
  /\ visible' = visible \ {d}
  /\ UNCHANGED <<rows, page, timers, outbox, gets>>

(* The messages of a dialog under a condition, oldest first or newest first, at most n. *)
Committed(d) == {i \in DOMAIN rows : rows[i].dlg = d /\ rows[i].state = "row"}
Ascending(S) == [k \in 1..Cardinality(S) |-> CHOOSE i \in S : Cardinality(S \intersect 1..i) = k]
Entry(i)     == [id |-> i, done |-> rows[i].done]
Oldest(s, n) == SubSeq(s, 1, IF n < Len(s) THEN n ELSE Len(s))
Newest(s, n) == SubSeq(s, IF n < Len(s) THEN Len(s) - n + 1 ELSE 1, Len(s))
Rendered(s)  == [k \in DOMAIN s |-> Entry(s[k])]
Above(d, i)  == {j \in Committed(d) : j > i}
Below(d, i)  == {j \in Committed(d) : j < i}

(* list_messages by the parameters of each request; the page reverses what is newest first. *)
Listing(g) ==
  CASE g.kind = "poll"               -> Oldest(Ascending(Above(g.dlg, g.arg)), PollLimit)
    [] g.kind = "older"              -> Newest(Ascending(Below(g.dlg, g.arg)), PageSize)
    [] g.kind \in {"first", "open"}  -> Newest(Ascending(Committed(g.dlg)), PageSize)
    [] g.kind = "tail"               -> Ascending(Committed(g.dlg))

Ask(kind, d, arg) ==
  [kind |-> kind, dlg |-> d, arg |-> arg, got |-> <<>>, at |-> "asked", seen |-> {}]

Serve(g) ==         (* 404 of a dialog out of scope                        *)
  /\ g.at = "asked"
  /\ gets' = (gets \ {g}) \union
       {[g EXCEPT !.at = IF g.dlg \in visible THEN "ok" ELSE "404", !.seen = visible,
                  !.got = IF g.dlg \in visible THEN Rendered(Listing(g)) ELSE <<>>]}
  /\ UNCHANGED <<server, page, timers, outbox, moves>>

Store ==            (* _outbound_context and send_message, send_media_message *)
  /\ post.at = "asked" /\ post.dlg \in visible
  /\ rows' = Append(rows, [dlg |-> post.dlg, dir |-> "out", state |-> "row",
                           file |-> post.file, done |-> FALSE])
  /\ post' = [post EXCEPT !.at = "stored", !.row = Len(rows) + 1]
  /\ UNCHANGED <<visible, page, timers, file, gets, moves>>

Refuse ==           (* no right to write any more; a type or size not accepted *)
  /\ post.at = "asked"
  /\ IF post.dlg \notin visible THEN UNCHANGED moves ELSE post.file # 0 /\ Move
  /\ post' = [post EXCEPT !.at = "refused"]
  /\ UNCHANGED <<server, page, timers, file, gets>>

-----------------------------------------------------------------------------
(* The page.                                                               *)

(* The dialog is left by the bodies that are being read for it.            *)
Left(s) == {IF g.at = "body" THEN [g EXCEPT !.at = "left"] ELSE g : g \in s}

OpenFirst(d, kind) ==      (* openDialog                                   *)
  /\ active' = d /\ feed' = <<>> /\ lastId' = 0 /\ hasOlder' = FALSE
  /\ file' = 0
  /\ gets' = Left(gets) \union {Ask(kind, d, 0)}

Open(d) ==
  /\ Move /\ d \in listed /\ d # active
  /\ OpenFirst(d, "open")
  /\ UNCHANGED <<server, listed, timers, post>>

(* The head of the list: who waits longest for an answer, else the freshest dialog. *)
Age(d)     == Top(Committed(d))
Waits(d)   == Age(d) # 0 /\ rows[Age(d)].dir = "in"
FirstOf(s) ==
  IF \E d \in s : Waits(d)
    THEN CHOOSE d \in s : Waits(d) /\ \A e \in s : Waits(e) => Age(d) <= Age(e)
    ELSE CHOOSE d \in s : \A e \in s : Age(d) >= Age(e)

(* The page is opened, or ten seconds passed after an error: init, or the poll resumes. *)
Resume ==
  /\ retry /\ retry' = FALSE
  /\ IF active # 0
       THEN polling' = TRUE /\ UNCHANGED <<page, file, gets>>
       ELSE /\ listed' = visible
            /\ IF visible = {}
                 THEN polling' = TRUE /\ UNCHANGED <<active, feed, lastId, hasOlder, file, gets>>
                 ELSE OpenFirst(FirstOf(visible), "first") /\ UNCHANGED polling
  /\ UNCHANGED <<server, post, moves>>

(* Mutant: a late answer is not checked.                                   *)
FreshNot(g) == TRUE

Fresh(g) == g.dlg = active         (* the dialog is still the one asked for *)

(* loadMessages has the headers: an error ends it, and so does a dialog    *)
(* the manager has left; else the body is read.  init then starts the poll *)
(* or, after an error, tries again later.                                  *)
LoadChecked(g) ==
  /\ g.kind \in {"first", "open"} /\ g.at \in {"ok", "404"}
  /\ IF g.at = "ok" /\ Fresh(g)
       THEN /\ gets' = (gets \ {g}) \union {[g EXCEPT !.at = "body"]}
            /\ UNCHANGED timers
       ELSE /\ gets' = gets \ {g}
            /\ IF g.kind = "first"
                 THEN polling' = (g.at = "ok") /\ retry' = (retry \/ g.at # "ok")
                 ELSE UNCHANGED timers
  /\ UNCHANGED <<server, page, outbox, moves>>

(* The body is there, whole dialogs later perhaps: it becomes the feed.    *)
LoadRead(g) ==
  /\ g.at \in {"body", "left"}
  /\ feed' = g.got
  /\ lastId' = Top(Ids(g.got))
  /\ hasOlder' = (Len(g.got) = PageSize)
  /\ polling' = (polling \/ g.kind = "first")
  /\ gets' = gets \ {g}
  /\ UNCHANGED <<server, listed, active, retry, outbox, moves>>

LoadOlder ==
  /\ Move
  /\ active # 0 /\ hasOlder /\ feed # <<>> /\ feed[1].id # 0
  /\ gets' = gets \union {Ask("older", active, feed[1].id)}
  /\ UNCHANGED <<server, page, timers, outbox>>

(* The page of older messages goes before whatever the page shows now.     *)
OlderAnswered(g) ==
  /\ g.kind = "older"
  /\ IF g.at = "ok"
       THEN feed' = g.got \o feed /\ hasOlder' = (Len(g.got) = PageSize)
       ELSE UNCHANGED <<feed, hasOlder>>
  /\ gets' = gets \ {g}
  /\ UNCHANGED <<server, listed, active, lastId, timers, outbox, moves>>

Polls == {g \in gets : g.kind \in {"poll", "tail"}}

PollTick ==         (* with no dialog open a poll only renews the list     *)
  /\ polling /\ ~Sending /\ active # 0 /\ Cardinality(Polls) < MaxPolls
  /\ gets' = gets \union {Ask("poll", active, lastId)}
  /\ UNCHANGED <<server, page, timers, outbox, moves>>

Unfinished(f) == \E k \in DOMAIN f : ~f[k].done

(* refreshDialogs takes the list, and closes a dialog that left it; then the new messages. *)
PollAnswered(g) ==
  LET places == Ascending({k \in DOMAIN g.got : g.got[k].id \notin Ids(feed)})
      unseen == [k \in DOMAIN places |-> g.got[places[k]]]
      closed == active # 0 /\ active \notin g.seen
  IN /\ g.kind = "poll"
     /\ listed' = g.seen
     /\ active' = IF closed THEN 0 ELSE active
     /\ IF closed THEN feed' = <<>> /\ UNCHANGED lastId
        ELSE IF Fresh(g) /\ unseen # <<>>
               THEN feed' = feed \o unseen /\ lastId' = Top({lastId} \union Ids(unseen))
               ELSE UNCHANGED <<feed, lastId>>
     /\ gets' = (IF closed THEN Left(gets \ {g}) ELSE gets \ {g}) \union
          (IF ~closed /\ Fresh(g) /\ Unfinished(feed') THEN {Ask("tail", active, 0)} ELSE {})
     /\ UNCHANGED <<server, hasOlder, timers, outbox, moves>>

TailAnswered(g) ==  (* refreshPendingStatuses: no id is added              *)
  /\ g.kind = "tail"
  /\ feed' = [k \in DOMAIN feed |->
       IF feed[k].id \in Ids(g.got) THEN CHOOSE e \in ToSet(g.got) : e.id = feed[k].id
                                    ELSE feed[k]]
  /\ gets' = gets \ {g}
  /\ UNCHANGED <<server, listed, active, lastId, hasOlder, timers, outbox, moves>>

Answered(g) == /\ g.at # "asked"
               /\ \/ LoadChecked(g) \/ LoadRead(g) \/ OlderAnswered(g)
                  \/ PollAnswered(g) \/ TailAnswered(g)

GetLost(g) ==       (* only init shows the error and tries again           *)
  /\ Move
  /\ gets' = gets \ {g}
  /\ polling' = (polling /\ g.kind # "first")
  /\ retry' = (retry \/ g.kind = "first")
  /\ UNCHANGED <<server, page, outbox>>

-----------------------------------------------------------------------------
(* Sending.                                                                *)

Pick ==
  /\ active # 0 /\ file # active /\ Move
  /\ file' = active
  /\ UNCHANGED <<server, page, timers, post, gets>>

Bubble == [id |-> 0, done |-> FALSE]

Send ==             (* sendFile when a file is picked                      *)
  /\ Move /\ Len(rows) < MaxRows
  /\ active # 0 /\ ~Sending
  /\ post' = [at |-> "asked", dlg |-> active, file |-> file, row |-> 0]
  /\ file' = 0
  /\ feed' = Append(feed, Bubble)
  /\ UNCHANGED <<server, listed, active, lastId, hasOlder, timers, gets>>

FirstBubble == SelectInSeq(feed, LAMBDA e : e.id = 0)

PostAnswered ==
  /\ post.at = "stored"
  /\ post' = NoPost
  /\ IF active = post.dlg
       THEN /\ feed' = IF FirstBubble = 0 THEN feed
                       ELSE [feed EXCEPT ![FirstBubble] = [id |-> post.row, done |-> FALSE]]
            /\ lastId' = Top({lastId, post.row})
       ELSE UNCHANGED <<feed, lastId>>
  /\ UNCHANGED <<server, listed, active, hasOlder, timers, file, gets, moves>>

(* Mutant: the error stops the poll and nothing starts it again.           *)
RollBackStops ==
  /\ feed' = IF FirstBubble = 0 THEN feed ELSE RemoveAt(feed, FirstBubble)
  /\ file' = IF post.file = 0 THEN file ELSE post.file
  /\ polling' = FALSE
  /\ post' = NoPost
  /\ UNCHANGED <<server, listed, active, lastId, hasOlder, retry, gets>>

(* Mutant: the bubble of a message that was not accepted stays.            *)
RollBackKeeps ==
  /\ file' = IF post.file = 0 THEN file ELSE post.file
  /\ polling' = FALSE /\ retry' = TRUE
  /\ post' = NoPost
  /\ UNCHANGED <<server, page, gets>>

(* The bubble goes, the text and the file go back to the composer, showError stops the poll. *)
RollBack ==
  /\ feed' = IF FirstBubble = 0 THEN feed ELSE RemoveAt(feed, FirstBubble)
  /\ file' = IF post.file = 0 THEN file ELSE post.file
  /\ polling' = FALSE /\ retry' = TRUE
  /\ post' = NoPost
  /\ UNCHANGED <<server, listed, active, lastId, hasOlder, gets>>

PostRefused == post.at = "refused" /\ RollBack /\ UNCHANGED moves

PostLost ==         (* the request or its answer                           *)
  /\ post.at \in {"asked", "stored"}
  /\ Move
  /\ RollBack

Server == \/ \E d \in Dialogs : Inbound(d) \/ LeaveScope(d)
          \/ \E i \in DOMAIN rows : Commit(i) \/ Delivered(i)
Reply  == Store \/ Refuse \/ PostAnswered \/ PostRefused
Manager == (\E d \in Dialogs : Open(d)) \/ LoadOlder \/ Pick \/ Send
Next   == \/ Server \/ Reply \/ Manager \/ Resume \/ PollTick \/ PostLost
          \/ \E g \in gets : Serve(g) \/ Answered(g) \/ GetLost(g)

Spec == Init /\ [][Next]_vars

(* Timers fire and requests come to an end; a message of the manager, or a  *)
(* page of older ones, is not promised.                                     *)
FairSpec ==
  /\ Spec /\ WF_vars(Resume \/ PollTick \/ Reply)
  /\ WF_vars(\E g \in gets : g.kind # "older" /\ (Serve(g) \/ Answered(g)))

-----------------------------------------------------------------------------
(* Properties.                                                             *)

Shown(f) == {i \in Ids(f) : i # 0}

(* What a step brings into the feed belongs to the dialog that is open: an  *)
(* answer to a dialog the manager has left, or the answer to a message sent *)
(* before he switched, is dropped ("Устарел", "не смешиваем ленты",         *)
(* inbox.js:331, :388).  Two answers are not checked so: a load whose       *)
(* dialog he leaves while the body is read, after the check; and a page of  *)
(* older messages for a dialog that is not open any more.                   *)
FeedsApart ==
  [][\A i \in Shown(feed') \ Ids(feed) :
       \/ rows[i].dlg = active'
       \/ \E g \in gets \ gets' : g.at = "left" \/ (g.kind = "older" /\ ~Fresh(g))]_vars

(* A bubble with the clock is on the page only while its message is under   *)
(* way to the dialog that is open: whatever happens to the request, and     *)
(* wherever the manager has gone meanwhile, none is left behind.            *)
BubbleIsSending ==
  0 \in Ids(feed) => /\ Sending /\ post.dlg = active
                     /\ Cardinality({k \in DOMAIN feed : feed[k].id = 0}) = 1

(* A new message above lastId that is there while nothing is under way is   *)
(* shown by the poll, errors and lost requests notwithstanding, unless the  *)
(* dialog is closed or the manager sends a message first.  lastId must not  *)
(* be behind the feed: a late body puts it back, and with an older page     *)
(* after it the poll is given what the page shows already, for ever.        *)
InStep == \A i \in Shown(feed) : rows[i].dlg = active => i <= lastId
Behind(i) == /\ i \in DOMAIN rows /\ rows[i].state = "row" /\ rows[i].dlg = active
             /\ lastId < i /\ InStep /\ gets = {} /\ ~Sending
CatchesUp ==
  \A i \in Len(History) + 1..MaxRows :
    Behind(i) ~> (i \in Ids(feed) \/ Sending \/ (i \in DOMAIN rows /\ rows[i].dlg # active))
=============================================================================
