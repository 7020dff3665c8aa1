------------------------------- MODULE MaxSession -------------------------------
(***************************************************************************)
(* The session of one MAX account: the supervisor of the provider          *)
(* (messaging/max/provider.py) connects, logs in, pings and reconnects;    *)
(* its client (ws_client.py) matches answers to requests on one            *)
(* connection; files are sent in steps (media.py) that wait for the push   *)
(* 136.  Connections break unnoticed, requests fail, the token is revoked, *)
(* and the provider is stopped at any point.                               *)
(*                                                                         *)
(* A failed first connect ends the provider and account_sync makes a new   *)
(* one: here it is the same as a reconnect.                                *)
(***************************************************************************)
EXTENDS Naturals

CONSTANTS
  Files,          (* files to send, each in one attempt                    *)
  MaxFaults       (* bound on broken connections and failed calls          *)

ASSUME MaxSessionAssumption == MaxFaults \in Nat

VARIABLES
  ws,             (* the client: [id, open, live, session]                 *)
  sup,            (* where the supervisor is                               *)
  dead,           (* _dead                                                 *)
  stop,           (* how far disconnect is                                 *)
  valid,          (* the token is not revoked                              *)
  sends,          (* the files: [at, on, future, push]                     *)
  faults

sessionVars == <<ws, sup, dead, stop, valid, sends, faults>>

SessionInit ==
  /\ ws = [id |-> 1, open |-> FALSE, live |-> FALSE, session |-> FALSE]
  /\ sup = "transport" /\ dead = FALSE /\ stop = "no" /\ valid = TRUE
  /\ sends = [f \in Files |-> [at |-> "idle", on |-> 0, future |-> "none", push |-> "none"]]
  /\ faults = 0

Fault == faults < MaxFaults /\ faults' = faults + 1

Closed == [ws EXCEPT !.open = FALSE, !.live = FALSE, !.session = FALSE]

(* Who waits for the push 136: fail_all ends the waiting.                  *)
Expects(f) == sends[f].at \in {"post", "wait"}
FailAll ==
  sends' = [f \in Files |-> IF Expects(f) /\ sends[f].future = "pending"
                            THEN [sends[f] EXCEPT !.future = "failed"] ELSE sends[f]]

-----------------------------------------------------------------------------
(* The connection.                                                         *)

Drops ==                (* the peer or the network ends it                 *)
  /\ Fault /\ ws.live /\ ws' = [ws EXCEPT !.live = FALSE]
  /\ UNCHANGED <<sup, dead, stop, valid, sends>>

(* The end of _read_loop; what was asked on this connection fails.         *)
ReaderEnds ==
  /\ ws.open /\ ~ws.live /\ ws' = Closed
  /\ UNCHANGED <<sup, dead, stop, valid, sends, faults>>

Revoked ==
  /\ valid /\ valid' = FALSE
  /\ UNCHANGED <<ws, sup, dead, stop, sends, faults>>

(* A request made on connection n is answered only there.                  *)
Answers(n) == ws.id = n /\ ws.open /\ ws.live /\ ws.session
Fails(n)   == ws.id # n \/ ~ws.open \/ ~ws.live \/ ~ws.session

-----------------------------------------------------------------------------
(* The supervisor.                                                         *)

(* _safe_close_client, a pause, a new client.                              *)
Recover == sup' = "backoff" /\ ws' = Closed /\ FailAll

Transport ==
  /\ sup = "transport"
  /\ ws' = [id |-> ws.id + 1, open |-> TRUE, live |-> TRUE, session |-> FALSE]
  /\ sup' = "login"
  /\ UNCHANGED <<dead, stop, valid, sends, faults>>

Login ==
  /\ sup = "login" /\ ws.open /\ ws.live
  /\ valid /\ ws' = [ws EXCEPT !.session = TRUE] /\ sup' = "tick"
  /\ UNCHANGED <<dead, stop, valid, sends, faults>>

(* LOGIN or a ping is answered that the token is revoked.                  *)
Refused ==
  /\ sup \in {"login", "tick"} /\ ws.open /\ ws.live /\ ~valid
  /\ ws' = Closed /\ sup' = "ended" /\ dead' = TRUE /\ FailAll
  /\ UNCHANGED <<stop, valid, faults>>

(* The call to connect, INIT, LOGIN or the ping fails.                     *)
CallFails ==
  /\ Fault /\ sup \in {"transport", "login", "tick"} /\ (sup = "tick" => ws.open)
  /\ Recover
  /\ UNCHANGED <<dead, stop, valid>>

LoginBreaks ==
  /\ sup = "login" /\ ~(ws.open /\ ws.live) /\ Recover
  /\ UNCHANGED <<dead, stop, valid, faults>>

(* Mutant: no ping, only a connection that ended by itself is noticed.     *)
WakeUnpinged ==
  /\ sup = "tick" /\ ~ws.open /\ sup' = "transport"
  /\ UNCHANGED <<ws, dead, stop, valid, sends, faults>>

(* A closed client connects again; the ping finds out a broken one.        *)
Wake ==
  /\ sup = "tick"
  /\ \/ ~ws.open /\ sup' = "transport" /\ UNCHANGED <<ws, sends>>
     \/ ~ws.live /\ Recover
  /\ UNCHANGED <<dead, stop, valid, faults>>

Backoff ==
  /\ sup = "backoff" /\ sup' = "transport"
  /\ UNCHANGED <<ws, dead, stop, valid, sends, faults>>

(* The supervisor is cancelled at its await, then the client is closed.    *)
Disconnect ==
  /\ \/ /\ stop = "no" /\ stop' = "closing" /\ sup' = "ended" /\ UNCHANGED <<ws, sends>>
     \/ /\ stop = "closing" /\ stop' = "done" /\ ws' = Closed /\ FailAll /\ UNCHANGED sup
  /\ UNCHANGED <<dead, valid, faults>>

Supervisor == Transport \/ Login \/ Refused \/ LoginBreaks \/ Wake \/ Backoff

-----------------------------------------------------------------------------
(* A file: a slot, the POST, the push 136, the message.                    *)

At(f, at)   == sends[f].at = at
Goto(f, at) == sends' = [sends EXCEPT ![f].at = at, ![f].on = ws.id]
Kept        == UNCHANGED <<ws, sup, stop, valid>>

Start(f) ==
  /\ At(f, "idle") /\ Goto(f, IF ws.open /\ ~dead THEN "slot" ELSE "failed")
  /\ Kept /\ UNCHANGED <<dead, faults>>

(* The slot is answered; the push is expected before the POST begins.      *)
Slot(f) ==
  /\ At(f, "slot") /\ Answers(sends[f].on) /\ valid
  /\ sends' = [sends EXCEPT ![f].at = "post", ![f].future = "pending"]
  /\ Kept /\ UNCHANGED <<dead, faults>>

(* The server has the file and says so, on the connection there is.        *)
Processed(f) ==
  /\ Expects(f) /\ sends[f].push = "none"
  /\ sends' = [sends EXCEPT ![f].push = IF ws.live /\ ws.session THEN "sent" ELSE "lost",
                            ![f].on = ws.id]
  /\ Kept /\ UNCHANGED <<dead, faults>>

(* Mutant: the push is expected after the POST.                            *)
HearsLate(f) == At(f, "wait")

Hears(f) == Expects(f)

Ready(f) ==       (* feed                                                  *)
  /\ sends[f].push = "sent" /\ Answers(sends[f].on)
  /\ sends' = [sends EXCEPT ![f].push = "over",
                 ![f].future = IF Hears(f) /\ @ = "pending" THEN "ready" ELSE @]
  /\ Kept /\ UNCHANGED <<dead, faults>>

Posted(f) ==
  /\ At(f, "post") /\ sends' = [sends EXCEPT ![f].at = "wait"]
  /\ Kept /\ UNCHANGED <<dead, faults>>

PostFails(f) ==
  /\ Fault /\ At(f, "post") /\ Goto(f, "failed")
  /\ Kept /\ UNCHANGED dead

Waited(f) ==
  /\ At(f, "wait") /\ sends[f].future # "pending"
  /\ Goto(f, IF sends[f].future = "ready" THEN "send" ELSE "failed")
  /\ Kept /\ UNCHANGED <<dead, faults>>

(* Mutant: only a broken connection ends the waiting.                      *)
TimeoutBroken(f) ==
  /\ At(f, "wait") /\ sends[f].future = "pending" /\ Fails(sends[f].on)
  /\ Goto(f, "timeout")
  /\ Kept /\ UNCHANGED <<dead, faults>>

(* No push after upload_ready_timeout_sec: the push is lost for good.      *)
Timeout(f) ==
  /\ At(f, "wait") /\ sends[f].future = "pending"
  /\ sends[f].push \in {"lost", "over"} \/ (sends[f].push = "sent" /\ Fails(sends[f].on))
  /\ Goto(f, "timeout")
  /\ Kept /\ UNCHANGED <<dead, faults>>

Sent(f) ==
  /\ At(f, "send") /\ Answers(sends[f].on) /\ valid /\ Goto(f, "sent")
  /\ Kept /\ UNCHANGED <<dead, faults>>

(* A request of the file fails; a revoked token makes the provider dead.   *)
SendFails(f) ==
  /\ sends[f].at \in {"slot", "send"}
  /\ \/ Fails(sends[f].on) /\ UNCHANGED <<dead, faults>>
     \/ Answers(sends[f].on) /\ ~valid /\ dead' = TRUE /\ UNCHANGED faults
     \/ Fault /\ UNCHANGED dead
  /\ Goto(f, "failed")
  /\ Kept

FileStep(f) ==
  \/ Slot(f) \/ Processed(f) \/ Ready(f) \/ Posted(f) \/ Waited(f) \/ Timeout(f)
  \/ Sent(f) \/ SendFails(f)

-----------------------------------------------------------------------------

SessionNext ==
  \/ Supervisor \/ CallFails \/ Disconnect
  \/ Drops \/ ReaderEnds \/ Revoked
  \/ \E f \in Files : Start(f) \/ FileStep(f) \/ PostFails(f)

SessionSpec == SessionInit /\ [][SessionNext]_sessionVars

SessionFairSpec ==
  /\ SessionSpec /\ WF_sessionVars(Supervisor)
  /\ WF_sessionVars(stop = "closing" /\ Disconnect)
  /\ \A f \in Files : WF_sessionVars(FileStep(f))

-----------------------------------------------------------------------------
(* Properties.                                                             *)

(* "136 может опередить" (media.py:67): a file times out only when a       *)
(* connection or a call failed, or the provider ended, never because the   *)
(* push came early.                                                        *)
ReadyIsHeard ==
  \A f \in Files : At(f, "timeout") => faults > 0 \/ stop # "no" \/ dead

(* After any break the account is on line again, unless its token is       *)
(* revoked or the provider is stopped: no client without a session passes  *)
(* for healthy ("вечно-«здоровый» зомби", provider.py:472).                *)
SessionReturns == <>[](ws.open /\ ws.live /\ ws.session) \/ <>(~valid \/ stop # "no")

(* A file that was begun ends, sent or failed: the outbox is not blocked.  *)
FileEnds ==
  \A f \in Files :
    At(f, "slot") ~> sends[f].at \in {"sent", "failed", "timeout"}
=============================================================================
