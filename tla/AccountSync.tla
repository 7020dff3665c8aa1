----------------------------- MODULE AccountSync -----------------------------
(***************************************************************************)
(* One line (a row of tg_accounts) in the bridge: the pool of providers    *)
(* (bridge/session_manager.py), the worker that makes the pool follow the  *)
(* rows (bridge/account_sync.py), the pumps that read a provider's streams *)
(* (bridge/bootstrap.py) and the start of the process (main.py).           *)
(*                                                                         *)
(* A session of the messenger is a number; `line.cred` is the one the line *)
(* holds, 0 for none: MAX keeps it in `token`, WhatsApp in wa_session_id,  *)
(* Telegram in the .session file, which credential_token() does not show.  *)
(* What panels, logins and messengers do to the row comes from Lines.      *)
(***************************************************************************)
EXTENDS Naturals

CONSTANTS
  Channels,       (* messengers to consider: subset of {"tg","max","wa"}   *)
  MaxSessions,    (* bound on the sessions opened in a behaviour           *)
  MaxFaults,      (* bound on faults: drops, failures, revocations, ...    *)
  GraceTicks      (* AccountSyncWorker._disconnect_grace_ticks (2)         *)

ASSUME SyncAssumption ==
  /\ Channels \subseteq {"tg", "max", "wa"}
  /\ MaxSessions \in Nat /\ MaxFaults \in Nat /\ GraceTicks \in Nat \ {0}

VARIABLES
  channel,        (* messenger of the line                                 *)
  line,           (* its row: [status, cred, removed]                      *)
  valid,          (* sessions the messenger accepts                        *)
  opened,         (* sessions opened so far                                *)
  prov,           (* SessionManager._providers: the line's provider        *)
  fwd,            (* the line's task in _forward_tasks: "none", "live" for *)
                  (* one that reads prov, "stale" for a former provider    *)
  boot,           (* the task started by main.py for the line, likewise    *)
  sync,           (* where _sync_once stands; "down": no bridge process    *)
  snap,           (* the row as _sync_once has read it                     *)
  streak,         (* _disconnect_streak                                    *)
  faults

rowVars   == <<channel, line, valid, opened>>
poolVars  == <<prov, fwd, boot>>
syncLocal == <<sync, snap, streak>>
accountVars == <<rowVars, poolVars, syncLocal, faults>>

NoProvider == [cred |-> 0, state |-> "none"]
NoLine     == [status |-> "offline", cred |-> 0, removed |-> FALSE]

(* A line as create_line makes it.                                         *)
SyncInit ==
  /\ channel \in Channels
  /\ line = NoLine /\ valid = {} /\ opened = 0
  /\ prov = NoProvider /\ fwd = "none" /\ boot = "none"
  /\ sync = "idle" /\ snap = NoLine /\ streak = 0 /\ faults = 0

Fault == faults < MaxFaults /\ faults' = faults + 1

Active(row) == row.status = "active"

-----------------------------------------------------------------------------
(* AccountSyncWorker._sync_once, one await at a time.                      *)

(* load_active_accounts; with a row and a pool that are both empty there   *)
(* is nothing to do.                                                       *)
Tick ==
  /\ sync = "idle"
  /\ Active(line) \/ prov # NoProvider
  /\ snap' = line
  /\ sync' = IF prov = NoProvider THEN "register" ELSE "inspect"
  /\ UNCHANGED <<rowVars, poolVars, streak, faults>>

(* _start_forward leaves a task that is not done alone.                    *)
StartForward == fwd' = IF fwd = "none" THEN "live" ELSE fwd

(* SessionManager.register: connect() with a deadline, then the pool.      *)
(* Telegram reads its file only now.                                       *)
Credential == IF channel = "tg" THEN line.cred ELSE snap.cred

RegisterOk ==
  /\ sync = "register"
  /\ Credential \in valid
  /\ prov' = [cred |-> Credential, state |-> "up"]
  /\ StartForward
  /\ sync' = "inspect"
  /\ UNCHANGED <<rowVars, boot, snap, streak, faults>>

(* The session is revoked: make_register_failure_hook puts the row offline *)
(* for SessionRevokedError and MaxAuthError; WhatsApp's error counts as a  *)
(* passing one.                                                            *)
RegisterRevoked ==
  /\ sync = "register"
  /\ Credential \notin valid
  /\ line' = IF channel = "wa" THEN line ELSE [line EXCEPT !.status = "offline"]
  /\ sync' = "idle"
  /\ UNCHANGED <<channel, valid, opened, poolVars, snap, streak, faults>>

(* The connection fails or times out; the next tick tries again.           *)
RegisterFails ==
  /\ sync = "register"
  /\ Fault
  /\ sync' = "idle"
  /\ UNCHANGED <<rowVars, poolVars, snap, streak>>

(* The row has changed hands since the provider was built.                 *)
Rotated     == Active(snap) /\ channel # "tg" /\ snap.cred # prov.cred
(* _is_deactivated, a fresh read.                                          *)
Deactivated == ~ Active(snap) /\ channel # "tg" /\ line.cred = 0
Retired     == Rotated \/ prov.state = "dead" \/ Deactivated
Down        == prov.state = "down"
Tired       == Down /\ streak + 1 >= GraceTicks

(* Mutant: a tick that finds no connection forgets the ones before.        *)
CountNone == streak' = 0

Count ==
  streak' = IF Retired THEN streak
            ELSE IF Down /\ ~ Tired THEN streak + 1 ELSE 0

(* Mutant: the task is left running in the map.                            *)
CancelForwardNot == fwd' = fwd

(* _unregister, first half: the task is taken out of the map, cancelled    *)
(* and awaited.                                                            *)
CancelForward == fwd' = "none"

(* Steps 2 and 3: what becomes of a provider in the pool.                  *)
Inspect ==
  /\ sync = "inspect" /\ prov # NoProvider
  /\ Count
  /\ IF Retired \/ Tired
       THEN CancelForward /\ sync' = "stop"
       ELSE UNCHANGED fwd /\ sync' = "idle"
  /\ UNCHANGED <<rowVars, prov, boot, snap, faults>>

InspectNothing ==
  /\ sync = "inspect" /\ prov = NoProvider
  /\ sync' = "idle"
  /\ UNCHANGED <<rowVars, poolVars, snap, streak, faults>>

(* A pump of a provider that disconnects: the streams of MAX and WhatsApp  *)
(* end with a sentinel, Telegram's wait for ever.                          *)
Orphan(pump) == IF pump # "live" THEN pump ELSE IF channel = "tg" THEN "stale" ELSE "none"

(* _unregister, second half: SessionManager.unregister.                    *)
Unregister ==
  /\ prov' = NoProvider
  /\ fwd' = Orphan(fwd) /\ boot' = Orphan(boot)

Stop ==
  /\ sync = "stop"
  /\ Unregister
  /\ sync' = "idle"
  /\ UNCHANGED <<rowVars, snap, streak, faults>>

-----------------------------------------------------------------------------
(* The messenger, and the bridge process.                                  *)

(* The connection drops; MAX and WhatsApp reconnect by themselves,         *)
(* Telegram (auto_reconnect=False) does not.                               *)
Drop ==
  /\ prov.state = "up" /\ Fault
  /\ prov' = [prov EXCEPT !.state = "down"]
  /\ UNCHANGED <<rowVars, fwd, boot, syncLocal>>

Reconnect ==
  /\ prov.state = "down" /\ channel # "tg" /\ prov.cred \in valid
  /\ prov' = [prov EXCEPT !.state = "up"]
  /\ UNCHANGED <<rowVars, fwd, boot, syncLocal, faults>>

(* The owner of the number ends the session on his telephone.              *)
Revoke(c) ==
  /\ c \in valid /\ Fault
  /\ valid' = valid \ {c}
  /\ UNCHANGED <<channel, line, opened, poolVars, syncLocal>>

(* A provider notices that its session is gone.                            *)
NoticeRevoked ==
  /\ prov.state \in {"up", "down"} /\ prov.cred \notin valid
  /\ prov' = [prov EXCEPT !.state = IF channel = "tg" THEN "down" ELSE "dead"]
  /\ prov' # prov
  /\ UNCHANGED <<rowVars, fwd, boot, syncLocal, faults>>

(* The process stops or dies: its memory is gone.                          *)
BridgeDown ==
  /\ sync # "down" /\ Fault
  /\ prov' = NoProvider /\ fwd' = "none" /\ boot' = "none"
  /\ sync' = "down" /\ snap' = NoLine /\ streak' = 0
  /\ UNCHANGED rowVars

(* register_accounts, whose failures are only logged, and the pumps of     *)
(* main.py, which _forward_tasks does not know.                            *)
BridgeUp ==
  /\ sync = "down"
  /\ \/ UNCHANGED <<prov, boot>>
     \/ /\ Active(line) /\ line.cred \in valid
        /\ prov' = [cred |-> line.cred, state |-> "up"] /\ boot' = "live"
  /\ sync' = "idle"
  /\ UNCHANGED <<rowVars, fwd, snap, streak, faults>>

(* All but the beginning of a tick.                                        *)
SyncStep ==
  \/ RegisterOk \/ RegisterRevoked \/ RegisterFails
  \/ Inspect \/ InspectNothing \/ Stop
  \/ Drop \/ Reconnect \/ NoticeRevoked \/ \E c \in valid : Revoke(c)

(* The loop of run() goes on, whatever a tick raises, and the process is   *)
(* started again when it ends.                                             *)
SyncFairness ==
  /\ WF_accountVars(Tick) /\ WF_accountVars(RegisterOk \/ RegisterRevoked)
  /\ WF_accountVars(Inspect \/ InspectNothing) /\ WF_accountVars(Stop)

=============================================================================
