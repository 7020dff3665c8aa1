-------------------------------- MODULE Lines --------------------------------
(***************************************************************************)
(* How a line gets its session and loses it: the panel of the              *)
(* administrator (web/routes/admin_api.py), the logins by QR code, and     *)
(* AccountSync, which follows the row.                                     *)
(*                                                                         *)
(* Telegram: the web writes commands (onboarding/tg_channel.py), the       *)
(* bridge executes them (bridge/login_worker.py), several steps each; a    *)
(* step ends where the code awaits.  MAX and WhatsApp: the login lives in  *)
(* the memory of the web process (max_channel.py with max/login.py, and    *)
(* wa_channel.py) and writes the row itself.                               *)
(***************************************************************************)
EXTENDS AccountSync, Sequences

CONSTANTS
  MaxCommands     (* bound on the rows of login_commands                   *)

ASSUME LinesAssumption == MaxCommands \in Nat

VARIABLES
  cmds,           (* login_commands: [kind, status, secret]                *)
  pc,             (* where _run_command stands, for each command           *)
  busy,           (* the account is in _account_busy                       *)
  loop,           (* LoginCommandWorker.run: starting, running or ended    *)
  web,            (* _logins of MAX or WhatsApp: [st, sess]                *)
  issued,         (* line_connect has issued a link, start() is to come    *)
  activated       (* history: commands that activated the line             *)

cmdVars  == <<cmds, pc, busy, loop, activated>>
lineVars == <<accountVars, cmdVars, web, issued>>

ActiveStatuses == {"pending", "waiting", "password_required"}
NoLogin == [st |-> "none", sess |-> 0]
Command == 1..MaxCommands

LinesInit ==
  /\ SyncInit
  /\ cmds = <<>> /\ pc = [c \in Command |-> "none"] /\ busy = FALSE
  /\ loop = "starting" /\ web = NoLogin /\ issued = FALSE /\ activated = {}

-----------------------------------------------------------------------------
(* The panel.                                                              *)

(* terminate_active_commands: the row is ended and the password erased.    *)
Terminated(status) ==
  [c \in DOMAIN cmds |->
     IF cmds[c].status \in ActiveStatuses
       THEN [cmds[c] EXCEPT !.status = status, !.secret = FALSE] ELSE cmds[c]]

(* Ends the live commands and adds one, in one transaction.                *)
NewCommand(kind) ==
  /\ Len(cmds) < MaxCommands
  /\ cmds' = Append(Terminated("cancelled"), [kind |-> kind, status |-> "pending", secret |-> FALSE])
  /\ UNCHANGED <<pc, busy, loop, activated>>

(* line_connect: a link for the owner, in a transaction of its own; the    *)
(* status of the line is judged by what this transaction read.             *)
Connect ==
  /\ ~ line.removed /\ ~ issued
  /\ \E force \in BOOLEAN : ~ Active(line) \/ force
  /\ issued' = TRUE
  /\ UNCHANGED <<accountVars, cmdVars, web>>

(* TgOnboardingChannel.start.                                              *)
StartTg ==
  /\ issued /\ channel = "tg"
  /\ NewCommand("qr_login")
  /\ issued' = FALSE
  /\ UNCHANGED <<accountVars, web>>

(* start() of MAX and WhatsApp replaces a login in progress; WhatsApp ends *)
(* its session, be it the one the line uses.                               *)
StartWeb ==
  /\ issued /\ channel # "tg"
  /\ valid' = IF channel = "wa" THEN valid \ {web.sess} ELSE valid
  /\ web' = [st |-> "waiting", sess |-> 0]
  /\ issued' = FALSE
  /\ UNCHANGED <<channel, line, opened, poolVars, syncLocal, faults, cmdVars>>

(* OpenWA refuses the new session.                                         *)
StartWebFails ==
  /\ issued /\ channel = "wa" /\ Fault
  /\ valid' = valid \ {web.sess}
  /\ web' = NoLogin /\ issued' = FALSE
  /\ UNCHANGED <<channel, line, opened, poolVars, syncLocal, cmdVars>>

(* line_connect_cancel.                                                    *)
CancelConnect ==
  /\ cmds' = Terminated("cancelled")
  /\ valid' = IF channel = "wa" THEN valid \ {web.sess} ELSE valid
  /\ web' = NoLogin
  /\ UNCHANGED <<channel, line, opened, poolVars, syncLocal, faults, pc, busy, activated, loop, issued>>

(* unlink_account, and what delete_line does with the session.             *)
DropSession ==
  IF channel = "tg"
    THEN NewCommand("log_out") /\ UNCHANGED valid
    ELSE /\ valid' = IF channel = "wa" THEN valid \ {line.cred} ELSE valid
         /\ UNCHANGED cmdVars

Unlink ==
  /\ ~ line.removed
  /\ DropSession
  /\ line' = IF channel = "tg" THEN line ELSE [line EXCEPT !.status = "offline", !.cred = 0]
  /\ UNCHANGED <<channel, opened, poolVars, syncLocal, faults, web, issued>>

DeleteLine ==
  /\ ~ line.removed /\ ~ Active(line)
  /\ DropSession
  /\ line' = [line EXCEPT !.removed = TRUE, !.cred = IF channel = "tg" THEN @ ELSE 0]
  /\ UNCHANGED <<channel, opened, poolVars, syncLocal, faults, web, issued>>

TakesPassword(c) == cmds[c].status = "password_required"

(* submit_password, from the page of the link.                             *)
SubmitPassword(c) ==
  /\ c \in DOMAIN cmds /\ TakesPassword(c)
  /\ cmds' = [cmds EXCEPT ![c].secret = TRUE]
  /\ UNCHANGED <<accountVars, pc, busy, activated, loop, web, issued>>

-----------------------------------------------------------------------------
(* LoginCommandWorker.                                                     *)

(* Mutant: the row is written without a look at its status.                *)
EndedAny(c, status) == [cmds EXCEPT ![c].status = status, ![c].secret = FALSE]

(* _set_status touches only a command that is still alive.                 *)
Ended(c, status) ==
  IF cmds[c].status \in ActiveStatuses
    THEN [cmds EXCEPT ![c].status = status, ![c].secret = FALSE] ELSE cmds

Goto(c, label) == pc' = [pc EXCEPT ![c] = label]

(* Mutant: the account stays busy.                                         *)
FinishBusy(c, status) == cmds' = Ended(c, status) /\ Goto(c, "none") /\ busy' = busy

(* The task of c ends with this status.                                    *)
Finish(c, status) ==
  /\ cmds' = Ended(c, status)
  /\ Goto(c, "none") /\ busy' = FALSE

(* _poll_once: the command has no task and its account no other.           *)
PollCommand(c) ==
  /\ loop = "running" /\ sync # "down"
  /\ c \in DOMAIN cmds /\ cmds[c].status = "pending" /\ pc[c] = "none" /\ ~ busy
  /\ Goto(c, "load")
  /\ UNCHANGED <<accountVars, cmds, busy, activated, loop, web, issued>>

(* _run_command reads the row; if it is pending, the account is busy only  *)
(* once the answer is there.                                               *)
Load(c) ==
  /\ pc[c] = "load"
  /\ Goto(c, IF cmds[c].status = "pending" THEN "begin" ELSE "none")
  /\ UNCHANGED <<accountVars, cmds, busy, activated, loop, web, issued>>

Begin(c) ==
  /\ pc[c] = "begin"
  /\ IF cmds[c].kind = "log_out" THEN busy' = TRUE /\ Goto(c, "log_out") /\ UNCHANGED cmds
     ELSE IF prov # NoProvider THEN Finish(c, "error")
     ELSE busy' = TRUE /\ Goto(c, "connect") /\ UNCHANGED cmds
  /\ UNCHANGED <<accountVars, activated, loop, web, issued>>

(* The session of the file is still good, or a QR code is shown.           *)
ConnectClient(c) ==
  /\ pc[c] = "connect"
  /\ IF line.cred \in valid
       THEN Goto(c, "activate") /\ UNCHANGED cmds
       ELSE Goto(c, "wait") /\ cmds' = Ended(c, "waiting")
  /\ UNCHANGED <<accountVars, busy, activated, loop, web, issued>>

(* A new session of the line; Telegram writes it to the file at once.      *)
NewSession ==
  /\ opened < MaxSessions
  /\ opened' = opened + 1 /\ valid' = valid \union {opened + 1}

SignedIn(c) ==
  /\ NewSession
  /\ line' = [line EXCEPT !.cred = opened + 1]
  /\ Goto(c, "activate")
  /\ UNCHANGED <<channel, poolVars, syncLocal, faults, cmds, busy, activated, loop, web, issued>>

(* _wait_scan: the owner scans the code, perhaps a password is needed.     *)
Scanned(c) == pc[c] = "wait" /\ SignedIn(c)

PasswordNeeded(c) ==
  /\ pc[c] = "wait"
  /\ cmds' = Ended(c, "password_required") /\ Goto(c, "password")
  /\ UNCHANGED <<accountVars, busy, activated, loop, web, issued>>

(* The command was ended by others or its deadline is over, or the last    *)
(* QR code has expired.                                                    *)
WaitEnds(c) ==
  /\ pc[c] = "wait"
  /\ Finish(c, "cancelled") \/ Finish(c, "expired")
  /\ UNCHANGED <<accountVars, activated, loop, web, issued>>

(* _wait_password: the password is erased as it is read.                   *)
ReadPassword(c) ==
  /\ pc[c] = "password"
  /\ cmds[c].status = "password_required" /\ cmds[c].secret
  /\ cmds' = [cmds EXCEPT ![c].secret = FALSE]
  /\ Goto(c, "sign_in")
  /\ UNCHANGED <<accountVars, busy, activated, loop, web, issued>>

(* Nobody entered it in time, the command was ended, or it is wrong.       *)
NoPassword(c) ==
  /\ pc[c] \in {"password", "sign_in"}
  /\ Finish(c, "error")
  /\ UNCHANGED <<accountVars, activated, loop, web, issued>>

PasswordRight(c) == pc[c] = "sign_in" /\ SignedIn(c)

(* _activate_account asks nobody whether the command is still wanted.      *)
Activate(c) ==
  /\ pc[c] = "activate"
  /\ line' = [line EXCEPT !.status = "active"]
  /\ activated' = activated \union {c}
  /\ Goto(c, "authorize")
  /\ UNCHANGED <<channel, valid, opened, poolVars, syncLocal, faults, cmds, busy, loop, web, issued>>

(* Mutant: the command is told to be authorized before the line is active. *)
AuthorizeEarly(c) ==
  /\ pc[c] \in {"activate", "authorize"}
  /\ Finish(c, "authorized")
  /\ UNCHANGED <<accountVars, activated, loop, web, issued>>

Authorize(c) ==
  /\ pc[c] = "authorize"
  /\ Finish(c, "authorized")
  /\ UNCHANGED <<accountVars, activated, loop, web, issued>>

(* _run_log_out: by the provider, if there is one, else by a client of its *)
(* own, if there is a file; both may fail to reach Telegram, which is      *)
(* forgiven to the provider only (LogOutFails, TaskFails).                 *)
LogOut(c) ==
  /\ pc[c] = "log_out"
  /\ valid' = valid \ {line.cred}
  /\ line' = [line EXCEPT !.cred = 0]
  /\ IF prov # NoProvider
       THEN prov' = [prov EXCEPT !.state = "down"] /\ CancelForward /\ Goto(c, "release")
       ELSE UNCHANGED <<prov, fwd>> /\ Goto(c, "offline")
  /\ UNCHANGED <<channel, opened, boot, syncLocal, faults, cmds, busy, activated, loop, web, issued>>

LogOutFails(c) ==
  /\ pc[c] = "log_out" /\ prov # NoProvider /\ Fault
  /\ CancelForward /\ Goto(c, "release")
  /\ UNCHANGED <<rowVars, prov, boot, syncLocal, cmds, busy, activated, loop, web, issued>>

(* force_unregister, second half.                                          *)
Release(c) ==
  /\ pc[c] = "release"
  /\ Unregister
  /\ Goto(c, "offline")
  /\ UNCHANGED <<rowVars, syncLocal, faults, cmds, busy, activated, loop, web, issued>>

Offline(c) ==
  /\ pc[c] = "offline"
  /\ line' = [line EXCEPT !.status = "offline"]
  /\ Goto(c, "done")
  /\ UNCHANGED <<channel, valid, opened, poolVars, syncLocal, faults, cmds, busy, activated, loop, web, issued>>

LoggedOut(c) ==
  /\ pc[c] = "done"
  /\ Finish(c, "done")
  /\ UNCHANGED <<accountVars, activated, loop, web, issued>>

(* An exception anywhere ends the task, and the command with an error;     *)
(* when the database is why, the status cannot be written either.          *)
TaskFails(c) ==
  /\ pc[c] \notin {"none", "release"} /\ Fault
  /\ cmds' = Ended(c, "error") \/ cmds' = cmds
  /\ Goto(c, "none") /\ busy' = (busy /\ pc[c] = "load")
  /\ UNCHANGED <<rowVars, poolVars, syncLocal, activated, loop, web, issued>>

(* _sweep_once ends what has been alive for half an hour.                  *)
Sweep(c) ==
  /\ loop = "running" /\ sync # "down"
  /\ c \in DOMAIN cmds /\ cmds[c].status \in ActiveStatuses
  /\ cmds' = Ended(c, "error")
  /\ UNCHANGED <<accountVars, pc, busy, activated, loop, web, issued>>

(* _startup_selfheal: whatever was alive is ended, log_out included; only  *)
(* then the poll begins.                                                   *)
SelfHeal ==
  /\ loop = "starting" /\ sync # "down"
  /\ cmds' = Terminated("expired") /\ loop' = "running"
  /\ UNCHANGED <<accountVars, pc, busy, activated, web, issued>>

(* A database error in _startup_selfheal or _sweep_once, which run() does  *)
(* not catch: its loop is over and nobody starts it again (main.py).  The  *)
(* tasks it has started go on.                                             *)
LoopEnds ==
  /\ loop # "ended" /\ sync # "down" /\ Fault
  /\ loop' = "ended"
  /\ UNCHANGED <<rowVars, poolVars, syncLocal, cmds, pc, busy, activated, web, issued>>

Login(c) ==
  \/ Load(c) \/ Begin(c) \/ ConnectClient(c) \/ WaitEnds(c) \/ ReadPassword(c) \/ NoPassword(c)
  \/ Activate(c) \/ Authorize(c) \/ LogOut(c) \/ Release(c) \/ Offline(c) \/ LoggedOut(c)

(* With the process its tasks and its loop begin anew.                     *)
Restart ==
  \/ /\ BridgeDown
     /\ pc' = [c \in Command |-> "none"] /\ busy' = FALSE /\ loop' = "starting"
     /\ UNCHANGED <<cmds, activated, web, issued>>
  \/ BridgeUp /\ UNCHANGED <<cmdVars, web, issued>>

-----------------------------------------------------------------------------
(* MAX and WhatsApp: the login in the web process.                         *)

WebStep(st) == web' = [web EXCEPT !.st = st]

(* The owner scans; MAX may want a password before it gives a session.     *)
WebPassword ==
  /\ channel = "max" /\ web.st = "waiting"
  /\ WebStep("password")
  /\ UNCHANGED <<accountVars, cmdVars, issued>>

WebScanned ==
  /\ channel # "tg" /\ web.st \in {"waiting", "password"}
  /\ NewSession
  /\ web' = [st |-> "saving", sess |-> opened + 1]
  /\ UNCHANGED <<channel, line, poolVars, syncLocal, faults, cmdVars, issued>>

(* The deadline, a wrong password, or an error of the messenger.           *)
WebEnds ==
  /\ web.st \in {"waiting", "password"}
  /\ \E st \in {"expired", "error"} : WebStep(st)
  /\ UNCHANGED <<accountVars, cmdVars, issued>>

(* _save_session: the row of the line, removed or not.                     *)
SaveSession ==
  /\ web.st = "saving"
  /\ line' = [line EXCEPT !.cred = web.sess, !.status = "active"]
  /\ WebStep("authorized")
  /\ UNCHANGED <<channel, valid, opened, poolVars, syncLocal, faults, cmdVars, issued>>

SaveFails ==
  /\ web.st = "saving" /\ Fault
  /\ WebStep("error")
  /\ UNCHANGED <<rowVars, poolVars, syncLocal, cmdVars, issued>>

(* The web process starts anew.                                            *)
WebDown ==
  /\ Fault
  /\ web' = NoLogin /\ issued' = FALSE
  /\ UNCHANGED <<rowVars, poolVars, syncLocal, cmdVars>>

-----------------------------------------------------------------------------
Panel ==
  Connect \/ StartTg \/ StartWeb \/ StartWebFails \/ CancelConnect \/ Unlink \/ DeleteLine

(* Assumed of the clock: a cancelled pump ends within the 20 seconds       *)
(* between two ticks of AccountSync.                                       *)
Releasing == \E c \in Command : pc[c] = "release"

Next ==
  \/ (SyncStep \/ (Tick /\ ~ Releasing)) /\ UNCHANGED <<cmdVars, web, issued>>
  \/ Restart \/ SelfHeal \/ LoopEnds
  \/ Panel
  \/ \E c \in Command :
       \/ SubmitPassword(c) \/ PollCommand(c) \/ Login(c) \/ TaskFails(c) \/ Sweep(c)
       \/ Scanned(c) \/ PasswordNeeded(c) \/ PasswordRight(c) \/ LogOutFails(c)
  \/ WebPassword \/ WebScanned \/ WebEnds \/ SaveSession \/ SaveFails \/ WebDown

Spec == LinesInit /\ [][Next]_lineVars

(* A row without a task that no poll takes up.                             *)
Orphaned(c) == pc[c] = "none" /\ cmds[c].status # "pending"

(* The process is started again and reaches its loops; every wait of a     *)
(* login has a deadline, every call a timeout.  The poll and the sweep are *)
(* owed only while run() goes on (their guards), the sweep only to rows    *)
(* whose task has died.  The panel, the owner and the messenger owe        *)
(* nothing.                                                                *)
FairSpec ==
  /\ Spec /\ SyncFairness /\ WF_lineVars(Restart /\ sync = "down") /\ WF_lineVars(SelfHeal)
  /\ \A c \in Command :
       WF_lineVars(PollCommand(c)) /\ WF_lineVars(Login(c)) /\ WF_lineVars(Sweep(c) /\ Orphaned(c))

-----------------------------------------------------------------------------
(* Properties.                                                             *)

(* A provider in the pool is read by exactly one pump, the one of the boot *)
(* or the one of the sync worker: with none its messages are lost, with    *)
(* two they are split.  Only while it is being taken out of the pool the   *)
(* task of the sync worker may be gone already.                            *)
PooledHasPump ==
  (prov # NoProvider /\ sync # "stop" /\ ~ Releasing)
    => (fwd = "live") # (boot = "live")

(* A command that is over holds no password (models/login_command.py,      *)
(* password_transit: "in transit only"), and says "authorized" only when   *)
(* it has activated the line, however submitting, reading, cancelling,     *)
(* sweeping and restarts interleave.                                       *)
OverIsClean ==
  \A c \in DOMAIN cmds :
    /\ cmds[c].secret => cmds[c].status \in ActiveStatuses
    /\ cmds[c].status = "authorized" => c \in activated

(* The login worker never overwrites what the web has decided: a command   *)
(* that is over keeps its status ("the state does not lie").               *)
TerminalIsFinal ==
  [][\A c \in DOMAIN cmds :
       cmds[c].status \notin ActiveStatuses => cmds'[c].status = cmds[c].status]_lineVars

(* Every command is over some day, whatever the owner does not do, and     *)
(* whichever of its steps fails, the writing of its failure included.  The *)
(* one exception is the worker whose loop has ended: a command without a   *)
(* task then waits for the next start of the bridge; one with a task ends. *)
Over(c) == c \in DOMAIN cmds /\ cmds[c].status \notin ActiveStatuses
CommandsSettle ==
  \A c \in Command :
    (c \in DOMAIN cmds) ~> (Over(c) \/ (loop = "ended" /\ pc[c] = "none"))

(* The pool follows the row.  A line that is active with a good session    *)
(* gets a connected provider: drops are healed by registering anew,        *)
(* rotated credentials replaced (a Telegram provider keeps the session it  *)
(* has started with).  The session of a line whose credentials were taken  *)
(* away leaves the pool.                                                   *)
PoolFollowsRow ==
  /\ (Active(line) /\ line.cred \in valid)
       ~> \/ ~ Active(line) \/ line.cred \notin valid
          \/ prov.state = "up" /\ (channel = "tg" \/ prov.cred = line.cred)
  /\ (channel # "tg" /\ line.cred = 0) ~> (line.cred # 0 \/ prov = NoProvider)

-----------------------------------------------------------------------------
(* The inductive invariant behind the safety properties.                   *)

Row      == [status : {"offline", "active"}, cred : Nat, removed : BOOLEAN]
Entry    == [kind : {"qr_login", "log_out"},
             status : ActiveStatuses \union {"cancelled", "expired", "error", "authorized", "done"},
             secret : BOOLEAN]
Labels   == {"none", "load", "begin", "connect", "wait", "password", "sign_in", "activate",
             "authorize", "log_out", "release", "offline", "done"}
PumpTask == {"none", "live", "stale"}

LineTypes ==
  /\ channel \in Channels /\ line \in Row /\ opened \in Nat /\ valid \subseteq Nat
  /\ prov \in [cred : Nat, state : {"none", "up", "down", "dead"}]
  /\ fwd \in PumpTask /\ boot \in PumpTask
  /\ sync \in {"idle", "register", "inspect", "stop", "down"} /\ snap \in Row
  /\ streak \in Nat /\ faults \in Nat
  /\ cmds \in Seq(Entry) /\ pc \in [Command -> Labels] /\ busy \in BOOLEAN
  /\ loop \in {"starting", "running", "ended"}
  /\ web \in [st : {"none", "waiting", "password", "saving", "authorized", "expired", "error"},
              sess : Nat]
  /\ issued \in BOOLEAN /\ activated \subseteq Command

(* A task belongs to a row of login_commands, and reports success only     *)
(* after it has activated the line.                                        *)
TasksHaveRows ==
  \A c \in Command :
    /\ pc[c] # "none" => c \in DOMAIN cmds
    /\ pc[c] = "authorize" => c \in activated

(* Whoever takes a provider out of the pool has cancelled the sync         *)
(* worker's pump before; so no pump of _forward_tasks outlives its         *)
(* provider, and a new provider finds the place of its pump free.          *)
PumpsFollowPool ==
  /\ fwd # "stale"
  /\ sync = "stop" \/ Releasing => fwd = "none"
  /\ sync \in {"register", "down"} => prov = NoProvider
  /\ sync = "register" => ~ Releasing
  /\ prov = NoProvider => fwd = "none" /\ boot # "live"
  /\ fwd = "live" => boot # "live"

LinesInv == LineTypes /\ TasksHaveRows /\ OverIsClean /\ PumpsFollowPool /\ PooledHasPump
=============================================================================
