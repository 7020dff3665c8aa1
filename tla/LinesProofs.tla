----------------------------- MODULE LinesProofs -----------------------------
(***************************************************************************)
(* Proofs about Lines and AccountSync, for any number of login commands,   *)
(* sessions and faults, and each of the three messengers.                  *)
(***************************************************************************)
EXTENDS Lines, SequenceTheorems, TLAPS

-----------------------------------------------------------------------------
(* How one step may change login_commands: rows are only added, a row that *)
(* is over keeps its status, a row ends without a password, and none is    *)
(* authorized but by a task that is about to say so.                       *)
RowsAdvance ==
  /\ cmds' \in Seq(Entry)
  /\ DOMAIN cmds \subseteq DOMAIN cmds'
  /\ \A c \in DOMAIN cmds : cmds[c].status \notin ActiveStatuses => cmds'[c].status = cmds[c].status
  /\ \A c \in DOMAIN cmds' : cmds'[c].secret => cmds'[c].status \in ActiveStatuses
  /\ \A c \in DOMAIN cmds' :
       cmds'[c].status = "authorized"
         => \/ c \in DOMAIN cmds /\ cmds[c].status = "authorized"
            \/ c \in Command /\ pc[c] = "authorize"

LEMMA RowsStay ==
  ASSUME LinesInv, UNCHANGED cmds
  PROVE  RowsAdvance
BY DEF LinesInv, LineTypes, OverIsClean, RowsAdvance

(* A function like a sequence of entries, of the same length.              *)
LEMMA SameLength ==
  ASSUME cmds \in Seq(Entry), NEW f \in [DOMAIN cmds -> Entry]
  PROVE  f \in Seq(Entry) /\ DOMAIN f = DOMAIN cmds
<1>1. DOMAIN cmds = 1..Len(cmds) /\ Len(cmds) \in Nat
  OBVIOUS
<1>2. QED
  BY <1>1

LEMMA RowEnds ==
  ASSUME LinesInv, NEW c \in Command,
         NEW status \in {"waiting", "password_required", "cancelled", "expired", "error", "authorized", "done"},
         status = "authorized" => pc[c] = "authorize",
         cmds' = Ended(c, status)
  PROVE  RowsAdvance
<1>1. cmds \in Seq(Entry) /\ DOMAIN cmds = 1..Len(cmds)
  BY DEF LinesInv, LineTypes
<1>2. CASE cmds' = cmds
  BY <1>2, RowsStay
<1>3. CASE cmds' # cmds
  <2>1. /\ cmds[c].status \in ActiveStatuses
        /\ cmds' = [cmds EXCEPT ![c].status = status, ![c].secret = FALSE]
    BY <1>3 DEF Ended
  <2>2. c \in DOMAIN cmds
    BY <1>1, <1>3, <2>1
  <2>3. \A d \in DOMAIN cmds : cmds[d] \in Entry
    BY <1>1
  <2>4. /\ cmds' \in [DOMAIN cmds -> Entry]
        /\ cmds'[c].status = status /\ cmds'[c].secret = FALSE
        /\ \A d \in DOMAIN cmds \ {c} : cmds'[d] = cmds[d]
    <3> DEFINE e == [cmds[c] EXCEPT !.status = status, !.secret = FALSE]
    <3>1. e \in Entry /\ e.status = status /\ e.secret = FALSE
      BY <2>2, <2>3 DEF Entry, ActiveStatuses
    <3>2. cmds' = [cmds EXCEPT ![c] = e]
      BY <2>1, <2>2, <2>3 DEF Entry
    <3> HIDE DEF e
    <3>3. cmds \in [DOMAIN cmds -> Entry]
      BY <1>1
    <3>4. QED
      BY <2>2, <3>1, <3>2, <3>3
  <2>5. cmds' \in Seq(Entry) /\ DOMAIN cmds' = DOMAIN cmds
    BY <1>1, <2>4, SameLength
  <2>6. QED
    BY <2>1, <2>2, <2>4, <2>5 DEF RowsAdvance, LinesInv, OverIsClean
<1>4. QED
  BY <1>2, <1>3

(* terminate_active_commands, alone and with a new row after it.           *)
LEMMA RowsTerminate ==
  ASSUME LinesInv, NEW status \in {"cancelled", "expired"}
  PROVE  /\ Terminated(status) \in Seq(Entry)
         /\ DOMAIN Terminated(status) = DOMAIN cmds
         /\ \A c \in DOMAIN cmds :
              /\ cmds[c].status \in ActiveStatuses =>
                   Terminated(status)[c].status = status /\ ~ Terminated(status)[c].secret
              /\ cmds[c].status \notin ActiveStatuses => Terminated(status)[c] = cmds[c]
<1>1. cmds \in Seq(Entry) /\ \A c \in DOMAIN cmds : cmds[c] \in Entry
  BY DEF LinesInv, LineTypes
<1>2. Terminated(status) \in [DOMAIN cmds -> Entry]
  BY <1>1 DEF Terminated, Entry, ActiveStatuses
<1>3. \A c \in DOMAIN cmds :
        /\ cmds[c].status \in ActiveStatuses =>
             Terminated(status)[c].status = status /\ ~ Terminated(status)[c].secret
        /\ cmds[c].status \notin ActiveStatuses => Terminated(status)[c] = cmds[c]
  BY <1>1 DEF Terminated, Entry
<1>4. QED
  BY <1>1, <1>2, <1>3, SameLength

LEMMA RowsCancelled ==
  ASSUME LinesInv, NEW status \in {"cancelled", "expired"}, cmds' = Terminated(status)
  PROVE  RowsAdvance
<1>1. status \notin ActiveStatuses /\ status # "authorized"
  BY DEF ActiveStatuses
<1>2. QED
  BY <1>1, RowsTerminate DEF RowsAdvance, LinesInv, OverIsClean

LEMMA RowAdded ==
  ASSUME LinesInv, NEW kind \in {"qr_login", "log_out"}, NewCommand(kind)
  PROVE  RowsAdvance
<1> DEFINE t == Terminated("cancelled")
           e == [kind |-> kind, status |-> "pending", secret |-> FALSE]
<1>1. /\ t \in Seq(Entry) /\ DOMAIN t = DOMAIN cmds
      /\ \A c \in DOMAIN cmds :
           /\ cmds[c].status \in ActiveStatuses => t[c].status = "cancelled" /\ ~ t[c].secret
           /\ cmds[c].status \notin ActiveStatuses => t[c] = cmds[c]
  BY RowsTerminate
<1>2. e \in Entry /\ e.status = "pending" /\ e.secret = FALSE
  BY DEF Entry, ActiveStatuses
<1>3. cmds' = Append(t, e)
  BY DEF NewCommand
<1> HIDE DEF t, e
<1>4. /\ cmds' \in Seq(Entry) /\ DOMAIN t = 1..Len(t) /\ DOMAIN cmds' = 1..(Len(t) + 1) /\ Len(t) \in Nat
      /\ cmds'[Len(t) + 1] = e
      /\ \A c \in 1..Len(t) : cmds'[c] = t[c]
  BY <1>1, <1>2, <1>3, AppendProperties
<1>5. \A c \in DOMAIN cmds' : (c \in DOMAIN cmds /\ cmds'[c] = t[c]) \/ cmds'[c] = e
  BY <1>1, <1>4
<1>6. \A c \in DOMAIN cmds : c \in DOMAIN cmds' /\ cmds'[c] = t[c]
  BY <1>1, <1>4
<1>7. "cancelled" \notin ActiveStatuses /\ "pending" \in ActiveStatuses
  BY DEF ActiveStatuses
<1>8. QED
  BY <1>1, <1>2, <1>4, <1>5, <1>6, <1>7 DEF RowsAdvance, LinesInv, OverIsClean

(* A password comes and goes only while one is asked for.                  *)
LEMMA SecretSet ==
  ASSUME LinesInv, NEW c \in Command, NEW b \in BOOLEAN,
         c \in DOMAIN cmds, cmds[c].status = "password_required",
         cmds' = [cmds EXCEPT ![c].secret = b]
  PROVE  RowsAdvance
<1>1. cmds \in Seq(Entry) /\ \A d \in DOMAIN cmds : cmds[d] \in Entry
  BY DEF LinesInv, LineTypes
<1>2. /\ cmds' \in [DOMAIN cmds -> Entry]
      /\ cmds'[c].status = cmds[c].status
      /\ \A d \in DOMAIN cmds \ {c} : cmds'[d] = cmds[d]
  BY <1>1 DEF Entry
<1>3. cmds' \in Seq(Entry) /\ DOMAIN cmds' = DOMAIN cmds
  BY <1>1, <1>2, SameLength
<1>4. QED
  BY <1>2, <1>3 DEF RowsAdvance, LinesInv, OverIsClean, ActiveStatuses

-----------------------------------------------------------------------------
(* Each step moves the rows in this way.                                   *)

(* The steps of the web process, of the sync worker and of a restart.      *)
LEMMA OthersAdvance ==
  ASSUME LinesInv,
         \/ (SyncStep \/ Tick) /\ UNCHANGED <<cmdVars, web, issued>>
         \/ Restart \/ SelfHeal \/ LoopEnds \/ Panel
         \/ WebPassword \/ WebScanned \/ WebEnds \/ SaveSession \/ SaveFails \/ WebDown
         \/ UNCHANGED lineVars
  PROVE  RowsAdvance
<1>1. CASE \/ (SyncStep \/ Tick) /\ UNCHANGED <<cmdVars, web, issued>>
           \/ WebPassword \/ WebScanned \/ WebEnds \/ SaveSession \/ SaveFails \/ WebDown
           \/ UNCHANGED lineVars
  BY <1>1, RowsStay DEF cmdVars, lineVars, WebPassword, WebScanned, WebEnds, SaveSession, SaveFails, WebDown
<1>2. CASE Restart \/ SelfHeal \/ LoopEnds
  BY <1>2, RowsStay, RowsCancelled DEF Restart, SelfHeal, LoopEnds, cmdVars
<1>3. CASE Connect \/ StartWeb \/ StartWebFails
  BY <1>3, RowsStay DEF Connect, StartWeb, StartWebFails, cmdVars
<1>4. CASE StartTg
  BY <1>4, RowAdded DEF StartTg
<1>5. CASE CancelConnect
  BY <1>5, RowsCancelled DEF CancelConnect
<1>6. CASE Unlink \/ DeleteLine
  <2>1. DropSession
    BY <1>6 DEF Unlink, DeleteLine
  <2>2. NewCommand("log_out") \/ UNCHANGED cmds
    BY <2>1 DEF DropSession, cmdVars
  <2>3. QED
    BY <2>2, RowAdded, RowsStay
<1>7. QED
  BY <1>1, <1>2, <1>3, <1>4, <1>5, <1>6 DEF Panel

(* The steps about one command.                                            *)
CommandStep(c) ==
  \/ SubmitPassword(c) \/ PollCommand(c) \/ Login(c) \/ TaskFails(c) \/ Sweep(c)
  \/ Scanned(c) \/ PasswordNeeded(c) \/ PasswordRight(c) \/ LogOutFails(c)

LEMMA CommandAdvances ==
  ASSUME LinesInv, NEW c \in Command, CommandStep(c)
  PROVE  RowsAdvance
<1>1. CASE PollCommand(c) \/ Load(c) \/ Activate(c) \/ LogOut(c) \/ Release(c) \/ Offline(c)
           \/ Scanned(c) \/ PasswordRight(c) \/ LogOutFails(c)
  BY <1>1, RowsStay DEF PollCommand, Load, Activate, LogOut, Release, Offline, Scanned, PasswordRight,
     SignedIn, LogOutFails
<1>2. CASE Begin(c) \/ ConnectClient(c)
  <2>1. cmds' = cmds \/ cmds' = Ended(c, "error") \/ cmds' = Ended(c, "waiting")
    BY <1>2 DEF Begin, ConnectClient, Finish
  <2>2. QED
    BY <2>1, RowsStay, RowEnds
<1>3. CASE WaitEnds(c) \/ NoPassword(c) \/ LoggedOut(c) \/ TaskFails(c) \/ Sweep(c) \/ PasswordNeeded(c)
  <2>1. \/ cmds' = cmds
        \/ \E st \in {"password_required", "cancelled", "expired", "error", "done"} : cmds' = Ended(c, st)
    BY <1>3 DEF WaitEnds, NoPassword, LoggedOut, TaskFails, Sweep, PasswordNeeded, Finish
  <2>2. QED
    BY <2>1, RowsStay, RowEnds
<1>4. CASE Authorize(c)
  <2>1. cmds' = Ended(c, "authorized") /\ pc[c] = "authorize"
    BY <1>4 DEF Authorize, Finish
  <2>2. QED
    BY <2>1, RowEnds
<1>5. CASE SubmitPassword(c)
  BY <1>5, SecretSet DEF SubmitPassword, TakesPassword
<1>6. CASE ReadPassword(c)
  <2>1. c \in DOMAIN cmds
    BY <1>6 DEF ReadPassword, LinesInv, TasksHaveRows
  <2>2. QED
    BY <1>6, <2>1, SecretSet DEF ReadPassword
<1>7. QED
  BY <1>1, <1>2, <1>3, <1>4, <1>5, <1>6 DEF CommandStep, Login

(* The cases of Next.                                                      *)
LEMMA StepCases ==
  ASSUME [Next]_lineVars
  PROVE  \/ (SyncStep \/ Tick) /\ UNCHANGED <<cmdVars, web, issued>>
         \/ Restart \/ SelfHeal \/ LoopEnds \/ Panel
         \/ WebPassword \/ WebScanned \/ WebEnds \/ SaveSession \/ SaveFails \/ WebDown
         \/ UNCHANGED lineVars
         \/ \E c \in Command : CommandStep(c)
BY DEF Next, CommandStep

LEMMA StepAdvances == ASSUME LinesInv, [Next]_lineVars PROVE RowsAdvance
BY StepCases, OthersAdvance, CommandAdvances

-----------------------------------------------------------------------------
(* Types, and what a task says of its row.                                 *)

LEMMA NoLineTyped == NoLine \in Row
BY DEF NoLine, Row

LEMMA PoolTyped ==
  NoProvider \in [cred : Nat, state : {"none", "up", "down", "dead"}]
BY DEF NoProvider

LEMMA SyncTypes ==
  ASSUME LinesInv, SyncStep \/ Tick, UNCHANGED <<cmdVars, web, issued>>
  PROVE  LineTypes' /\ TasksHaveRows'
<1>0. LineTypes
  BY DEF LinesInv
<1>1. TasksHaveRows'
  BY DEF LinesInv, TasksHaveRows, cmdVars
<1>2. CASE Tick \/ RegisterOk \/ RegisterRevoked \/ RegisterFails
  BY SMTT(30), <1>0, <1>1, <1>2 DEF LineTypes, PumpTask, Row, Tick, RegisterOk, RegisterRevoked, RegisterFails, StartForward,
     Credential, Fault, rowVars, poolVars, cmdVars
<1>3. CASE Inspect \/ InspectNothing \/ Stop
  <2>1. UNCHANGED <<channel, line, valid, opened, snap, faults, cmds, pc, busy, loop, activated, web, issued>>
    BY <1>3 DEF Inspect, InspectNothing, Stop, rowVars, cmdVars
  <2>2. streak' \in Nat
    BY <1>0, <1>3 DEF LineTypes, Inspect, InspectNothing, Stop, Count
  <2>3. /\ prov' \in [cred : Nat, state : {"none", "up", "down", "dead"}]
        /\ sync' \in {"idle", "register", "inspect", "stop", "down"}
    BY <1>0, <1>3, PoolTyped DEF LineTypes, Inspect, InspectNothing, Stop, Unregister, poolVars
  <2>4. fwd' \in PumpTask /\ boot' \in PumpTask
    BY <1>0, <1>3 DEF LineTypes, PumpTask, Inspect, InspectNothing, Stop, CancelForward, Unregister, Orphan, poolVars
  <2>5. QED
    BY <1>0, <1>1, <2>1, <2>2, <2>3, <2>4 DEF LineTypes
<1>4. CASE Drop \/ Reconnect \/ NoticeRevoked
  BY <1>0, <1>1, <1>4 DEF LineTypes, Drop, Reconnect, NoticeRevoked, Fault, rowVars, syncLocal, cmdVars
<1>5. CASE \E c \in valid : Revoke(c)
  BY <1>0, <1>1, <1>5 DEF LineTypes, Revoke, Fault, poolVars, syncLocal, cmdVars
<1>6. QED
  BY <1>1, <1>2, <1>3, <1>4, <1>5 DEF SyncStep

LEMMA RestartTypes ==
  ASSUME LinesInv, Restart \/ SelfHeal \/ LoopEnds, RowsAdvance
  PROVE  LineTypes' /\ TasksHaveRows'
<1>1. CASE BridgeDown /\ pc' = [c \in Command |-> "none"] /\ busy' = FALSE /\ loop' = "starting"
           /\ UNCHANGED <<cmds, activated, web, issued>>
  <2>1. pc' \in [Command -> Labels] /\ \A c \in Command : pc'[c] = "none"
    BY <1>1 DEF Labels
  <2>2. LineTypes'
    <3>1. /\ UNCHANGED <<channel, line, valid, opened, cmds, activated, web, issued>>
          /\ prov' = NoProvider /\ fwd' = "none" /\ boot' = "none" /\ sync' = "down" /\ snap' = NoLine
          /\ streak' = 0 /\ faults' = faults + 1 /\ busy' = FALSE /\ loop' = "starting"
      BY <1>1 DEF BridgeDown, Fault, rowVars
    <3>2. QED
      <4>1. /\ prov' \in [cred : Nat, state : {"none", "up", "down", "dead"}] /\ snap' \in Row
            /\ fwd' \in PumpTask /\ boot' \in PumpTask
        BY <3>1, NoLineTyped, PoolTyped DEF PumpTask
      <4>2. streak' \in Nat /\ faults' \in Nat
        BY <3>1 DEF LinesInv, LineTypes
      <4>3. QED
        BY <2>1, <3>1, <4>1, <4>2 DEF LinesInv, LineTypes
  <2>3. TasksHaveRows'
    BY <2>1 DEF TasksHaveRows
  <2>4. QED
    BY <2>2, <2>3
<1>2. CASE BridgeUp /\ UNCHANGED <<cmdVars, web, issued>>
  <2>1. line.cred \in Nat
    BY DEF LinesInv, LineTypes, Row
  <2>2. LineTypes'
    BY <1>2, <2>1 DEF LinesInv, LineTypes, PumpTask, BridgeUp, rowVars, cmdVars, RowsAdvance
  <2>3. TasksHaveRows'
    BY <1>2 DEF LinesInv, TasksHaveRows, RowsAdvance, cmdVars
  <2>4. QED
    BY <2>2, <2>3
<1>3. CASE SelfHeal \/ LoopEnds
  <2>1. /\ UNCHANGED <<rowVars, poolVars, syncLocal, pc, busy, activated, web, issued>>
        /\ loop' \in {"running", "ended"} /\ (faults' = faults \/ faults' = faults + 1)
    BY <1>3 DEF SelfHeal, LoopEnds, accountVars, Fault
  <2>2. faults' \in Nat
    BY <2>1 DEF LinesInv, LineTypes
  <2>3. LineTypes'
    BY <2>1, <2>2 DEF LinesInv, LineTypes, rowVars, poolVars, syncLocal, RowsAdvance
  <2>4. TasksHaveRows'
    BY <2>1 DEF LinesInv, TasksHaveRows, RowsAdvance
  <2>5. QED
    BY <2>3, <2>4
<1>4. QED
  BY <1>1, <1>2, <1>3 DEF Restart

LEMMA RowChanged ==
  ASSUME NEW r \in Row, NEW n \in Nat
  PROVE  /\ [r EXCEPT !.status = "offline", !.cred = n] \in Row
         /\ [r EXCEPT !.removed = TRUE, !.cred = n] \in Row
BY DEF Row

LEMMA PanelTypes ==
  ASSUME LinesInv, RowsAdvance,
         Panel \/ WebPassword \/ WebScanned \/ WebEnds \/ SaveSession \/ SaveFails \/ WebDown \/ UNCHANGED lineVars
  PROVE  LineTypes' /\ TasksHaveRows'
<1> USE DEF LinesInv, LineTypes, RowsAdvance, rowVars, poolVars, syncLocal, accountVars, cmdVars
<1>1. UNCHANGED <<pc, busy, loop, activated>>
  BY DEF Panel, Connect, StartTg, StartWeb, StartWebFails, CancelConnect, Unlink, DeleteLine, DropSession,
     NewCommand, WebPassword, WebScanned, WebEnds, SaveSession, SaveFails, WebDown, lineVars
<1>2. TasksHaveRows'
  BY <1>1 DEF TasksHaveRows
<1>3. CASE Connect \/ StartTg \/ StartWeb \/ StartWebFails \/ CancelConnect
  <2>1. UNCHANGED <<channel, line, opened, prov, fwd, boot, sync, snap, streak>>
    BY <1>3 DEF Connect, StartTg, StartWeb, StartWebFails, CancelConnect
  <2>2. valid' \subseteq Nat /\ faults' \in Nat
    <3>1. valid' = valid \/ valid' = valid \ {web.sess}
      BY <1>3 DEF Connect, StartTg, StartWeb, StartWebFails, CancelConnect
    <3>2. faults' = faults \/ faults' = faults + 1
      BY <1>3 DEF Connect, StartTg, StartWeb, StartWebFails, CancelConnect, Fault
    <3>3. valid' \subseteq Nat
      BY <3>1
    <3>4. QED
      BY <3>2, <3>3
  <2>3. web' = web \/ web' = NoLogin \/ web' = [st |-> "waiting", sess |-> 0]
    BY <1>3 DEF Connect, StartTg, StartWeb, StartWebFails, CancelConnect
  <2>4. issued' \in BOOLEAN
    BY <1>3 DEF Connect, StartTg, StartWeb, StartWebFails, CancelConnect
  <2>5. QED
    BY <1>1, <1>2, <2>1, <2>2, <2>3, <2>4 DEF NoLogin
<1>4. CASE Unlink \/ DeleteLine
  <2>1. valid' \subseteq Nat
    BY <1>4 DEF Unlink, DeleteLine, DropSession
  <2>2. line' \in Row
    <3>1. line \in Row
      OBVIOUS
    <3>2. \/ line' = line
          \/ line' = [line EXCEPT !.status = "offline", !.cred = 0]
          \/ line' = [line EXCEPT !.removed = TRUE, !.cred = line.cred]
          \/ line' = [line EXCEPT !.removed = TRUE, !.cred = 0]
      BY <1>4, <3>1 DEF Unlink, DeleteLine, Row
    <3>3. QED
      <4>1. line.cred \in Nat
        BY <3>1 DEF Row
      <4>2. /\ [line EXCEPT !.status = "offline", !.cred = 0] \in Row
            /\ [line EXCEPT !.removed = TRUE, !.cred = line.cred] \in Row
            /\ [line EXCEPT !.removed = TRUE, !.cred = 0] \in Row
        BY <3>1, <4>1, RowChanged
      <4>3. QED
        BY <3>1, <3>2, <4>2
  <2>3. QED
    BY <1>1, <1>2, <1>4, <2>1, <2>2 DEF Unlink, DeleteLine
<1>5. CASE WebPassword \/ WebScanned \/ WebEnds
  BY <1>1, <1>2, <1>5 DEF WebPassword, WebScanned, WebEnds, WebStep, NewSession
<1>6. CASE SaveSession \/ SaveFails \/ WebDown
  <2>1. UNCHANGED <<channel, valid, opened, prov, fwd, boot, sync, snap, streak>>
    BY <1>6 DEF SaveSession, SaveFails, WebDown
  <2>2. line' \in Row
    BY <1>6 DEF SaveSession, SaveFails, WebDown, Row
  <2>3. faults' \in Nat
    <3>1. faults' = faults \/ faults' = faults + 1
      BY <1>6 DEF SaveSession, SaveFails, WebDown, Fault
    <3>2. QED
      BY <3>1
  <2>4. issued' \in BOOLEAN
    BY <1>6 DEF SaveSession, SaveFails, WebDown
  <2>5. web' \in [st : {"none", "waiting", "password", "saving", "authorized", "expired", "error"}, sess : Nat]
    BY <1>6 DEF SaveSession, SaveFails, WebDown, WebStep, NoLogin
  <2>6. QED
    BY <1>1, <1>2, <2>1, <2>2, <2>3, <2>4, <2>5
<1>7. CASE UNCHANGED lineVars
  BY <1>2, <1>7 DEF lineVars
<1>8. QED
  BY <1>2, <1>3, <1>4, <1>5, <1>6, <1>7 DEF Panel

LEMMA CommandTypes ==
  ASSUME LinesInv, RowsAdvance, NEW c \in Command, CommandStep(c)
  PROVE  LineTypes' /\ TasksHaveRows'
<1> USE DEF RowsAdvance, rowVars, poolVars, syncLocal, accountVars
<1>1. /\ line \in Row /\ valid \subseteq Nat /\ opened \in Nat /\ faults \in Nat
      /\ pc \in [Command -> Labels] /\ activated \subseteq Command
      /\ prov \in [cred : Nat, state : {"none", "up", "down", "dead"}]
  BY DEF LinesInv, LineTypes
<1>2. /\ pc' \in [Command -> Labels]
      /\ \A d \in Command \ {c} : pc'[d] = pc[d]
  BY <1>1 DEF CommandStep, Login, Labels, Goto, Finish, SubmitPassword, PollCommand, Load, Begin, ConnectClient,
     WaitEnds, ReadPassword, NoPassword, Activate, Authorize, LogOut, Release, Offline, LoggedOut, TaskFails, Sweep,
     Scanned, PasswordNeeded, PasswordRight, SignedIn, LogOutFails
<1>3. busy' \in BOOLEAN /\ activated \subseteq activated' /\ activated' \subseteq Command
  BY <1>1 DEF LinesInv, LineTypes, CommandStep, Login, Finish, SubmitPassword, PollCommand, Load, Begin, ConnectClient,
     WaitEnds, ReadPassword, NoPassword, Activate, Authorize, LogOut, Release, Offline, LoggedOut, TaskFails, Sweep,
     Scanned, PasswordNeeded, PasswordRight, SignedIn, LogOutFails
<1>4. UNCHANGED <<channel, loop, web, issued, snap, streak, sync>>
  BY DEF CommandStep, Login, SubmitPassword, PollCommand, Load, Begin, ConnectClient,
     WaitEnds, ReadPassword, NoPassword, Activate, Authorize, LogOut, Release, Offline, LoggedOut, TaskFails, Sweep,
     Scanned, PasswordNeeded, PasswordRight, SignedIn, LogOutFails
<1>5. line' \in Row /\ opened' \in Nat /\ valid' \subseteq Nat /\ faults' \in Nat
  BY <1>1 DEF Row, CommandStep, Login, SubmitPassword, PollCommand, Load, Begin, ConnectClient,
     WaitEnds, ReadPassword, NoPassword, Activate, Authorize, LogOut, Release, Offline, LoggedOut, TaskFails, Sweep,
     Scanned, PasswordNeeded, PasswordRight, SignedIn, LogOutFails, NewSession, Fault
<1>6. /\ prov' \in [cred : Nat, state : {"none", "up", "down", "dead"}]
      /\ fwd' \in PumpTask /\ boot' \in PumpTask
  BY <1>1, PoolTyped DEF LinesInv, LineTypes, PumpTask, CommandStep, Login, SubmitPassword, PollCommand, Load, Begin,
     ConnectClient, WaitEnds, ReadPassword, NoPassword, Activate, Authorize, LogOut, Release, Offline, LoggedOut,
     TaskFails, Sweep, Scanned, PasswordNeeded, PasswordRight, SignedIn, LogOutFails, CancelForward, Unregister, Orphan
<1>7. LineTypes'
  BY <1>2, <1>3, <1>4, <1>5, <1>6 DEF LinesInv, LineTypes
<1>8. pc'[c] # "none" => c \in DOMAIN cmds'
  <2>1. CASE pc[c] # "none"
    BY <2>1 DEF LinesInv, TasksHaveRows
  <2>2. CASE pc[c] = "none"
    <3>1. PollCommand(c) \/ pc' = pc
      BY <2>2 DEF CommandStep, Login, SubmitPassword, Load, Begin, ConnectClient,
         WaitEnds, ReadPassword, NoPassword, Activate, Authorize, LogOut, Release, Offline, LoggedOut, TaskFails, Sweep,
         Scanned, PasswordNeeded, PasswordRight, LogOutFails
    <3>2. QED
      BY <2>2, <3>1 DEF PollCommand
  <2>3. QED
    BY <2>1, <2>2
<1>9. pc'[c] = "authorize" => c \in activated'
  <2>1. CASE Activate(c)
    BY <2>1 DEF Activate
  <2>2. CASE ~ Activate(c)
    <3>1. pc'[c] = "authorize" => pc[c] = "authorize"
      BY <1>1, <2>2 DEF CommandStep, Login, Labels, Goto, Finish, SubmitPassword, PollCommand, Load, Begin,
         ConnectClient, WaitEnds, ReadPassword, NoPassword, Authorize, LogOut, Release, Offline, LoggedOut, TaskFails,
         Sweep, Scanned, PasswordNeeded, PasswordRight, SignedIn, LogOutFails
    <3>2. QED
      BY <1>3, <3>1 DEF LinesInv, TasksHaveRows
  <2>3. QED
    BY <2>1, <2>2
<1>10. TasksHaveRows'
  BY <1>2, <1>3, <1>8, <1>9 DEF LinesInv, TasksHaveRows
<1>11. QED
  BY <1>7, <1>10

-----------------------------------------------------------------------------
(* The pumps and the pool.                                                 *)

(* What happens beside the pool: no provider comes or goes, the sync       *)
(* worker stays where it is and no log_out enters or leaves the release of *)
(* the provider.                                                           *)
Beside ==
  /\ UNCHANGED <<fwd, boot, sync>>
  /\ prov' = NoProvider <=> prov = NoProvider
  /\ Releasing' = Releasing

LEMMA BesideKeeps == ASSUME LinesInv, Beside PROVE PumpsFollowPool' /\ PooledHasPump'
BY DEF LinesInv, PumpsFollowPool, PooledHasPump, Beside

(* A provider with a state of its own is none.                             *)
LEMMA StateTells ==
  ASSUME LinesInv, NEW st \in {"up", "down", "dead"}
  PROVE  [prov EXCEPT !.state = st] # NoProvider
<1>1. prov \in [cred : Nat, state : {"none", "up", "down", "dead"}]
  BY DEF LinesInv, LineTypes
<1>2. [prov EXCEPT !.state = st].state = st
  BY <1>1
<1>3. NoProvider.state = "none"
  BY DEF NoProvider
<1>4. QED
  BY <1>2, <1>3

LEMMA SyncPumps ==
  ASSUME LinesInv, SyncStep \/ (Tick /\ ~ Releasing), UNCHANGED <<cmdVars, web, issued>>
  PROVE  PumpsFollowPool' /\ PooledHasPump'
<1>1. Releasing' = Releasing
  BY DEF cmdVars, Releasing
<1>2. PumpsFollowPool /\ PooledHasPump
  BY DEF LinesInv
<1>3. fwd \in PumpTask /\ boot \in PumpTask
  BY DEF LinesInv, LineTypes
<1>4. CASE Tick /\ ~ Releasing
  BY <1>1, <1>2, <1>4 DEF Tick, poolVars, PumpsFollowPool, PooledHasPump
<1>5. CASE RegisterOk
  <2>1. prov' # NoProvider
    <3>1. prov'.state = "up" /\ NoProvider.state = "none"
      BY <1>5 DEF RegisterOk, NoProvider
    <3>2. QED
      BY <3>1
  <2>2. prov = NoProvider /\ fwd = "none" /\ boot # "live" /\ ~ Releasing
    BY <1>2, <1>5 DEF RegisterOk, PumpsFollowPool
  <2>3. fwd' = "live" /\ boot' = boot /\ sync' = "inspect"
    BY <1>5, <2>2 DEF RegisterOk, StartForward
  <2>4. QED
    BY <1>1, <2>1, <2>2, <2>3 DEF PumpsFollowPool, PooledHasPump
<1>6. CASE RegisterRevoked \/ RegisterFails
  BY <1>1, <1>2, <1>6 DEF RegisterRevoked, RegisterFails, poolVars, PumpsFollowPool, PooledHasPump
<1>7. CASE Inspect \/ InspectNothing
  BY <1>1, <1>2, <1>7 DEF Inspect, InspectNothing, CancelForward, poolVars, PumpsFollowPool, PooledHasPump
<1>8. CASE Stop
  BY <1>1, <1>2, <1>8 DEF Stop, Unregister, Orphan, PumpsFollowPool, PooledHasPump
<1>9. CASE Drop \/ Reconnect \/ NoticeRevoked
  <2>1. /\ prov.state # "none"
        /\ \E st \in {"up", "down", "dead"} : prov' = [prov EXCEPT !.state = st]
        /\ UNCHANGED <<fwd, boot, sync>>
    BY <1>9 DEF Drop, Reconnect, NoticeRevoked, syncLocal
  <2>2. prov # NoProvider /\ prov' # NoProvider
    BY <2>1, StateTells DEF NoProvider
  <2>3. QED
    BY <1>1, <2>1, <2>2, BesideKeeps DEF Beside
<1>10. CASE \E c \in valid : Revoke(c)
  BY <1>1, <1>10, BesideKeeps DEF Revoke, poolVars, syncLocal, Beside
<1>11. QED
  BY <1>4, <1>5, <1>6, <1>7, <1>8, <1>9, <1>10 DEF SyncStep

LEMMA RestartPumps ==
  ASSUME LinesInv, Restart \/ SelfHeal \/ LoopEnds
  PROVE  PumpsFollowPool' /\ PooledHasPump'
<1>1. CASE BridgeDown /\ pc' = [c \in Command |-> "none"]
  <2>1. prov' = NoProvider /\ fwd' = "none" /\ boot' = "none" /\ sync' = "down" /\ ~ Releasing'
    BY <1>1 DEF BridgeDown, Releasing
  <2>2. QED
    BY <2>1 DEF PumpsFollowPool, PooledHasPump
<1>2. CASE BridgeUp /\ pc' = pc
  <2>1. Releasing' = Releasing
    BY <1>2 DEF Releasing
  <2>2. prov = NoProvider /\ fwd = "none" /\ boot # "live" /\ fwd' = "none" /\ sync' = "idle"
    BY <1>2 DEF BridgeUp, LinesInv, PumpsFollowPool
  <2>3. CASE UNCHANGED <<prov, boot>>
    BY <2>1, <2>2, <2>3 DEF PumpsFollowPool, PooledHasPump
  <2>4. CASE prov' = [cred |-> line.cred, state |-> "up"] /\ boot' = "live"
    <3>1. prov'.state = "up" /\ NoProvider.state = "none"
      BY <2>4 DEF NoProvider
    <3>2. QED
      BY <2>1, <2>2, <2>4, <3>1 DEF PumpsFollowPool, PooledHasPump
  <2>5. QED
    BY <1>2, <2>3, <2>4 DEF BridgeUp
<1>3. CASE SelfHeal \/ LoopEnds
  BY <1>3, BesideKeeps DEF SelfHeal, LoopEnds, accountVars, poolVars, syncLocal, Beside, Releasing
<1>4. QED
  BY <1>1, <1>2, <1>3 DEF Restart, cmdVars

LEMMA PanelPumps ==
  ASSUME LinesInv,
         Panel \/ WebPassword \/ WebScanned \/ WebEnds \/ SaveSession \/ SaveFails \/ WebDown \/ UNCHANGED lineVars
  PROVE  PumpsFollowPool' /\ PooledHasPump'
<1>1. UNCHANGED <<prov, fwd, boot, sync, pc>>
  BY DEF Panel, Connect, StartTg, StartWeb, StartWebFails, CancelConnect, Unlink, DeleteLine, DropSession,
     NewCommand, WebPassword, WebScanned, WebEnds, SaveSession, SaveFails, WebDown, lineVars,
     accountVars, poolVars, syncLocal, cmdVars
<1>2. QED
  BY <1>1, BesideKeeps DEF Beside, Releasing

LEMMA CommandPumps ==
  ASSUME LinesInv, NEW c \in Command, CommandStep(c)
  PROVE  PumpsFollowPool' /\ PooledHasPump'
<1>1. pc \in [Command -> Labels] /\ PumpsFollowPool /\ PooledHasPump
  BY DEF LinesInv, LineTypes
<1>2. CASE LogOut(c) /\ prov # NoProvider
  <2>1. Releasing'
    BY <1>1, <1>2 DEF LogOut, Goto, Releasing
  <2>2. prov' # NoProvider /\ fwd' = "none" /\ UNCHANGED <<boot, sync>>
    BY <1>2, StateTells DEF LogOut, CancelForward, syncLocal
  <2>3. QED
    BY <1>1, <1>2, <2>1, <2>2 DEF PumpsFollowPool, PooledHasPump
<1>3. CASE LogOutFails(c)
  <2>1. Releasing'
    BY <1>1, <1>3 DEF LogOutFails, Goto, Releasing
  <2>2. prov # NoProvider /\ fwd' = "none" /\ UNCHANGED <<prov, boot, sync>>
    BY <1>3 DEF LogOutFails, CancelForward, syncLocal
  <2>3. QED
    BY <1>1, <2>1, <2>2 DEF PumpsFollowPool, PooledHasPump
<1>4. CASE Release(c)
  <2>1. Releasing
    BY <1>4 DEF Release, Releasing
  <2>2. fwd = "none" /\ sync # "register"
    BY <1>1, <2>1 DEF PumpsFollowPool
  <2>3. prov' = NoProvider /\ fwd' = "none" /\ boot' # "live" /\ sync' = sync
    BY <1>4, <2>2 DEF Release, Unregister, Orphan, syncLocal
  <2>4. QED
    BY <2>2, <2>3 DEF PumpsFollowPool, PooledHasPump
<1>5. CASE ~ Release(c) /\ ~ LogOutFails(c) /\ ~ (LogOut(c) /\ prov # NoProvider)
  <2>1. UNCHANGED <<prov, fwd, boot, sync>>
    BY <1>5 DEF CommandStep, Login, SubmitPassword, PollCommand, Load, Begin, ConnectClient,
       WaitEnds, ReadPassword, NoPassword, Activate, Authorize, LogOut, Offline, LoggedOut, TaskFails, Sweep,
       Scanned, PasswordNeeded, PasswordRight, SignedIn, accountVars, rowVars, poolVars, syncLocal
  <2>2. pc' = pc \/ (pc[c] # "release" /\ \E l \in Labels \ {"release"} : pc' = [pc EXCEPT ![c] = l])
    BY <1>5 DEF CommandStep, Login, Labels, Goto, Finish, SubmitPassword, PollCommand, Load, Begin, ConnectClient,
       WaitEnds, ReadPassword, NoPassword, Activate, Authorize, LogOut, Offline, LoggedOut, TaskFails, Sweep,
       Scanned, PasswordNeeded, PasswordRight, SignedIn
  <2>3. Releasing' = Releasing
    BY <1>1, <2>2 DEF Releasing
  <2>4. QED
    BY <2>1, <2>3, BesideKeeps DEF Beside
<1>6. QED
  BY <1>2, <1>3, <1>4, <1>5

-----------------------------------------------------------------------------
(* The invariant, and what follows from it.                                *)

LEMMA InitInvariant == LinesInit => LinesInv
<1> SUFFICES ASSUME LinesInit PROVE LinesInv
  OBVIOUS
<1>1. /\ channel \in Channels /\ line = NoLine /\ valid = {} /\ opened = 0 /\ prov = NoProvider
      /\ fwd = "none" /\ boot = "none" /\ sync = "idle" /\ snap = NoLine /\ streak = 0 /\ faults = 0
      /\ cmds = <<>> /\ pc = [c \in Command |-> "none"] /\ busy = FALSE
      /\ loop = "starting" /\ web = NoLogin /\ issued = FALSE /\ activated = {}
  BY DEF LinesInit, SyncInit
<1>2. pc \in [Command -> Labels] /\ cmds \in Seq(Entry)
  BY <1>1 DEF Labels
<1>3. web \in [st : {"none", "waiting", "password", "saving", "authorized", "expired", "error"}, sess : Nat]
  BY <1>1 DEF NoLogin
<1>4. LineTypes
  BY <1>1, <1>2, <1>3, NoLineTyped, PoolTyped DEF LineTypes, PumpTask
<1>5. TasksHaveRows /\ OverIsClean
  BY <1>1 DEF TasksHaveRows, OverIsClean
<1>6. ~ Releasing
  BY <1>1 DEF Releasing
<1>7. PumpsFollowPool /\ PooledHasPump
  BY <1>1, <1>6 DEF PumpsFollowPool, PooledHasPump
<1>8. QED
  BY <1>4, <1>5, <1>7 DEF LinesInv

LEMMA NextInvariant == LinesInv /\ [Next]_lineVars => LinesInv'
<1> SUFFICES ASSUME LinesInv, [Next]_lineVars PROVE LinesInv'
  OBVIOUS
<1>1. RowsAdvance
  BY StepAdvances
<1>2. \/ (SyncStep \/ (Tick /\ ~ Releasing)) /\ UNCHANGED <<cmdVars, web, issued>>
      \/ Restart \/ SelfHeal \/ LoopEnds \/ Panel
      \/ WebPassword \/ WebScanned \/ WebEnds \/ SaveSession \/ SaveFails \/ WebDown
      \/ UNCHANGED lineVars
      \/ \E c \in Command : CommandStep(c)
  BY DEF Next, CommandStep
<1>3. LineTypes' /\ TasksHaveRows'
  BY <1>1, <1>2, SyncTypes, RestartTypes, PanelTypes, CommandTypes
<1>4. PumpsFollowPool' /\ PooledHasPump'
  BY <1>2, SyncPumps, RestartPumps, PanelPumps, CommandPumps
<1>5. activated \subseteq activated'
  BY <1>2 DEF Restart, SelfHeal, LoopEnds, Panel, Connect, StartTg, StartWeb, StartWebFails, CancelConnect, Unlink, DeleteLine,
     DropSession, NewCommand, WebPassword, WebScanned, WebEnds, SaveSession, SaveFails, WebDown, lineVars, cmdVars,
     CommandStep, Login, SubmitPassword, PollCommand, Load, Begin, ConnectClient, WaitEnds, ReadPassword, NoPassword,
     Activate, Authorize, LogOut, Release, Offline, LoggedOut, TaskFails, Sweep, Scanned, PasswordNeeded,
     PasswordRight, SignedIn, LogOutFails
<1>6. OverIsClean'
  BY <1>1, <1>5 DEF LinesInv, OverIsClean, TasksHaveRows, RowsAdvance
<1>7. QED
  BY <1>3, <1>4, <1>6 DEF LinesInv

(* The inductive invariant of a line's logins, its sync worker and its     *)
(* pumps: login_worker.py, account_sync.py, bootstrap.py and the panel.    *)
THEOREM LinesInvariant == Spec => []LinesInv
<1>1. QED
  BY InitInvariant, NextInvariant, PTL DEF Spec

(* A provider in the pool is read by exactly one pump, however drops,      *)
(* revocations, logouts, restarts and ticks of the sync worker interleave. *)
THEOREM OnePumpEach == Spec => []PooledHasPump
<1>1. LinesInv => PooledHasPump
  BY DEF LinesInv
<1>2. QED
  BY <1>1, LinesInvariant, PTL

(* A login command that is over holds no password, and is "authorized"     *)
(* only when its task has activated the line.                              *)
THEOREM CommandsEndClean == Spec => []OverIsClean
<1>1. LinesInv => OverIsClean
  BY DEF LinesInv
<1>2. QED
  BY <1>1, LinesInvariant, PTL

(* No step of the login worker, of the panel, of the sweep or of a restart *)
(* changes the status of a command that is over.                           *)
THEOREM OverStaysOver == Spec => TerminalIsFinal
<1>1. LinesInv /\ [Next]_lineVars
        => [\A c \in DOMAIN cmds :
              cmds[c].status \notin ActiveStatuses => cmds'[c].status = cmds[c].status]_lineVars
  BY StepAdvances DEF RowsAdvance
<1>2. QED
  BY <1>1, LinesInvariant, PTL DEF Spec, TerminalIsFinal
=============================================================================
