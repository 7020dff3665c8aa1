---------------------------- MODULE TokenRefresh ----------------------------
(***************************************************************************)
(* The OAuth token of the portal (b24/token_manager.py).  Bitrix24 rotates *)
(* the refresh token at each refresh, so a refresh whose result is not     *)
(* saved, or two refreshes with the same token, cut the application off.   *)
(* Each TokenManager holds a lock over reload, HTTP request and save; the  *)
(* bridge has one manager, the web process builds one for each request.    *)
(*                                                                         *)
(* A step of a task is what runs between two awaits of get_token.          *)
(***************************************************************************)
EXTENDS Naturals

CONSTANTS
  Task,           (* callers of get_token                                  *)
  Manager,        (* TokenManager instances                                *)
  ManagerOf,      (* the instance a task uses                              *)
  Portal,         (* member_id values                                      *)
  NoTask,         (* "the lock is free"                                    *)
  MaxIssued,      (* bound on tokens the OAuth server issues               *)
  MaxFaults       (* bound on lost answers, failed commits and crashes     *)

ASSUME TokenAssumption ==
  /\ ManagerOf \in [Task -> Manager]
  /\ NoTask \notin Task
  /\ MaxIssued \in Nat \ {0} /\ MaxFaults \in Nat

VARIABLES
  rows,           (* portals with a row in b24_tokens                      *)
  stored,         (* refresh_token of each portal's row                    *)
  due,            (* rows that expire within REFRESH_MARGIN                *)
  lock,           (* _refresh_lock: its holder, per manager                *)
  pc,             (* where a task's get_token stands                       *)
  portal,         (* the row a task works on                               *)
  token,          (* the refresh token it sends, then the one it received  *)
  valid,          (* OAuth server: the refresh token it accepts            *)
  issued,         (* tokens issued so far                                  *)
  lost,           (* portals whose rotation was lost to a fault            *)
  faults

tokenVars == <<rows, stored, due, lock, pc, portal, token, valid, issued, lost, faults>>
dbVars    == <<rows, stored, due>>
taskVars  == <<lock, pc, portal, token>>
servVars  == <<valid, issued>>
histVars  == <<lost, faults>>

(* The application is installed on one portal.                             *)
TokenInit ==
  \E p \in Portal :
    /\ rows = {p}
    /\ stored = [q \in Portal |-> IF q = p THEN 1 ELSE 0]
    /\ valid = stored
    /\ due = {}
    /\ lock = [m \in Manager |-> NoTask]
    /\ pc = [t \in Task |-> "idle"]
    /\ portal = [t \in Task |-> p]
    /\ token = [t \in Task |-> 0]
    /\ issued = 1
    /\ lost = {} /\ faults = 0

(* An access token comes within five minutes of its end.                   *)
Expire(p) ==
  /\ p \in rows \ due
  /\ due' = due \union {p}
  /\ UNCHANGED <<rows, stored, taskVars, servVars, histVars>>

-----------------------------------------------------------------------------
(* get_token.                                                              *)

Goto(t, label) == pc' = [pc EXCEPT ![t] = label]

(* The first read; a token that is not due is returned at once.  There is  *)
(* a row from the installation on; _load_from_db takes any row.            *)
Ask(t) ==
  /\ pc[t] = "idle"
  /\ rows \intersect due # {}
  /\ Goto(t, "wait")
  /\ UNCHANGED <<dbVars, lock, portal, token, servVars, histVars>>

(* Mutant: the lock is not taken.                                          *)
LockFree(t) ==
  /\ pc[t] = "wait"
  /\ Goto(t, "locked")
  /\ UNCHANGED <<dbVars, lock, portal, token, servVars, histVars>>

Lock(t) ==
  /\ pc[t] = "wait" /\ lock[ManagerOf[t]] = NoTask
  /\ lock' = [lock EXCEPT ![ManagerOf[t]] = t]
  /\ Goto(t, "locked")
  /\ UNCHANGED <<dbVars, portal, token, servVars, histVars>>

Unlock(t) == lock' = [m \in Manager |-> IF lock[m] = t THEN NoTask ELSE lock[m]]

(* The read under the lock: refresh only if the token is still due.        *)
Reload(t) ==
  /\ pc[t] = "locked"
  /\ \/ /\ \E p \in rows : p \notin due
        /\ Goto(t, "idle")
        /\ Unlock(t)
        /\ UNCHANGED <<portal, token>>
     \/ \E p \in rows \intersect due :
          /\ portal' = [portal EXCEPT ![t] = p]
          /\ token' = [token EXCEPT ![t] = stored[p]]
          /\ Goto(t, "request")
          /\ UNCHANGED lock
  /\ UNCHANGED <<dbVars, servVars, histVars>>

(* The OAuth server rotates the token it accepts; the answer comes back.   *)
Rotate(p) ==
  /\ issued < MaxIssued
  /\ issued' = issued + 1
  /\ valid' = [valid EXCEPT ![p] = issued + 1]

Refresh(t) ==
  /\ pc[t] = "request"
  /\ token[t] = valid[portal[t]]
  /\ Rotate(portal[t])
  /\ token' = [token EXCEPT ![t] = issued + 1]
  /\ Goto(t, "save")
  /\ UNCHANGED <<dbVars, lock, portal, histVars>>

(* Mutant: an exception leaves the lock held.                              *)
RefusedLocked(t) ==
  /\ pc[t] = "request"
  /\ Goto(t, "idle")
  /\ UNCHANGED <<dbVars, lock, portal, token, servVars, histVars>>

(* The server refuses the token, or cannot be reached (raise_for_status,   *)
(* httpx error): nothing is rotated, the exception leaves get_token.       *)
Refused(t) ==
  /\ pc[t] = "request"
  /\ Goto(t, "idle")
  /\ Unlock(t)
  /\ UNCHANGED <<dbVars, portal, token, servVars, histVars>>

(* Rotated at the server, but the answer does not arrive.                  *)
AnswerLost(t) ==
  /\ pc[t] = "request"
  /\ token[t] = valid[portal[t]]
  /\ faults < MaxFaults /\ faults' = faults + 1
  /\ Rotate(portal[t])
  /\ lost' = lost \union {portal[t]}
  /\ Goto(t, "idle")
  /\ Unlock(t)
  /\ UNCHANGED <<dbVars, portal, token>>

(* _upsert by member_id: the row is created if it is not there (any more). *)
Store(p, r) ==
  /\ rows' = rows \union {p}
  /\ stored' = [stored EXCEPT ![p] = r]
  /\ due' = due \ {p}

(* Mutant: only the access token is stored.                                *)
SaveAccessOnly(t) ==
  /\ pc[t] = "save"
  /\ due' = due \ {portal[t]}
  /\ Goto(t, "idle")
  /\ Unlock(t)
  /\ UNCHANGED <<rows, stored, portal, token, servVars, histVars>>

Save(t) ==
  /\ pc[t] = "save"
  /\ Store(portal[t], token[t])
  /\ Goto(t, "idle")
  /\ Unlock(t)
  /\ UNCHANGED <<portal, token, servVars, histVars>>

SaveFails(t) ==
  /\ pc[t] = "save"
  /\ faults < MaxFaults /\ faults' = faults + 1
  /\ lost' = lost \union {portal[t]}
  /\ Goto(t, "idle")
  /\ Unlock(t)
  /\ UNCHANGED <<dbVars, portal, token, servVars>>

(* The process of a manager dies: its tasks and its lock are gone.         *)
Crash(m) ==
  /\ faults < MaxFaults /\ faults' = faults + 1
  /\ lost' = lost \union {portal[t] : t \in {u \in Task : ManagerOf[u] = m /\ pc[u] = "save"}}
  /\ pc' = [t \in Task |-> IF ManagerOf[t] = m THEN "idle" ELSE pc[t]]
  /\ lock' = [lock EXCEPT ![m] = NoTask]
  /\ UNCHANGED <<dbVars, portal, token, servVars>>

(* ONAPPINSTALL: the portal hands out a new token pair; rows of other      *)
(* portals are deleted, this one is upserted.  No lock is taken: a refresh *)
(* under way may save what it has fetched over the new token.              *)
Install(p) ==
  /\ Rotate(p)
  /\ rows' = {p}
  /\ stored' = [stored EXCEPT ![p] = issued + 1]
  /\ due' = {}
  /\ lost' = IF \E t \in Task : pc[t] \in {"request", "save"} THEN lost \union {p} ELSE lost \ {p}
  /\ UNCHANGED <<taskVars, faults>>

GetToken(t) ==
  \/ Ask(t) \/ Lock(t) \/ Reload(t) \/ Refresh(t) \/ Refused(t) \/ AnswerLost(t)
  \/ Save(t) \/ SaveFails(t)

Step ==
  \/ \E p \in Portal : Expire(p)
  \/ \E t \in Task : GetToken(t)
  \/ \E m \in Manager : Crash(m)
TokenNext == Step \/ \E p \in Portal : Install(p)

(* The life of one installation, and with installations at any time.       *)
TokenSpec   == TokenInit /\ [][Step]_tokenVars
InstallSpec == TokenInit /\ [][TokenNext]_tokenVars

(* A task that is running runs on; the lock is served fairly; the HTTP     *)
(* request has a timeout of 15 s.                                          *)
FairSpec ==
  /\ InstallSpec
  /\ \A t \in Task :
       /\ SF_tokenVars(Lock(t))
       /\ WF_tokenVars(Reload(t))
       /\ WF_tokenVars(Refresh(t) \/ Refused(t) \/ AnswerLost(t))
       /\ WF_tokenVars(Save(t) \/ SaveFails(t))

-----------------------------------------------------------------------------
(* Types of the variables.                                                 *)
TokenTypes ==
  /\ rows \subseteq Portal /\ due \subseteq rows
  /\ stored \in [Portal -> 0..issued] /\ valid \in [Portal -> 0..issued]
  /\ lock \in [Manager -> Task \union {NoTask}]
  /\ pc \in [Task -> {"idle", "wait", "locked", "request", "save"}]
  /\ portal \in [Task -> Portal] /\ token \in [Task -> 0..issued]
  /\ issued \in 1..MaxIssued
  /\ lost \subseteq Portal /\ faults \in 0..MaxFaults

Refreshing == {t \in Task : pc[t] \in {"request", "save"}}

(* From the reload to the save a task holds its manager's lock.            *)
LockHeld ==
  \A t \in Task : pc[t] \in {"locked", "request", "save"} => lock[ManagerOf[t]] = t

(* At most one refresh is active (token_manager.py:28: "the lock           *)
(* guarantees a single active refresh").                                   *)
SingleRefresh == \A t, u \in Refreshing : t = u

(* A refresh is sent with the token in the database, and only for a token  *)
(* that is due: a task that waited for the lock uses what another one has  *)
(* just fetched.                                                           *)
NoNeedlessRefresh ==
  \A t \in Task : pc[t] = "request" => portal[t] \in due /\ token[t] = stored[portal[t]]

(* What a task is about to save is the token the server accepts, unless   *)
(* its portal was installed anew meanwhile.                                *)
FetchedIsValid ==
  \A t \in Task : pc[t] = "save" => token[t] = valid[portal[t]] \/ portal[t] \in lost

(* The database holds the token the server accepts, or a task is about to  *)
(* save it; otherwise a fault hit exactly between rotation and save, or    *)
(* the application was installed anew while a refresh was under way.       *)
TokenNotLost ==
  \A p \in rows \ lost :
    stored[p] = valid[p] \/ \E t \in Task : pc[t] = "save" /\ portal[t] = p

(* The inductive invariant behind them, when all tasks share a manager;   *)
(* NoNeedlessRefresh holds beside it in the life of one installation.      *)
TokenInv == TokenTypes /\ LockHeld /\ FetchedIsValid /\ TokenNotLost

(* No caller is left waiting, whatever the tasks before it met.            *)
EveryCallReturns == \A t \in Task : pc[t] # "idle" ~> pc[t] = "idle"
=============================================================================
