------------------------------ MODULE Delivery ------------------------------
(***************************************************************************)
(* What the outgoing path promises about one message, whatever queue,      *)
(* worker and channel lie between the manager and the client:              *)
(*                                                                         *)
(*   - a message appears as "pending" before anything reaches the client;  *)
(*   - it is shown as sent only when at least one copy was accepted by the *)
(*     channel, and as read only after that;                               *)
(*   - its status never moves backwards, and "sent" never becomes "error"; *)
(*   - delivery is at least once: each copy beyond the first is paid for   *)
(*     by a strike, a fault that hit the message between the request to    *)
(*     the channel and the commit that records its result.                 *)
(*                                                                         *)
(* Outbox and ReadMarker are shown to implement this specification.        *)
(***************************************************************************)
EXTENDS Naturals

CONSTANT Item           (* outgoing messages, each with its outbox row     *)

VARIABLES
  phase,                (* phase[m]: Message.status, or "none" before it   *)
  copies,               (* copies[m]: copies of m the channel accepted     *)
  strikes               (* strikes[m]: faults in m's send-to-record window *)

deliveryVars == <<phase, copies, strikes>>

Init ==
  /\ phase   = [m \in Item |-> "none"]
  /\ copies  = [m \in Item |-> 0]
  /\ strikes = [m \in Item |-> 0]

Submit(m) ==
  /\ phase[m] = "none"
  /\ phase' = [phase EXCEPT ![m] = "pending"]
  /\ UNCHANGED <<copies, strikes>>

(* The channel may accept a copy late, when the message is already final.  *)
Arrive(m) ==
  /\ phase[m] # "none"
  /\ copies[m] <= strikes[m]
  /\ copies' = [copies EXCEPT ![m] = @ + 1]
  /\ UNCHANGED <<phase, strikes>>

(* A fault may take effect together with the status it let through.        *)
Strike(m) ==
  /\ phase[m] # "none"
  /\ strikes' = [strikes EXCEPT ![m] = @ + 1]
  /\ UNCHANGED copies
  /\ \/ UNCHANGED phase
     \/ /\ phase[m] = "pending"
        /\ copies[m] > 0
        /\ phase' = [phase EXCEPT ![m] = "sent"]
     \/ /\ phase[m] = "pending"
        /\ phase' = [phase EXCEPT ![m] = "error"]

Confirm(m) ==
  /\ phase[m] = "pending"
  /\ copies[m] > 0
  /\ phase' = [phase EXCEPT ![m] = "sent"]
  /\ UNCHANGED <<copies, strikes>>

GiveUp(m) ==
  /\ phase[m] = "pending"
  /\ phase' = [phase EXCEPT ![m] = "error"]
  /\ UNCHANGED <<copies, strikes>>

(* One read receipt may close several messages of a dialog.                *)
Read(S) ==
  /\ S # {}
  /\ \A m \in S : phase[m] = "sent"
  /\ phase' = [m \in Item |-> IF m \in S THEN "read" ELSE phase[m]]
  /\ UNCHANGED <<copies, strikes>>

Next ==
  \/ \E m \in Item : Submit(m) \/ Arrive(m) \/ Strike(m) \/ Confirm(m) \/ GiveUp(m)
  \/ \E S \in SUBSET Item : Read(S)

Spec == Init /\ [][Next]_deliveryVars
=============================================================================
