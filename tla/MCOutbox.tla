------------------------------ MODULE MCOutbox ------------------------------
(* Small instances of Outbox for TLC: messages of one account.             *)
EXTENDS Outbox, TLC

CONSTANTS m1, m2, a1

OneAccount == m1 :> a1 @@ m2 :> a1
=============================================================================
