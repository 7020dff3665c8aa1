--------------------------- MODULE MCTokenRefresh ---------------------------
(* Small instances of TokenRefresh: tasks that share a manager.            *)
EXTENDS TokenRefresh, TLC

CONSTANTS t1, t2, t3, k1, k2, p1, p2

SharedManager == t1 :> k1 @@ t2 :> k1 @@ t3 :> k1
=============================================================================
