---------------------------- MODULE MCReadMarker ----------------------------
(* Small instances of ReadMarker: the messages of one dialog.              *)
EXTENDS ReadMarker, TLC

CONSTANTS m1, m2, a1

OneDialog == m1 :> a1 @@ m2 :> a1
=============================================================================
