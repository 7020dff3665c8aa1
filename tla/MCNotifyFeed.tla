---------------------------- MODULE MCNotifyFeed ----------------------------
(* Small instances of NotifyFeed: one dialog, one or two managers.         *)
EXTENDS NotifyFeed

CONSTANTS u1, u2

(* The responsible manager changes.                                        *)
OneAtATime == {{u1}, {u2}}
(* One manager.                                                            *)
Alone == {{u1}}
=============================================================================
