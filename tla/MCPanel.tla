-------------------------------- MODULE MCPanel --------------------------------
EXTENDS Panel

(* The messages before the page is opened.                                 *)
MCHistory == <<1, 1>>
=============================================================================
