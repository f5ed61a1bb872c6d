---------------------------- MODULE MCBackground ----------------------------
(* The work in the background, of small sets of everything.                *)
EXTENDS Background
=============================================================================
