---------------------------- MODULE MCInspector ----------------------------
(* Instance of Inspector for TLC.                                          *)
EXTENDS Inspector
=============================================================================
