----------------------------- MODULE MCSession -----------------------------
(* Small sessions for TLC.                                                 *)
EXTENDS Session
============================================================================
