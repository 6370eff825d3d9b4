---------------------------- MODULE MCDataFlow -----------------------------
(* Three tasks and a window of three.  What a task sends may be larger     *)
(* than the window, and may be nothing.                                    *)
EXTENDS DataFlow
============================================================================
