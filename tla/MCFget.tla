------------------------------- MODULE MCFget -------------------------------
(* A file of up to three bytes, read in pieces of one or two.              *)
EXTENDS Fget
=============================================================================
