------------------------------- MODULE MCFls -------------------------------
(* A directory of up to three names, and two ids, so that some are         *)
(* skipped.                                                                *)
EXTENDS Fls
=============================================================================
