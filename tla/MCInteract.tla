----------------------------- MODULE MCInteract -----------------------------
(* A raster of three rows that takes two chunks, the last one smaller.     *)
EXTENDS Interact
=============================================================================
