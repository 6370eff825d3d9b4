------------------------------- MODULE MCWire -------------------------------
(* A two-byte header and alignment, and buffers of a few bytes.            *)
EXTENDS Wire
=============================================================================
