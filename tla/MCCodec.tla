------------------------------ MODULE MCCodec ------------------------------
(* Numbers and lengths on both sides of every limit; -1 cannot be written  *)
(* in a configuration file's set.                                          *)
EXTENDS Codec

MCOffsets == {-1, 0, 1, 3, 4, 15, 16, 17}
MCFds     == {-1, 0, 3, 4}
=============================================================================
