------------------------------ MODULE MCChunks ------------------------------
(* Small instances of Chunks for TLC.                                      *)
EXTENDS Chunks
=============================================================================
