----------------------------- MODULE MCFlvWriter -----------------------------
(* Small instances of FlvWriter for TLC.                                   *)
EXTENDS FlvWriter

CONSTANTS x1, x2

TwoClosers == {x1, x2}
=============================================================================
