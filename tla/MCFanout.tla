------------------------------ MODULE MCFanout ------------------------------
(* Small instances of Fanout for TLC.                                      *)
EXTENDS Fanout, TLC

CONSTANTS w1, w2

TwoWriters == {w1, w2}
WriterSymmetry == Permutations({w1, w2})
=============================================================================
