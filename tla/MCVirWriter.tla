----------------------------- MODULE MCVirWriter -----------------------------
(* Small instances of VirWriter for TLC.                                   *)
EXTENDS VirWriter, TLC

CONSTANTS p1, p2, x1, x2

OneProducer    == {p1}
TwoProducers   == {p1, p2}
OneCloser      == {x1}
TwoClosers     == {x1, x2}

PairSymmetry   == Permutations({p1, p2}) \union Permutations({x1, x2})
=============================================================================
