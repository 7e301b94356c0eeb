----------------------------- MODULE MCStreams -----------------------------
(* Small instances of Streams for TLC.                                     *)
EXTENDS Streams, TLC

CONSTANTS p1, p2, q1, k1

OnePublisher   == {p1}
TwoPublishers  == {p1, p2}
OnePlayer      == {q1}
NoPlayer       == {}
OneKey         == {k1}
SameKey        == [c \in Publishers \union Players |-> k1]

(* Behaviours are not followed past a second kind of race, nor past two    *)
(* overlapping HandleReaders, after which no invariant promises anything.  *)
OneRace == Cardinality(anomaly) <= 1 /\ "overlap" \notin anomaly

PublisherSymmetry == Permutations({p1, p2})
=============================================================================
