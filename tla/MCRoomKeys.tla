----------------------------- MODULE MCRoomKeys -----------------------------
(* Small instances of RoomKeys for TLC.                                    *)
EXTENDS RoomKeys, TLC

CONSTANTS a, b, c, r1, r2, k1, k2, k3

ThreeRequests == {a, b, c}
OneRoom       == {r1}
TwoRooms      == {r1, r2}
TwoKeys       == {k1, k2}
ThreeKeys     == {k1, k2, k3}
=============================================================================
