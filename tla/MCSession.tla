----------------------------- MODULE MCSession -----------------------------
(* A small instance of Session for TLC: one configured application and one *)
(* that is not, a key that opens a room and one that does not.             *)
EXTENDS Session

MCChannelOf == [n \in {"key"} |-> "room"]
=============================================================================
