---------------------------- MODULE MCStaticPush ----------------------------
(* Small instances of StaticPush for TLC.                                  *)
EXTENDS StaticPush

CONSTANTS t1, t2, u1, u2
=============================================================================
