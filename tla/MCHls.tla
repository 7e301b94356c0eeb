-------------------------------- MODULE MCHls --------------------------------
(* What the publisher may send, for TLC: enough key frames for three       *)
(* segments, with each other kind of packet in between and a time stamp    *)
(* that goes back.                                                         *)
EXTENDS Hls

Key   == <<"key", 1>>
Inter == <<"inter", 1>>
Sound == <<"audio", 1>>
MCSteps ==
    <<{Key, Sound}, {Key}, {Key, Sound}, {Key, Inter, Sound}, {Key, <<"head", 0>>, <<"meta", 0>>},
      {Key, <<"inter", -1>>, <<"bad", 0>>}, {Key, Sound}>>
=============================================================================
