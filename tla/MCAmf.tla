-------------------------------- MODULE MCAmf --------------------------------
(* Values, messages and peers for TLC.                                     *)
EXTENDS AmfConnection

a == <<97>>
b == <<98>>
Strings == {<<>>, a, <<97, 98>>, <<97, 98, 99>>}
Scalars == {Null, <<"bool", TRUE>>, <<"int", 7>>, <<"str", <<>>>>, <<"str", a>>}
Others ==
    {<<"str", s>> : s \in Strings} \cup {<<"bool", FALSE>>, <<"str", SetDataFrame>>}
      \cup {<<"int", n>> : n \in {-1, 0, 127, 128, 16383, 16384, 2097151, 2097152, 268435455, 268435456,
                               IntegerMax}}
Arrays  == {<<"array", s>> : s \in BoundedSeq({<<"int", 7>>, <<"str", <<>>>>}, 2)}
Objects == {<<"object", f>> : f \in [{a} -> Scalars] \cup [{a, b} -> {Null, <<"str", a>>}]
                                      \cup {NoPairs}}
Nested  == {<<"array", <<o>>>> : o \in Objects} \cup {<<"object", (b :> x)>> : x \in Arrays}
Only0   == {<<"ecma", (a :> <<"int", 7>>)>>, <<"undef">>, <<"unsup">>}
Only3   == {<<"typed", (a :> Null), b>>, <<"typed", NoPairs, <<>>>>, <<"date", 1500>>,
            <<"bytes", <<1, 2>>>>, <<"bytes", <<>>>>, <<"undef">>}
All(vn) == Scalars \cup Others \cup Arrays \cup Objects \cup Nested
              \cup (IF vn = 0 THEN Only0 ELSE Only3)

MCMessages ==
    UNION {{<<vn, <<v>>>> : v \in All(vn)}
             \cup {<<vn, <<v, w>>>> : v \in All(vn), w \in {<<"str", a>>, <<"bool", TRUE>>}}
             \cup {<<vn, <<<<"str", SetDataFrame>>, v>>>> : v \in Objects} : vn \in {0, 3}}
MCPeerMessages == BoundedSeq({<<>>, a, b}, 3)
=============================================================================
