--------------------------- MODULE AmfConnection ---------------------------
(***************************************************************************)
(* The AMF messages of one connection: EncodeBatch writes one, DecodeBatch *)
(* reads it back value by value with the connection's only Decoder, whose  *)
(* reference tables live as long as the connection (conn_server.go:89,     *)
(* conn_client.go:56).                                                     *)
(***************************************************************************)
EXTENDS AmfCodec

CONSTANTS
    Messages,     \* <<version, sequence of values>>: what this program may encode
    PeerMessages, \* sequences of strings another implementation may send as AMF3
    MaxMessages   \* bound: messages on the connection

ASSUME ConnectionAssumption == MaxMessages \in Nat

VARIABLES
    from,     \* who encoded the message: "none", "own" or "peer"
    ver,      \* its version
    sent,     \* its values
    wire,     \* its bytes
    cut,      \* whether its end is missing
    pos,      \* the reader's position
    got,      \* the values decoded so far
    result,   \* "reading", or how DecodeBatch ended: "eof", "error", "panic"
    decoder,  \* the tables of the Decoder
    fresh,    \* whether they were empty when the message began
    messages  \* messages so far

vars == <<from, ver, sent, wire, cut, pos, got, result, decoder, fresh, messages>>

Init ==
    /\ from = "none" /\ ver = 0 /\ sent = <<>> /\ wire = <<>> /\ cut = FALSE
    /\ pos = 1 /\ got = <<>> /\ result = "eof"
    /\ decoder = NewDecoder /\ fresh = TRUE /\ messages = 0

NewMessage ==
    /\ result \in {"eof", "error"} /\ messages < MaxMessages
    /\ messages' = messages + 1
    /\ cut' = FALSE /\ pos' = 1 /\ got' = <<>> /\ result' = "reading"
    /\ fresh' = (decoder.strings = <<>>)
    /\ UNCHANGED decoder

Send ==
    /\ NewMessage
    /\ \E m \in Messages :
          /\ wire' \in EncodeBatch(m[1], m[2])
          /\ ver' = m[1] /\ sent' = m[2] /\ from' = "own"

(* Another implementation sends AMF3 strings in an AMF0 message and may    *)
(* refer to a string it has already sent in the same message.              *)
PeerEncode(ss) ==
    FlattenSeq([n \in DOMAIN ss |->
        LET before == {s \in ToSet(SubSeq(ss, 1, n - 1)) : s # <<>>}
            First(s) == CHOOSE k \in DOMAIN ss : ss[k] = s /\ \A j \in 1 .. k - 1 : ss[j] # s
        IN  <<17, 6>> \o
            (IF ss[n] \in before
             THEN EncodeU29(2 * Cardinality({s \in before : First(s) < First(ss[n])}))
             ELSE EncodeAmf3Utf8(ss[n]))])
PeerSend ==
    /\ NewMessage
    /\ \E ss \in PeerMessages :
          /\ wire' = PeerEncode(ss)
          /\ sent' = [n \in DOMAIN ss |-> <<"str", ss[n]>>]
    /\ ver' = 0 /\ from' = "peer"

(* The message arrives without its end.                                    *)
Cut ==
    /\ result = "reading" /\ pos = 1 /\ ~cut
    /\ \E n \in 0 .. Len(wire) - 1 : wire' = SubSeq(wire, 1, n)
    /\ cut' = TRUE
    /\ UNCHANGED <<from, ver, sent, pos, got, result, decoder, fresh, messages>>

(* The errors that reach DecodeBatch as a bare io.EOF, which handleCmdMsg  *)
(* takes for the end of the message.                                       *)
BareEOF3(i) == i > Len(wire) \/ (wire[i] = 4 /\ DecodeU29(wire, i + 1, decoder).res = "error")
BareEOF0(i) ==
    \/ i > Len(wire)
    \/ wire[i] = 1 /\ i = Len(wire)
    \/ wire[i] = 17 /\ BareEOF3(i + 1)

(* One iteration of DecodeBatch.                                           *)
DecodeNext ==
    /\ result = "reading"
    /\ LET r == Decode(ver, wire, pos, decoder) IN
          /\ decoder' = r.d
          /\ IF r.res = "ok"
             THEN got' = Append(got, r.v) /\ pos' = r.i /\ UNCHANGED result
             ELSE /\ result' = IF r.res = "error" /\ (IF ver = 0 THEN BareEOF0(pos)
                                                      ELSE BareEOF3(pos))
                               THEN "eof" ELSE r.res
                  /\ UNCHANGED <<got, pos>>
    /\ UNCHANGED <<from, ver, sent, wire, cut, fresh, messages>>

Next == Send \/ PeerSend \/ Cut \/ DecodeNext

Spec == Init /\ [][Next]_vars

-----------------------------------------------------------------------------
(* What a value is after a trip: the kinds the wire does not tell apart.   *)
RECURSIVE Canon(_, _)
Canon(v, n) ==
    CASE v[1] \in {"undef", "unsup"} -> Null
      [] v[1] = "int" /\ (n = 0 \/ v[2] \notin 0 .. IntegerMax) -> <<"double", v[2]>>
      [] v[1] = "int" /\ v[2] > 268435455 -> <<"int", v[2] - 536870912>>
      [] v[1] = "array" -> <<"array", [k \in DOMAIN v[2] |-> Canon(v[2][k], n)]>>
      [] v[1] \in {"object", "ecma", "typed"} ->
            <<"object", [k \in DOMAIN v[2] |-> Canon(v[2][k], n)]>>
      [] v[1] = "date" -> <<"date", (v[2] \div 1000) * 1000>>
      [] OTHER -> v
Values == [k \in DOMAIN sent |-> Canon(sent[k], ver)]

(* Does the encoding of v end with a string, or a byte array, of length 0? *)
RECURSIVE EndsEmpty(_, _)
EndsEmpty(v, n) ==
    \/ v[1] \in {"str", "bytes"} /\ v[2] = <<>>
    \/ v[1] = "array" /\ IF v[2] = <<>> THEN n = 3 ELSE EndsEmpty(Last(v[2]), n)
    \/ /\ n = 3 /\ v[1] \in {"object", "typed"}
       /\ IF DOMAIN v[2] = {} THEN v[1] = "object" \/ v[3] = <<>>
          ELSE EndsEmpty(v[2][Last(SetToSortSeq(DOMAIN v[2], Less))], n)

-----------------------------------------------------------------------------
(* The type invariant.                                                     *)
TypeOK ==
    /\ from \in {"none", "own", "peer"} /\ ver \in {0, 3}
    /\ cut \in BOOLEAN /\ fresh \in BOOLEAN /\ messages \in 0 .. MaxMessages
    /\ result \in {"reading", "eof", "error", "panic"}
    /\ pos \in 1 .. Len(wire) + 1
    /\ decoder.refCache \in Nat

(* DecodeBatch gives back what EncodeBatch was given, whatever the order   *)
(* in which a map is written and whatever the Decoder read before.  In two *)
(* cases, and only there, it does not: a message that ends with an empty   *)
(* string is refused at that value, because a bytes.Reader at its end      *)
(* answers even a read of nothing with EOF (amf/util.go:58); and an AMF3   *)
(* integer from 2^28 to AMF3IntegerMax comes back less 2^29, since the     *)
(* decoder alone has a sign (decoder_amf3.go:98; see Canon).               *)
RoundTrip ==
    (from = "own" /\ ~cut /\ result # "reading") =>
        IF EndsEmpty(Last(sent), ver) THEN result = "error" /\ got = Front(Values)
        ELSE result = "eof" /\ got = Values

(* A message that lost its end yields a prefix of its values and then      *)
(* stops: AMF0 decoding never makes up a value.                            *)
CutIsPrefix ==
    (from = "own" /\ ver = 0 /\ cut) => IsPrefix(got, Values) /\ result # "panic"

(* String references resolve to the strings the peer sent in this message, *)
(* as long as the Decoder has not read a message with AMF3 strings before: *)
(* its tables are never reset (amf/decoder.go:11).                         *)
RefsResolve ==
    (from = "peer" /\ ~cut /\ fresh) =>
        /\ IsPrefix(got, sent) /\ result # "panic"
        /\ result = "eof" => got = sent

(* MetaDataReform: a second ADD adds nothing, and DEL undoes ADD, so a     *)
(* player behind any number of relays gets the metadata the publisher sent *)
(* (conn_client.go:307, conn_server.go:341).  (With the type invariant.)   *)
MetaDataOnce ==
    TypeOK /\ ((from = "own" /\ ver = 0) =>
        LET added == MetaDataReform(wire, "ADD") IN
        /\ MetaDataReform(added, "ADD") = added
        /\ MetaDataReform(added, "DEL") = MetaDataReform(wire, "DEL"))

=============================================================================
