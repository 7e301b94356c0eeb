------------------------------ MODULE AmfCodec ------------------------------
(***************************************************************************)
(* protocol/amf: the AMF0 and AMF3 encoders and decoders, as operators.    *)
(* A value is a tuple whose first field is its kind; a string is the       *)
(* sequence of its bytes; an Object is a function from strings to values.  *)
(* A message is a sequence of bytes, except that the eight bytes of a      *)
(* float64 stand as the number itself and seven zeros.  Encoding gives the *)
(* SET of messages the encoder may write (Go ranges over a map in any      *)
(* order), empty when it returns an error.  Decoding gives what the        *)
(* decoder returns, the index of the next byte and its reference tables.   *)
(***************************************************************************)
EXTENDS Integers, Sequences, FiniteSets, TLC, SequencesExt

CONSTANT StringMax  \* AMF0StringMax, 65535 in the code: lengths are kept below 256 here

ASSUME StringMaxAssumption == StringMax \in 1 .. 255

Null == <<"null">>
IntegerMax == 536870911          \* AMF3IntegerMax, 2^29 - 1
Double(n)  == <<n, 0, 0, 0, 0, 0, 0, 0>>
Cat(A, B)  == {a \o b : a \in A, b \in B}
U32(n)     == <<0, 0, 0, n>>

-----------------------------------------------------------------------------
(* EncodeAmf0 and what it dispatches to; "ecma", "undef" and "unsup" have  *)
(* encoders that callers reach by name only.  Keys have no marker.         *)
EncodeAmf0String(s) == <<0, Len(s) % (StringMax + 1)>> \o s
EncodeAmf0LongString(s) == <<12>> \o U32(Len(s)) \o s
EncodeAmf0Number(n)  == <<0>> \o Double(n)
EncodeAmf0Boolean(b) == <<1, IF b THEN 1 ELSE 0>>
EncodeAmf0Null        == <<5>>
EncodeAmf0Undefined   == <<6>>
EncodeAmf0Unsupported == <<13>>

RECURSIVE EncodeAmf0(_), Pairs(_, _), EncodeAmf0All(_)
(* The keys in the order ks, each before its value, then the end marker.    *)
Pairs(f, ks) ==
    IF ks = <<>> THEN {EncodeAmf0String(<<>>) \o <<9>>}
    ELSE Cat(Cat({EncodeAmf0String(Head(ks))}, EncodeAmf0(f[Head(ks)])), Pairs(f, Tail(ks)))
EncodeAmf0Object(f) ==
    Cat({<<3>>}, UNION {Pairs(f, ks) : ks \in SetToSeqs(DOMAIN f)})
EncodeAmf0EcmaArray(f) ==
    Cat({<<8>> \o U32(Cardinality(DOMAIN f))}, UNION {Pairs(f, ks) : ks \in SetToSeqs(DOMAIN f)})
EncodeAmf0All(vs) ==
    IF vs = <<>> THEN {<<>>} ELSE Cat(EncodeAmf0(Head(vs)), EncodeAmf0All(Tail(vs)))
EncodeAmf0StrictArray(vs) == Cat({<<10>> \o U32(Len(vs))}, EncodeAmf0All(vs))
EncodeAmf0(v) ==
    CASE v[1] = "null"   -> {EncodeAmf0Null}
      [] v[1] = "str"    -> {IF Len(v[2]) <= StringMax THEN <<2>> \o EncodeAmf0String(v[2])
                             ELSE EncodeAmf0LongString(v[2])}
      [] v[1] = "bool"   -> {EncodeAmf0Boolean(v[2])}
      [] v[1] \in {"int", "double"} -> {EncodeAmf0Number(v[2])}
      [] v[1] = "array"  -> EncodeAmf0StrictArray(v[2])
      [] v[1] = "object" -> EncodeAmf0Object(v[2])
      [] v[1] = "ecma"   -> EncodeAmf0EcmaArray(v[2])
      [] v[1] = "undef"  -> {EncodeAmf0Undefined}
      [] v[1] = "unsup"  -> {EncodeAmf0Unsupported}
      [] OTHER -> {}     \* TypedObject, time.Time: unsupported type

-----------------------------------------------------------------------------
More(n) == 128 + (n % 128)
EncodeU29Sevens(n) ==
    CASE n <= 127 -> <<n>>
      [] n > 127 /\ n <= 16383 -> <<More(n \div 128), n % 128>>
      [] n > 16383 /\ n <= 2097151 -> <<More(n \div 16384), More(n \div 128), n % 128>>
      [] OTHER -> <<More(n \div 2097152), More(n \div 16384), More(n \div 128), n % 128>>
(* encodeAmf3Uint29; the fourth byte carries eight bits.                   *)
EncodeU29(n) ==
    CASE n <= 127 -> <<n>>
      [] n > 127 /\ n <= 16383 -> <<More(n \div 128), n % 128>>
      [] n > 16383 /\ n <= 2097151 -> <<More(n \div 16384), More(n \div 128), n % 128>>
      [] OTHER -> <<More(n \div 4194304), More(n \div 32768), More(n \div 256), n % 256>>

EncodeAmf3Utf8(s) == EncodeU29(2 * Len(s) + 1) \o s

(* sort.Strings *)
Less(a, b) ==
    \/ IsStrictPrefix(a, b)
    \/ \E i \in 1 .. Len(a) : /\ i <= Len(b) /\ a[i] < b[i]
                              /\ SubSeq(a, 1, i - 1) = SubSeq(b, 1, i - 1)

EncodeAmf3Undefined == <<0>>
EncodeAmf3Null      == <<1>>
EncodeAmf3Boolean(b) == <<IF b THEN 3 ELSE 2>>
EncodeAmf3Double(n)  == <<5>> \o Double(n)
EncodeAmf3Integer(n) == <<4>> \o EncodeU29(n)
EncodeAmf3String(s)  == <<6>> \o EncodeAmf3Utf8(s)
EncodeAmf3Date(t)    == <<8, 1>> \o Double((t \div 1000) * 1000)    \* t.Unix() * 1000
EncodeAmf3ByteArray(bs) == <<12>> \o EncodeU29(2 * Len(bs) + 1) \o bs

RECURSIVE EncodeAmf3(_), EncodeAmf3All(_)
EncodeAmf3All(vs) ==
    IF vs = <<>> THEN {<<>>} ELSE Cat(EncodeAmf3(Head(vs)), EncodeAmf3All(Tail(vs)))
EncodeAmf3Array(vs) ==
    Cat({<<9>> \o EncodeU29(2 * Len(vs) + 1) \o EncodeAmf3Utf8(<<>>)}, EncodeAmf3All(vs))
(* An object goes out as a sealed trait, its properties sorted and its     *)
(* values after it; the encoder never writes a reference.                  *)
EncodeAmf3Object(f, type) ==
    LET ks == SetToSortSeq(DOMAIN f, Less)
    IN  Cat({<<10>> \o EncodeU29(3 + 16 * Len(ks)) \o EncodeAmf3Utf8(type)
               \o FlattenSeq([k \in DOMAIN ks |-> EncodeAmf3Utf8(ks[k])])},
            EncodeAmf3All([k \in DOMAIN ks |-> f[ks[k]]]))
(* "bytes" and "undef" have encoders that callers reach by name only.      *)
EncodeAmf3(v) ==
    CASE v[1] = "null"   -> {EncodeAmf3Null}
      [] v[1] = "str"    -> {EncodeAmf3String(v[2])}
      [] v[1] = "bool"   -> {EncodeAmf3Boolean(v[2])}
      [] v[1] = "int"    -> {IF v[2] \in 0 .. IntegerMax THEN EncodeAmf3Integer(v[2])
                             ELSE EncodeAmf3Double(v[2])}
      [] v[1] = "double" -> {EncodeAmf3Double(v[2])}
      [] v[1] = "array"  -> EncodeAmf3Array(v[2])
      [] v[1] = "object" -> EncodeAmf3Object(v[2], <<>>)
      [] v[1] = "typed"  -> EncodeAmf3Object(v[2], v[3])
      [] v[1] = "date"   -> {EncodeAmf3Date(v[2])}
      [] v[1] = "bytes"  -> {EncodeAmf3ByteArray(v[2])}
      [] v[1] = "undef"  -> {EncodeAmf3Undefined}
      [] OTHER -> {}

EncodeBatch(ver, vs) == IF ver = 0 THEN EncodeAmf0All(vs) ELSE EncodeAmf3All(vs)

-----------------------------------------------------------------------------
(* The Decoder's tables; nothing ever reads refCache or resets a table.    *)
NewDecoder == [refCache |-> 0, strings |-> <<>>, objects |-> <<>>, traits |-> <<>>]

Got(v, i, d) == [res |-> "ok", v |-> v, i |-> i, d |-> d]
Failed(d)    == [res |-> "error", v |-> Null, i |-> 0, d |-> d]
Panics(d)    == [res |-> "panic", v |-> Null, i |-> 0, d |-> d]
Then(r, F(_)) == IF r.res = "ok" THEN F(r) ELSE r
Tagged(kind, r) == Then(r, LAMBDA x : [x EXCEPT !.v = <<kind, @>>])

(* r.Read(buf), as AMF3 uses it: a short read leaves zeros in the buffer.   *)
ReadPadded(w, i, n, d) ==
    IF i > Len(w) THEN Failed(d)
    ELSE LET end == IF i + n - 1 <= Len(w) THEN i + n ELSE Len(w) + 1
         IN  Got([k \in 1 .. n |-> IF i + k - 1 < end THEN w[i + k - 1] ELSE 0], end, d)

(* ReadBytes on a bytes.Reader: at the end of the message even a read of   *)
(* nothing gives io.EOF; a short read is an error.                         *)
ReadBytes(w, i, n, d) ==
    IF i > Len(w) \/ i + n - 1 > Len(w) THEN Failed(d)
    ELSE Got(SubSeq(w, i, i + n - 1), i + n, d)

ReadFloat(w, i, d) ==
    IF i + 7 > Len(w) THEN Failed(d) ELSE Got(w[i], i + 8, d)

(* A big-endian count; those of 256 and more are beyond every message.     *)
ReadU16(w, i, d) ==
    IF i + 1 > Len(w) THEN Failed(d) ELSE Got(256 * w[i] + w[i + 1], i + 2, d)
ReadU32(w, i, d) ==
    IF i + 3 > Len(w) THEN Failed(d)
    ELSE Got(IF \E j \in i .. i + 2 : w[j] # 0 THEN Len(w) + 1 ELSE w[i + 3], i + 4, d)

(* decodeU29 *)
DecodeU29(w, i, d) ==
    LET Ends(k) == k = 4 \/ (i + k - 1 <= Len(w) /\ w[i + k - 1] < 128)
        n == CHOOSE k \in 1 .. 4 : Ends(k) /\ \A j \in 1 .. k - 1 : ~Ends(j)
        Seven(m) == FoldLeft(LAMBDA acc, b : (128 * acc) + (b % 128), 0, SubSeq(w, i, i + m - 1))
    IN  IF i + n - 1 > Len(w) THEN Failed(d)
        ELSE Got(IF n = 4 THEN 256 * Seven(3) + w[i + 3] ELSE Seven(n), i + n, d)

-----------------------------------------------------------------------------
StringRefsAll(w, i, d) ==
    Then(DecodeU29(w, i, d), LAMBDA u :
        IF u.v % 2 = 0
        THEN IF u.v \div 2 < Len(d.strings) THEN Got(d.strings[u.v \div 2 + 1], u.i, d)
             ELSE Panics(d)
        ELSE Then(ReadPadded(w, u.i, u.v \div 2, d), LAMBDA s :
                [s EXCEPT !.d.strings = Append(@, s.v)]))
(* DecodeAmf3String: a reference, or a length and the bytes; a string that *)
(* is not empty enters the table.                                          *)
DecodeAmf3String(w, i, d) ==
    Then(DecodeU29(w, i, d), LAMBDA u :
        IF u.v % 2 = 0
        THEN IF u.v \div 2 < Len(d.strings) THEN Got(d.strings[u.v \div 2 + 1], u.i, d)
             ELSE Panics(d)
        ELSE Then(ReadPadded(w, u.i, u.v \div 2, d), LAMBDA s :
                IF s.v = <<>> THEN s ELSE [s EXCEPT !.d.strings = Append(@, s.v)]))

(* An entry of the object table, which must have the kind that is asked.   *)
ObjectRef(n, kind, i, d) ==
    IF n >= Len(d.objects) THEN Panics(d)
    ELSE IF d.objects[n + 1][1] = kind THEN Got(d.objects[n + 1], i, d) ELSE Failed(d)
AddObject(r) == [r EXCEPT !.d.objects = Append(@, r.v)]

DecodeAmf3Integer(w, i, d) ==
    Then(DecodeU29(w, i, d), LAMBDA u :
        Got(<<"int", IF u.v > 268435455 THEN u.v - 536870912 ELSE u.v>>, u.i, u.d))

(* A date, XML or a byte array after its marker: a reference, or the data. *)
DecodeAmf3Date(w, i, d) ==
    Then(DecodeU29(w, i, d), LAMBDA u :
        IF u.v % 2 = 0 THEN ObjectRef(u.v \div 2, "date", u.i, d)
        ELSE Then(ReadFloat(w, u.i, d), LAMBDA x :
                AddObject(Got(<<"date", (x.v \div 1000) * 1000>>, x.i, x.d))))
DecodeAmf3Xml(w, i, d) ==
    Then(DecodeU29(w, i, d), LAMBDA u :
        IF u.v % 2 = 0 THEN ObjectRef(u.v \div 2, "str", u.i, d)
        ELSE Then(Tagged("str", ReadPadded(w, u.i, u.v \div 2, d)), LAMBDA x :
                IF x.v[2] = <<>> THEN x ELSE AddObject(x)))
DecodeAmf3ByteArray(w, i, d) ==
    Then(DecodeU29(w, i, d), LAMBDA u :
        IF u.v % 2 = 0 THEN ObjectRef(u.v \div 2, "bytes", u.i, d)
        ELSE Then(Tagged("bytes", ReadPadded(w, u.i, u.v \div 2, d)), AddObject))

RECURSIVE DecodeAmf3(_, _, _), DecodeAmf3All(_, _, _, _, _), Keys(_, _, _, _, _),
          Dynamic(_, _, _, _)
(* n values in a row; n strings in a row; keys and values up to an empty key. *)
DecodeAmf3All(w, i, d, n, vs) ==
    IF n = 0 THEN Got(vs, i, d)
    ELSE Then(DecodeAmf3(w, i, d), LAMBDA x : DecodeAmf3All(w, x.i, x.d, n - 1, Append(vs, x.v)))
Keys(w, i, d, n, ks) ==
    IF n = 0 THEN Got(ks, i, d)
    ELSE Then(DecodeAmf3String(w, i, d), LAMBDA x : Keys(w, x.i, x.d, n - 1, Append(ks, x.v)))
Dynamic(w, i, d, f) ==
    Then(DecodeAmf3String(w, i, d), LAMBDA k :
        IF k.v = <<>> THEN Got(f, k.i, k.d)
        ELSE Then(DecodeAmf3(w, k.i, k.d), LAMBDA x :
                Dynamic(w, x.i, x.d, (k.v :> x.v) @@ f)))

(* DecodeAmf3Array: the index of a reference is shifted twice; an array    *)
(* enters the table after its elements.                                    *)
DecodeAmf3Array(w, i, d) ==
    Then(DecodeU29(w, i, d), LAMBDA u :
        IF u.v % 2 = 0 THEN ObjectRef(u.v \div 4, "array", u.i, d)
        ELSE Then(DecodeAmf3String(w, u.i, u.d), LAMBDA k :
                IF k.v # <<>> THEN Failed(k.d)
                ELSE Then(Tagged("array", DecodeAmf3All(w, k.i, k.d, u.v \div 2, <<>>)),
                          AddObject)))

(* The trait of an object: a reference to one, or written out.             *)
DecodeTrait(w, u) ==
    LET ref == u.v \div 2 IN
    IF ref % 2 = 0
    THEN IF ref \div 2 < Len(u.d.traits) THEN Got(u.d.traits[ref \div 2 + 1], u.i, u.d)
         ELSE Panics(u.d)
    ELSE Then(DecodeAmf3String(w, u.i, u.d), LAMBDA c :
         Then(Keys(w, c.i, c.d, ref \div 8, <<>>), LAMBDA ks :
            LET trait == [externalizable |-> (ref \div 2) % 2 = 1,
                          dynamic |-> (ref \div 4) % 2 = 1, properties |-> ks.v]
            IN  [Got(trait, ks.i, ks.d) EXCEPT !.d.traits = Append(@, trait)]))

(* DecodeAmf3Object: the table gets the nil that result still is.  The     *)
(* externalizable types (decoder_amf3_external.go) are left out: an error. *)
DecodeAmf3Object(w, i, d) ==
    Then(DecodeU29(w, i, d), LAMBDA u :
        IF u.v % 2 = 0
        THEN IF u.v \div 4 < Len(d.objects) THEN Got(d.objects[u.v \div 4 + 1], u.i, d)
             ELSE Panics(d)
        ELSE Then(DecodeTrait(w, u), LAMBDA t :
                LET ks == t.v.properties
                    d1 == [t.d EXCEPT !.objects = Append(@, Null)]
                IN  IF t.v.externalizable THEN Failed(d1)
                    ELSE Then(DecodeAmf3All(w, t.i, d1, Len(ks), <<>>), LAMBDA vs :
                            LET f == [k \in ToSet(ks) |->
                                        vs.v[CHOOSE n \in DOMAIN ks : ks[n] = k]]
                            IN  Tagged("object", IF t.v.dynamic THEN Dynamic(w, vs.i, vs.d, f)
                                                 ELSE Got(f, vs.i, vs.d)))))

DecodeAmf3(w, i, d) ==
    IF i > Len(w) THEN Failed(d)
    ELSE CASE w[i] \in {0, 1} -> Got(Null, i + 1, d)
           [] w[i] \in {2, 3} -> Got(<<"bool", w[i] = 3>>, i + 1, d)
           [] w[i] = 4  -> DecodeAmf3Integer(w, i + 1, d)
           [] w[i] = 5  -> Tagged("double", ReadFloat(w, i + 1, d))
           [] w[i] = 6  -> Tagged("str", DecodeAmf3String(w, i + 1, d))
           [] w[i] \in {7, 11} -> DecodeAmf3Xml(w, i + 1, d)
           [] w[i] = 8  -> DecodeAmf3Date(w, i + 1, d)
           [] w[i] = 9  -> DecodeAmf3Array(w, i + 1, d)
           [] w[i] = 10 -> DecodeAmf3Object(w, i + 1, d)
           [] w[i] = 12 -> DecodeAmf3ByteArray(w, i + 1, d)
           [] OTHER -> Failed(d)

-----------------------------------------------------------------------------
DecodeAmf0String(w, i, d) ==
    Then(ReadU16(w, i, d), LAMBDA n : ReadBytes(w, n.i, n.v, d))
DecodeAmf0LongString(w, i, d) ==
    Then(ReadU32(w, i, d), LAMBDA n : ReadBytes(w, n.i, n.v, d))
DecodeAmf0XmlDocument(w, i, d) == DecodeAmf0LongString(w, i, d)
DecodeAmf0Boolean(w, i, d) ==
    Then(ReadBytes(w, i, 1, d), LAMBDA b :
        IF b.v[1] \in {0, 1} THEN Got(<<"bool", b.v[1] = 1>>, b.i, d) ELSE Failed(d))
(* The time zone is read and ignored; the date stays a number.             *)
DecodeAmf0Date(w, i, d) ==
    Then(ReadFloat(w, i, d), LAMBDA x :
        Then(ReadBytes(w, x.i, 2, d), LAMBDA z : Got(<<"double", x.v>>, z.i, d)))

Cached(d) == [d EXCEPT !.refCache = @ + 1]
NoPairs == [k \in {} |-> Null]

RECURSIVE DecodeAmf0(_, _, _), DecodeAmf0Object(_, _, _, _), DecodeAmf0All(_, _, _, _, _)
DecodeAmf0Object(w, i, d, f) ==
    Then(DecodeAmf0String(w, i, d), LAMBDA k :
        IF k.v = <<>>
        THEN IF k.i <= Len(w) /\ w[k.i] = 9 THEN Got(<<"object", f>>, k.i + 1, k.d)
             ELSE Failed(k.d)
        ELSE Then(DecodeAmf0(w, k.i, k.d), LAMBDA x :
                DecodeAmf0Object(w, x.i, x.d, (k.v :> x.v) @@ f)))
DecodeAmf0All(w, i, d, n, vs) ==
    IF n = 0 THEN Got(<<"array", vs>>, i, d)
    ELSE Then(DecodeAmf0(w, i, d), LAMBDA x : DecodeAmf0All(w, x.i, x.d, n - 1, Append(vs, x.v)))

DecodeAmf0EcmaArray(w, i, d) == DecodeAmf0Object(w, i + 4, Cached(d), NoPairs)
DecodeAmf0StrictArray(w, i, d) ==
    Then(ReadU32(w, i, d), LAMBDA n : DecodeAmf0All(w, n.i, Cached(d), n.v, <<>>))
DecodeAmf0TypedObject(w, i, d) ==
    Then(DecodeAmf0String(w, i, Cached(d)), LAMBDA c :
        Then(DecodeAmf0Object(w, c.i, Cached(c.d), NoPairs), LAMBDA o :
            Got(<<"typed", o.v[2], c.v>>, o.i, o.d)))

(* DecodeAmf0.  Movie clips, references and record sets are errors.        *)
DecodeAmf0(w, i, d) ==
    IF i > Len(w) THEN Failed(d)
    ELSE CASE w[i] = 0 -> Tagged("double", ReadFloat(w, i + 1, d))
           [] w[i] = 1 -> DecodeAmf0Boolean(w, i + 1, d)
           [] w[i] = 2 -> Tagged("str", DecodeAmf0String(w, i + 1, d))
           [] w[i] = 3 -> DecodeAmf0Object(w, i + 1, Cached(d), NoPairs)
           [] w[i] \in {5, 6, 13} -> Got(Null, i + 1, d)
           [] w[i] = 8 -> DecodeAmf0EcmaArray(w, i + 1, d)
           [] w[i] = 10 -> DecodeAmf0StrictArray(w, i + 1, d)
           [] w[i] = 11 -> DecodeAmf0Date(w, i + 1, d)
           [] w[i] = 12 -> Tagged("str", DecodeAmf0LongString(w, i + 1, d))
           [] w[i] = 15 -> Tagged("str", DecodeAmf0XmlDocument(w, i + 1, d))
           [] w[i] = 16 -> DecodeAmf0TypedObject(w, i + 1, d)
           [] w[i] = 17 -> DecodeAmf3(w, i + 1, d)
           [] OTHER -> Failed(d)

Decode(ver, w, i, d) == IF ver = 0 THEN DecodeAmf0(w, i, d) ELSE DecodeAmf3(w, i, d)

-----------------------------------------------------------------------------
(* MetaDataReform: ADD puts "@setDataFrame" before a message that does not *)
(* begin with it, DEL takes it off one that does.  An error is <<>>.       *)
SetDataFrame  == <<64>>
SetFrameFrame == <<2>> \o EncodeAmf0String(SetDataFrame)
MetaDataAlways(w, flag) ==
    LET first == DecodeAmf0(w, 1, NewDecoder) IN
    IF first.res # "ok" \/ first.v[1] # "str" THEN <<>>
    ELSE IF flag = "ADD" THEN SetFrameFrame \o w
    ELSE IF first.v[2] = SetDataFrame THEN SubSeq(w, Len(SetFrameFrame) + 1, Len(w)) ELSE w
MetaDataReform(w, flag) ==
    LET first == DecodeAmf0(w, 1, NewDecoder) IN
    IF first.res # "ok" \/ first.v[1] # "str" THEN <<>>
    ELSE IF flag = "ADD" THEN (IF first.v[2] # SetDataFrame THEN SetFrameFrame \o w ELSE w)
    ELSE IF first.v[2] = SetDataFrame THEN SubSeq(w, Len(SetFrameFrame) + 1, Len(w)) ELSE w
=============================================================================
