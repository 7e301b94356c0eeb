---------------------------- MODULE ChunksProofs ----------------------------
(***************************************************************************)
(* Chunks implements MsgChannel, for all chunk streams, lengths, time      *)
(* stamps and chunk sizes.  The proof reads the tokens on their way: what  *)
(* the writer has begun to write and the reader has not read falls into    *)
(* chunks, each of them complete and readable in the state the reader is   *)
(* in after the ones before it; the state after the last one agrees with   *)
(* what the writer knows of its chunk streams.                             *)
(***************************************************************************)
EXTENDS Chunks, SequenceTheorems, FiniteSetTheorems, TLAPS

Keys == {Key(c) : c \in Streams}
Kinds == {"none", "media", "size", "ack"}
WordTokens == [k : {"word"}, v : Int]
Headers == [k : {"header"}, fmt : 0 .. 3, csid : Streams, len : Nat, type : Kinds, ts : Nat]
Tokens == WordTokens \cup [k : {"stamp"}, v : Nat] \cup Headers

(* What a writer sends: one word that is the chunk size, or words that are *)
(* no time stamps.                                                         *)
Msgs ==
    {m \in [type : {"media", "size", "ack"}, ts : Nat, data : Seq(WordTokens)] :
        /\ m.data # <<>>
        /\ m.type = "size" => m.data = <<Word(NewSize)>>
        /\ m.type # "size" => \A i \in 1 .. Len(m.data) : m.data[i].v < 0}

(* The reader: its entries, its chunk size and what it has returned.       *)
Fields ==
    [ts : Int, delta : Int, len : Nat, type : Kinds, fmt : 0 .. 3, exted : BOOLEAN,
     remain : Nat, data : Seq(Tokens)]
Entries == {e \in Fields : e.remain + Len(e.data) = e.len}
Gots == [type : Kinds, ts : Int, data : Seq(Tokens)]
Sizes == {FirstSize, NewSize}
Readers == [chunks : [Keys -> Entries], remote : Sizes, got : Seq(Gots)]
Reader == [chunks |-> chunks, remote |-> remote, got |-> received]

(* The tokens t are one chunk for a reader R, and the reader after it.     *)
Entry(R, t) == R.chunks[Key(t[1].csid)]
Good(R, t) ==
    /\ Len(t) >= 2 /\ t[1].k = "header" /\ t[1].csid \in Streams
    /\ ~Rejects(Entry(R, t), t)
    /\ ReadHeader(Entry(R, t), t).remain >= 1
    /\ Len(t) = Need(Entry(R, t), t, R.remote)
AsGot(e) == [type |-> e.type, ts |-> e.ts, data |-> e.data]
After(R, t) ==
    LET new == ReadBody(Entry(R, t), t, R.remote)
    IN  [chunks |-> [R.chunks EXCEPT ![Key(t[1].csid)] = new],
         remote |-> IF new.remain = 0 THEN HandleControlMsg(new, R.remote) ELSE R.remote,
         got |-> IF new.remain = 0 THEN Append(R.got, AsGot(new)) ELSE R.got]

Prefix(g, s) == Len(g) <= Len(s) /\ \A i \in 1 .. Len(g) : g[i] = s[i]

(* Q[j] is the j-th chunk of the stream: its tokens, the reader after it   *)
(* and all tokens begun after it; the reader has read the first r.         *)
Descs == [tok : Seq(Tokens), st : Readers, rest : Seq(Tokens)]
Follows(p, q) ==
    /\ Good(p.st, q.tok)
    /\ q.st = After(p.st, q.tok)
    /\ p.rest = q.tok \o q.rest
Parse(Q, r, R) ==
    /\ Q \in Seq(Descs) /\ r \in 1 .. Len(Q)
    /\ Q[r].st = R
    /\ Q[Len(Q)].rest = <<>>
    /\ \A j \in 1 .. Len(Q) - 1 : Follows(Q[j], Q[j + 1])

(* What is on the wire is the beginning of what is begun and not read; the *)
(* rest is in the writer's hands, or lost with the connection.             *)
OnWire(rest) ==
    /\ Prefix(wire, rest)
    /\ ~cut => rest = wire \o out.todo
(* What the chunks on the wire complete has been sent.                     *)
Done(Q, r) ==
    /\ \A j \in 1 .. Len(Q) - 1 : Prefix(Q[j].st.got, sent)
    /\ Len(wire) = Len(Q[r].rest) => Prefix(Q[Len(Q)].st.got, sent)

(* The writer's chunk streams.  Fresh: nothing of the message is written.  *)
Begun(c) == last[c].msg.type # "none"
Fresh(c) == left[c] # <<>> /\ left[c] = last[c].msg.data
Delta(l) == IF l.fmt = 0 THEN l.msg.ts ELSE l.delta
Promised ==
    IF out.todo # <<>> /\ left[out.csid] = <<>> THEN Append(sent, last[out.csid].msg) ELSE sent

(* The reader's entry e agrees with the writer's chunk stream c.           *)
Owes(e, c) == e.remain = IF Fresh(c) THEN 0 ELSE Len(left[c])
Match(e, c) ==
    /\ e.ts = last[c].msg.ts /\ e.len = Len(last[c].msg.data) /\ e.type = last[c].msg.type
    /\ e.fmt = last[c].fmt /\ (last[c].fmt # 0 => e.delta = last[c].delta)
    /\ e.exted = (Delta(last[c]) >= ExtMark)
    /\ e.data \o left[c] = last[c].msg.data
Entangled(E) ==
    /\ \A c \in Streams : Begun(c) => Owes(E.chunks[Key(c)], c)
    /\ \A k \in Keys : (\A c \in Streams : Key(c) = k => ~Begun(c)) => E.chunks[k].remain = 0
    /\ \A c \in Streams : 
          Begun(c) /\ (writer # "own" \/ (left[c] # <<>> /\ ~Fresh(c))) => Match(E.chunks[Key(c)], c)
Agrees(E) ==
    /\ E.got = Promised
    /\ E.remote = chunkSize \/ (writer = "own" /\ Fresh(2))
    /\ Entangled(E)

(* What holds of the writer while the stream is intact.                    *)
Sound ==
    /\ \A c, d \in Streams : Begun(c) /\ Begun(d) /\ Key(c) = Key(d) => c = d
    /\ \A c \in Streams : Begun(c) => last[c].msg.type = IF c = 2 THEN "size" ELSE "media"
    /\ \A c \in Streams :
          left[c] # <<>> /\ last[c].fmt # 0 /\ last[c].delta >= ExtMark => writer = "terse"
    /\ \A c \in Streams : last[c].msg.type = "size" => left[c] = <<>> \/ Fresh(c)
    /\ \A c \in Streams : Len(left[c]) <= Len(last[c].msg.data)
    /\ writer # "own" => \A c \in Streams : ~Fresh(c)
    /\ writer = "own" => /\ \A c \in Streams : Begun(c) => c \in {2, 6}
                         /\ Fresh(2) => chunkSize = NewSize

(* The types, and what of them depends on the writer.                      *)
NoMsg == NoHeader.msg
Types ==
    /\ writer \in {"own", "other", "terse"} /\ cut \in BOOLEAN /\ intact \in BOOLEAN
    /\ (intact => wire \in Seq(Tokens)) /\ sent \in Seq(Msgs)
    /\ chunkSize \in Nat \ {0} /\ begun \in Nat
    /\ out \in [csid : {2, 6}, todo : Seq(Tokens)]
    /\ last \in [Streams -> [msg : Msgs \cup {NoMsg}, delta : Nat, fmt : 0 .. 2]]
    /\ left \in [Streams -> Seq(WordTokens)]
    /\ \A c \in Streams : left[c] # <<>> => Begun(c)
    /\ out.todo # <<>> => Begun(out.csid)
    /\ writer = "own" => /\ \A c \in Streams : left[c] # <<>> => c = out.csid
                         /\ \A c \in Streams : last[c].fmt = 0
    /\ writer # "own" => out.todo = <<>>

(* The inductive invariant.                                                *)
Parsed ==
    \E Q : \E r : /\ Parse(Q, r, Reader) /\ OnWire(Q[r].rest) /\ Done(Q, r)
                  /\ ~cut => Agrees(Q[Len(Q)].st)
Inv == Types /\ (intact => Sound /\ Parsed)

-----------------------------------------------------------------------------
(* The tokens of a chunk.                                                  *)
Extra(fmt, ts) == IF (fmt = 3 /\ writer = "terse") \/ ts < ExtMark THEN 0 ELSE 1

LEMMA TokenTypes ==
  /\ \A v \in Int : Word(v) \in WordTokens
  /\ \A v \in Nat : Stamp(v) \in Tokens
  /\ \A fmt \in 0 .. 3, c \in Streams, ts \in Nat, len \in Nat, type \in Kinds :
        Header(fmt, c, ts, len, type) \in Tokens
  /\ Seq(WordTokens) \subseteq Seq(Tokens)
  <1>1. \A v \in Int : Word(v) \in WordTokens
    BY DEF Word, WordTokens
  <1>2. \A v \in Nat : Stamp(v) \in Tokens
    BY DEF Stamp, Tokens
  <1>3. ASSUME NEW fmt \in 0 .. 3, NEW c \in Streams, NEW ts \in Nat, NEW len \in Nat,
               NEW type \in Kinds
        PROVE  Header(fmt, c, ts, len, type) \in Tokens
    BY ChunksAssumption DEF Header, Headers, Tokens, ChunksAssumption
  <1>4. Seq(WordTokens) \subseteq Seq(Tokens)
    BY DEF Tokens
  <1> QED
    BY <1>1, <1>2, <1>3, <1>4

LEMMA MsgTypes ==
  ASSUME NEW m \in Msgs
  PROVE  /\ m.type \in Kinds /\ m.type \in {"media", "size", "ack"} /\ m.ts \in Nat
         /\ m.data \in Seq(WordTokens) /\ Len(m.data) \in Nat \ {0}
         /\ m.type = "size" => m.data = <<Word(NewSize)>>
         /\ m.type # "size" => \A i \in 1 .. Len(m.data) : m.data[i].v < 0
  <1>1. m \in [type : {"media", "size", "ack"}, ts : Nat, data : Seq(WordTokens)]
        /\ m.data # <<>>
        /\ (m.type = "size" => m.data = <<Word(NewSize)>>)
        /\ (m.type # "size" => \A i \in 1 .. Len(m.data) : m.data[i].v < 0)
    BY Zenon DEF Msgs
  <1>2. m.type \in {"media", "size", "ack"} /\ m.ts \in Nat /\ m.data \in Seq(WordTokens)
    BY <1>1, Zenon
  <1>3. m.type \in Kinds
    BY <1>2 DEF Kinds
  <1>4. Len(m.data) \in Nat \ {0}
    BY <1>1, <1>2, EmptySeq, LenProperties
  <1> QED
    BY <1>1, <1>2, <1>3, <1>4, Zenon

ChunkShape(t, x, fmt, c, ts, m, words) ==
    /\ t \in Seq(Tokens) /\ Len(t) = 1 + x + Len(words) /\ Len(t) >= 2 /\ x \in {0, 1}
    /\ t[1] = Header(fmt, c, ts, Len(m.data), m.type)
    /\ Second(t) = IF x = 1 THEN Stamp(ts) ELSE words[1]
    /\ SubSeq(t, 2 + x, 1 + x + Len(words)) = words

LEMMA ChunkParts ==
  ASSUME NEW fmt \in 0 .. 3, NEW c \in Streams, NEW ts \in Nat, NEW m \in Msgs,
         NEW words \in Seq(WordTokens), words # <<>>
  PROVE  ChunkShape(Chunk(fmt, c, ts, m, words), Extra(fmt, ts), fmt, c, ts, m, words)
  <1> DEFINE t == Chunk(fmt, c, ts, m, words)
             x == Extra(fmt, ts)
  <1> DEFINE h == Header(fmt, c, ts, Len(m.data), m.type)
  <1>1. h \in Tokens /\ Stamp(ts) \in Tokens /\ words \in Seq(Tokens)
    <2>1. Len(m.data) \in Nat /\ m.type \in Kinds
      BY MsgTypes
    <2> QED
      BY <2>1, TokenTypes
  <1>2. Len(words) \in Nat \ {0}
    BY EmptySeq
  <1> HIDE DEF h
  <1> HIDE DEF t, x
  <1>3. ASSUME x = 0 PROVE ChunkShape(t, x, fmt, c, ts, m, words)
    <2>a. ExtMark \in Nat
      BY ChunksAssumption DEF ChunksAssumption
    <2>b. (fmt = 3 /\ writer = "terse") \/ ~(ts >= ExtMark)
      BY <1>3, <2>a DEF Extra, x
    <2>1. t = <<h>> \o <<>> \o words
      BY <2>b, Zenon DEF Chunk, Ext, h, t
    <2>2. <<h>> \o <<>> = <<h>>
      BY <1>1, ConcatEmptySeq
    <2>3. t = <<h>> \o words
      BY <2>1, <2>2
    <2>4. t \in Seq(Tokens) /\ Len(t) = 1 + Len(words)
          /\ \A i \in 1 .. 1 + Len(words) : t[i] = IF i = 1 THEN h ELSE words[i - 1]
      BY <1>1, <1>2, <2>3
    <2>5. t[1] = h /\ t[2] = words[1]
      BY <1>2, <2>4
    <2>6. SubSeq(t, 2, 1 + Len(words)) = words
      BY <1>1, <1>2, <2>4
    <2> QED
      BY <1>2, <1>3, <2>4, <2>5, <2>6 DEF Second, h, ChunkShape
  <1>4. ASSUME x = 1 PROVE ChunkShape(t, x, fmt, c, ts, m, words)
    <2>a. ExtMark \in Nat
      BY ChunksAssumption DEF ChunksAssumption
    <2>b. ~(fmt = 3 /\ writer = "terse") /\ ts >= ExtMark
      BY <1>4, <2>a DEF Extra, x
    <2>1. t = <<h>> \o <<Stamp(ts)>> \o words
      BY <2>b, Zenon DEF Chunk, Ext, h, t
    <2> DEFINE p == <<h>> \o <<Stamp(ts)>>
    <2>2. <<h>> \in Seq(Tokens) /\ <<Stamp(ts)>> \in Seq(Tokens)
      BY <1>1
    <2>3. p \in Seq(Tokens) /\ Len(p) = 2 /\ p[1] = h /\ p[2] = Stamp(ts)
      BY <2>2
    <2> HIDE DEF p
    <2>4. t \in Seq(Tokens) /\ Len(t) = 2 + Len(words)
          /\ \A i \in 1 .. 2 + Len(words) :
                t[i] = IF i = 1 THEN h ELSE IF i = 2 THEN Stamp(ts) ELSE words[i - 2]
      BY <1>1, <1>2, <2>1, <2>3 DEF p
    <2>5. t[1] = h /\ t[2] = Stamp(ts)
      BY <1>2, <2>4
    <2>6. SubSeq(t, 3, 2 + Len(words)) = words
      BY <1>1, <1>2, <2>4
    <2> QED
      BY <1>2, <1>4, <2>4, <2>5, <2>6 DEF Second, h, ChunkShape
  <1>5. x \in {0, 1}
    BY DEF Extra, x
  <1> QED
    BY <1>3, <1>4, <1>5, Zenon DEF t, x

(* The tokens t are a chunk for the entry cs and leave it as N: the first  *)
(* chunk of the message m, or a later one.                                 *)
ReadsAs(cs, t, size, N) ==
    /\ ~Rejects(cs, t) /\ ReadHeader(cs, t).remain >= 1
    /\ Len(t) = Need(cs, t, size) /\ ReadBody(cs, t, size) = N
Begins(cs, fmt, ts, m, words) ==
    [ts |-> m.ts, delta |-> IF fmt \in {1, 2} THEN ts ELSE cs.delta,
     type |-> m.type, len |-> Len(m.data), fmt |-> IF fmt = 3 THEN cs.fmt ELSE fmt,
     exted |-> ts >= ExtMark, remain |-> Len(m.data) - Len(words), data |-> words]
Continues(cs, words) ==
    [cs EXCEPT !.remain = cs.remain - Len(words), !.data = cs.data \o words]

LEMMA ReaderTypes ==
  ASSUME NEW R \in Readers
  PROVE  /\ R.remote \in Nat \ {0} /\ R.remote \in Sizes
         /\ R.chunks \in [Keys -> Entries] /\ R.got \in Seq(Gots)
  BY ChunksAssumption DEF Readers, Sizes, ChunksAssumption

(* The first chunk of a message, read into an entry that expects one.      *)
LEMMA BeginReads ==
  ASSUME NEW cs \in Entries, cs.remain = 0, NEW size \in Nat \ {0},
         NEW fmt \in 0 .. 3, NEW c \in Streams, NEW ts \in Nat, NEW m \in Msgs,
         NEW words \in Seq(WordTokens), Len(words) = Least(Len(m.data), size),
         fmt \in {2, 3} => cs.len = Len(m.data) /\ cs.type = m.type,
         fmt = 3 => /\ cs.fmt \in {1, 2} /\ cs.delta = ts /\ cs.exted = (ts >= ExtMark)
                    /\ Extra(fmt, ts) = IF ts >= ExtMark THEN 1 ELSE 0,
         m.ts = IF fmt = 0 THEN ts ELSE cs.ts + ts
  PROVE  ReadsAs(cs, Chunk(fmt, c, ts, m, words), size, Begins(cs, fmt, ts, m, words))
  <1> DEFINE t == Chunk(fmt, c, ts, m, words)
             h == Header(fmt, c, ts, Len(m.data), m.type)
             x == Extra(fmt, ts)
             e == [ts |-> m.ts, delta |-> IF fmt \in {1, 2} THEN ts ELSE cs.delta,
                   type |-> m.type, len |-> Len(m.data), fmt |-> IF fmt = 3 THEN cs.fmt ELSE fmt,
                   exted |-> ts >= ExtMark, remain |-> Len(m.data), data |-> <<>>]
  <1>1. ExtMark \in Nat
    BY ChunksAssumption DEF ChunksAssumption
  <1>2. m.ts \in Nat /\ m.type \in Kinds /\ Len(m.data) \in Nat \ {0}
    BY MsgTypes
  <1>3. Len(words) \in Nat \ {0} /\ words # <<>>
    BY <1>2, EmptySeq DEF Least
  <1>x. x = Extra(fmt, ts)
    OBVIOUS
  <1> HIDE DEF x
  <1>c. ChunkShape(t, x, fmt, c, ts, m, words)
    BY <1>3, <1>x, ChunkParts, Zenon DEF t
  <1>4. /\ t \in Seq(Tokens) /\ Len(t) = 1 + x + Len(words) /\ x \in {0, 1}
        /\ t[1] = h /\ Second(t) = IF x = 1 THEN Stamp(ts) ELSE words[1]
        /\ SubSeq(t, 2 + x, 1 + x + Len(words)) = words
    BY <1>c, Zenon DEF ChunkShape
  <1>5. h.fmt = fmt /\ h.len = Len(m.data) /\ h.type = m.type
        /\ h.ts = (IF ts >= ExtMark THEN ExtMark ELSE ts)
    BY DEF Header
  <1>6. x = IF ts >= ExtMark THEN 1 ELSE 0
    BY <1>1, <1>x DEF Extra
  <1>7. Stamp(ts).k # "header" /\ Stamp(ts).v = ts
    BY DEF Stamp
  <1>8. (h.ts = ExtMark) = (ts >= ExtMark)
    BY <1>1, <1>5
  <1>9. cs = [ts |-> cs.ts, delta |-> cs.delta, len |-> cs.len, type |-> cs.type,
              fmt |-> cs.fmt, exted |-> cs.exted, remain |-> cs.remain, data |-> cs.data]
        /\ cs.ts \in Int /\ cs.delta \in Int /\ cs.exted \in BOOLEAN
    BY DEF Entries, Fields
  <1> HIDE DEF h, x, t
  <1>10. ReadHeader(cs, t) = BeginChunk(cs, h, Second(t))
    BY <1>4 DEF ReadHeader
  <1>11. BeginChunk(cs, h, Second(t)) = e
    <2> DEFINE ext == IF h.fmt = 3 THEN cs.exted ELSE h.ts = ExtMark
               n == Second(t)
               raw == IF ext THEN (IF n.k = "header" THEN 0 ELSE n.v) ELSE h.ts
               f == IF h.fmt = 3 THEN cs.fmt ELSE h.fmt
               len == IF h.fmt \in {0, 1} THEN h.len ELSE cs.len
    <2>1. ext = (ts >= ExtMark)
      BY <1>5, <1>8
    <2>2. h.fmt # 3 \/ ext => raw = ts
      BY <2>1, <1>1, <1>4, <1>5, <1>6, <1>7
    <2>3. f = (IF fmt = 3 THEN cs.fmt ELSE fmt) /\ len = Len(m.data)
      BY <1>5
    <2>4. BeginChunk(cs, h, n) =
           [ts |-> IF f # 0 THEN cs.ts + (IF h.fmt = 3 /\ ~ext THEN cs.delta ELSE raw)
                   ELSE IF h.fmt = 3 /\ ~ext THEN cs.ts ELSE raw,
            delta |-> IF h.fmt \in {1, 2} THEN (IF h.fmt = 3 /\ ~ext THEN cs.delta ELSE raw)
                      ELSE cs.delta,
            type |-> IF h.fmt \in {0, 1} THEN h.type ELSE cs.type, len |-> len,
            fmt |-> f, exted |-> ext, remain |-> len, data |-> <<>>]
      BY Zenon DEF BeginChunk
    <2> HIDE DEF ext, raw, f, len, n
    <2>5. (IF h.fmt = 3 /\ ~ext THEN cs.delta ELSE raw) = ts
      BY <2>2, <1>5
    <2>6. (IF f # 0 THEN cs.ts + ts ELSE IF h.fmt = 3 /\ ~ext THEN cs.ts ELSE raw) = m.ts
      BY <2>2, <2>3, <1>5, <1>9
    <2>7. (IF h.fmt \in {0, 1} THEN h.type ELSE cs.type) = m.type
      BY <1>5
    <2>8. (IF h.fmt \in {1, 2} THEN ts ELSE cs.delta)
            = (IF fmt \in {1, 2} THEN ts ELSE cs.delta)
      BY <1>5
    <2>9. BeginChunk(cs, h, n) =
           [ts |-> m.ts, delta |-> IF fmt \in {1, 2} THEN ts ELSE cs.delta,
            type |-> m.type, len |-> len, fmt |-> f, exted |-> ext, remain |-> len,
            data |-> <<>>]
      BY <2>4, <2>5, <2>6, <2>7, <2>8, Zenon
    <2> QED
      BY <2>1, <2>3, <2>9, Zenon DEF n
  <1>12. e.remain = Len(m.data) /\ e.exted = (ts >= ExtMark) /\ e.data = <<>>
    OBVIOUS
  <1>13. ReadHeader(cs, t) = e
    BY <1>10, <1>11
  <1>14. Skip(cs, t) = x
    BY <1>6, <1>12, <1>13, Zenon DEF Skip
  <1>15. Words(cs, t, size) = Len(words)
    BY <1>12, <1>13 DEF Words
  <1>16. Need(cs, t, size) = 1 + x + Len(words)
    BY <1>14, <1>15 DEF Need
  <1>17. ReadBody(cs, t, size) = [e EXCEPT !.remain = Len(m.data) - Len(words),
                                           !.data = <<>> \o words]
    BY <1>4, <1>12, <1>13, <1>14, <1>15, <1>16 DEF ReadBody
  <1>18. <<>> \o words = words
    BY ConcatEmptySeq
  <1>19. ReadBody(cs, t, size) = Begins(cs, fmt, ts, m, words)
    BY <1>17, <1>18 DEF Begins
  <1> QED
    BY <1>2, <1>4, <1>12, <1>13, <1>16, <1>19 DEF Rejects, ReadsAs, t

(* A later chunk of a message: an extended time stamp is recognised if it  *)
(* is repeated, and no payload is taken for it.                            *)
LEMMA ContinueReads ==
  ASSUME NEW cs \in Entries, NEW size \in Nat \ {0}, cs.remain # 0, cs.ts \in Nat,
         NEW c \in Streams, NEW ts \in Nat, NEW m \in Msgs,
         NEW words \in Seq(WordTokens), Len(words) = Least(cs.remain, size),
         words[1].v < 0,
         cs.exted = (ts >= ExtMark),
         ts >= ExtMark /\ writer # "terse" => cs.ts = ts
  PROVE  ReadsAs(cs, Chunk(3, c, ts, m, words), size, Continues(cs, words))
  <1> DEFINE t == Chunk(3, c, ts, m, words)
             x == Extra(3, ts)
  <1>1. ExtMark \in Nat
    BY ChunksAssumption DEF ChunksAssumption
  <1>2. cs.remain \in Nat \ {0}
    BY DEF Entries, Fields
  <1>3. Len(words) \in Nat \ {0} /\ words # <<>> /\ 3 \in 0 .. 3
    BY <1>2, EmptySeq DEF Least
  <1>x. x = Extra(3, ts)
    OBVIOUS
  <1> HIDE DEF x
  <1>c. ChunkShape(t, x, 3, c, ts, m, words)
    BY <1>3, <1>x, ChunkParts, Zenon DEF t
  <1>4. /\ t \in Seq(Tokens) /\ Len(t) = 1 + x + Len(words) /\ x \in {0, 1}
        /\ t[1] = Header(3, c, ts, Len(m.data), m.type)
        /\ Second(t) = IF x = 1 THEN Stamp(ts) ELSE words[1]
        /\ SubSeq(t, 2 + x, 1 + x + Len(words)) = words
    BY <1>c, Zenon DEF ChunkShape
  <1> HIDE DEF t
  <1>5. t[1].fmt = 3
    BY <1>4 DEF Header
  <1>6. ReadHeader(cs, t) = cs
    BY <1>2, Zenon DEF ReadHeader
  <1>7. words[1] \in WordTokens
    BY <1>3
  <1>8. Skip(cs, t) = x
    <2>1. CASE ~(ts >= ExtMark)
      <3>1. x = 0
        BY <2>1, <1>x, <1>1 DEF Extra
      <3>2. ~cs.exted
        BY <2>1
      <3> QED
        BY <3>1, <3>2, <1>6, Zenon DEF Skip
    <2>2. CASE ts >= ExtMark /\ writer # "terse"
      <3>1. x = 1 /\ Second(t) = Stamp(ts)
        BY <2>2, <1>x, <1>1, <1>4 DEF Extra
      <3>2. Peek(cs, Second(t)) = 1
        BY <2>2, <3>1 DEF Peek, Stamp
      <3> QED
        BY <2>2, <3>1, <3>2, <1>6 DEF Skip
    <2>3. CASE ts >= ExtMark /\ writer = "terse"
      <3>1. x = 0 /\ Second(t) = words[1]
        BY <2>3, <1>x, <1>1, <1>4 DEF Extra
      <3>2. words[1].v # cs.ts
        OBVIOUS
      <3>3. Peek(cs, Second(t)) = 0
        BY <3>1, <3>2 DEF Peek
      <3> QED
        BY <2>3, <3>1, <3>3, <1>6 DEF Skip
    <2> QED
      BY <2>1, <2>2, <2>3
  <1>9. Words(cs, t, size) = Len(words)
    BY <1>6 DEF Words
  <1>10. Need(cs, t, size) = 1 + x + Len(words)
    BY <1>8, <1>9 DEF Need
  <1>11. ReadBody(cs, t, size) =
           [cs EXCEPT !.remain = cs.remain - Len(words), !.data = cs.data \o words]
    BY <1>4, <1>6, <1>8, <1>9, <1>10 DEF ReadBody
  <1>12. ReadBody(cs, t, size) = Continues(cs, words)
    BY <1>11, Zenon DEF Continues
  <1>13. ReadHeader(cs, t).remain >= 1
    BY <1>2, <1>6
  <1>14. ~Rejects(cs, t) /\ Len(t) = Need(cs, t, size)
    BY <1>4, <1>5, <1>10 DEF Rejects
  <1> QED
    BY <1>12, <1>13, <1>14, Zenon DEF ReadsAs, t

-----------------------------------------------------------------------------
LEMMA TokensAssociate ==
  ASSUME NEW a \in Seq(Tokens), NEW b \in Seq(Tokens), NEW d \in Seq(Tokens)
  PROVE  (a \o b) \o d = a \o (b \o d)
  OBVIOUS

LEMMA TokensConcat ==
  ASSUME NEW a \in Seq(Tokens), NEW b \in Seq(Tokens)
  PROVE  a \o b \in Seq(Tokens) /\ Len(a \o b) = Len(a) + Len(b)
  OBVIOUS

LEMMA TokensItems ==
  ASSUME NEW a \in Seq(Tokens), NEW b \in Seq(Tokens)
  PROVE  /\ a \o b \in Seq(Tokens) /\ Len(a \o b) = Len(a) + Len(b)
         /\ \A i \in 1 .. Len(a) : (a \o b)[i] = a[i]
         /\ \A i \in 1 .. Len(b) : (a \o b)[Len(a) + i] = b[i]
  OBVIOUS

(* A chunk is added at the end of the stream.                              *)
LEMMA Extend ==
  ASSUME NEW Q, NEW r, NEW R, Parse(Q, r, R), NEW t \in Seq(Tokens), t # <<>>,
         Good(Q[Len(Q)].st, t), After(Q[Len(Q)].st, t) \in Readers
  PROVE  \E P : /\ Parse(P, r, R) /\ Len(P) = Len(Q) + 1
                /\ P[r].rest = Q[r].rest \o t
                /\ P[Len(P)].st = After(Q[Len(Q)].st, t)
                /\ \A j \in 1 .. Len(Q) : P[j].st = Q[j].st
  <1> DEFINE n == Len(Q)
             E == Q[n].st
             old(j) == [tok |-> Q[j].tok, st |-> Q[j].st, rest |-> Q[j].rest \o t]
             new == [tok |-> t, st |-> After(E, t), rest |-> <<>>]
             P == [j \in 1 .. n + 1 |-> IF j <= n THEN old(j) ELSE new]
  <1>1. Q \in Seq(Descs) /\ r \in 1 .. n /\ n \in Nat \ {0}
    BY DEF Parse
  <1>2. ASSUME NEW j \in 1 .. n
        PROVE  /\ Q[j] \in Descs /\ Q[j].tok \in Seq(Tokens) /\ Q[j].st \in Readers
               /\ Q[j].rest \in Seq(Tokens)
    <2>1. Q[j] \in Descs
      BY <1>1
    <2> QED
      BY <2>1 DEF Descs
  <1>3. \A j \in 1 .. n : old(j) \in Descs /\ old(j).st = Q[j].st /\ old(j).tok = Q[j].tok
                          /\ old(j).rest = Q[j].rest \o t
    BY <1>2 DEF Descs
  <1>4. new \in Descs /\ new.tok = t /\ new.st = After(E, t) /\ new.rest = <<>>
    BY DEF Descs
  <1> HIDE DEF old, new
  <1>5. P \in Seq(Descs) /\ Len(P) = n + 1
    <2>1. \A j \in 1 .. n + 1 : (IF j <= n THEN old(j) ELSE new) \in Descs
      BY <1>1, <1>3, <1>4
    <2> QED
      BY <1>1, <2>1
  <1>6. (\A j \in 1 .. n : P[j] = old(j)) /\ P[n + 1] = new
    BY <1>1
  <1> HIDE DEF P
  <1>7. ASSUME NEW j \in 1 .. n
        PROVE  Follows(P[j], P[j + 1])
    <2>1. CASE j = n
      <3>1. P[j].st = E /\ P[j + 1] = new /\ P[j].rest = Q[n].rest \o t
        BY <1>1, <2>1, <1>3, <1>6
      <3>2. Q[n].rest = <<>>
        BY DEF Parse
      <3>3. P[j].rest = t
        BY <3>1, <3>2, ConcatEmptySeq
      <3>4. t \o <<>> = t
        BY ConcatEmptySeq
      <3> QED
        BY <3>1, <3>3, <3>4, <1>4 DEF Follows
    <2>2. CASE j # n
      <3>1. j \in 1 .. n - 1 /\ j + 1 \in 1 .. n
        BY <1>1, <2>2
      <3>2. Follows(Q[j], Q[j + 1])
        BY <3>1 DEF Parse
      <3>3. P[j] = old(j) /\ P[j + 1] = old(j + 1)
        BY <3>1, <1>6
      <3>4. Q[j].rest \o t = Q[j + 1].tok \o (Q[j + 1].rest \o t)
        <4>1. Q[j].rest = Q[j + 1].tok \o Q[j + 1].rest
          BY <3>2 DEF Follows
        <4>2. Q[j + 1].tok \in Seq(Tokens) /\ Q[j + 1].rest \in Seq(Tokens)
          BY <3>1, <1>2
        <4>3. (Q[j + 1].tok \o Q[j + 1].rest) \o t = Q[j + 1].tok \o (Q[j + 1].rest \o t)
          BY <4>2, TokensAssociate
        <4> QED
          BY <4>1, <4>3, Zenon
      <3> QED
        BY <3>1, <3>2, <3>3, <3>4, <1>3 DEF Follows
    <2> QED
      BY <2>1, <2>2
  <1>8. Parse(P, r, R)
    <2>1. P[r].st = R
      BY <1>1, <1>3, <1>6 DEF Parse
    <2>2. P[Len(P)].rest = <<>>
      BY <1>4, <1>5, <1>6
    <2>3. r \in 1 .. Len(P)
      BY <1>1, <1>5
    <2>4. \A j \in 1 .. Len(P) - 1 : Follows(P[j], P[j + 1])
      BY <1>1, <1>5, <1>7
    <2> QED
      BY <1>5, <2>1, <2>2, <2>3, <2>4 DEF Parse
  <1>9. P[r].rest = Q[r].rest \o t /\ P[Len(P)].st = After(E, t)
        /\ \A j \in 1 .. n : P[j].st = Q[j].st
    BY <1>1, <1>3, <1>4, <1>5, <1>6
  <1> QED
    BY <1>5, <1>8, <1>9

(* The reader goes on by a chunk.                                          *)
LEMMA Advance ==
  ASSUME NEW Q, NEW r, NEW R, Parse(Q, r, R), r # Len(Q)
  PROVE  /\ r + 1 \in 1 .. Len(Q)
         /\ Good(R, Q[r + 1].tok) /\ Q[r].rest = Q[r + 1].tok \o Q[r + 1].rest
         /\ Parse(Q, r + 1, After(R, Q[r + 1].tok))
         /\ Q[r].rest \in Seq(Tokens) /\ Q[r + 1].rest \in Seq(Tokens)
         /\ Q[r + 1].tok \in Seq(Tokens)
         /\ R \in Readers /\ Q[r + 1].st \in Readers
  <1>1. Q \in Seq(Descs) /\ r \in 1 .. Len(Q) - 1 /\ r + 1 \in 1 .. Len(Q) /\ Len(Q) \in Nat
    BY DEF Parse
  <1>2. Follows(Q[r], Q[r + 1]) /\ Q[r].st = R
    BY <1>1 DEF Parse
  <1>3. Q[r] \in Descs /\ Q[r + 1] \in Descs
    BY <1>1
  <1>4. Parse(Q, r + 1, After(R, Q[r + 1].tok))
    BY <1>1, <1>2 DEF Parse, Follows
  <1> QED
    BY <1>1, <1>2, <1>3, <1>4 DEF Follows, Descs

-----------------------------------------------------------------------------
(* What the reader does depends on the first tokens.                       *)
LEMMA SkipType ==
  ASSUME NEW cs, NEW w
  PROVE  Skip(cs, w) \in {0, 1}
  BY DEF Skip, Peek

LEMMA ReadsSame ==
  ASSUME NEW cs, NEW size, NEW w \in Seq(Tokens), NEW t \in Seq(Tokens),
         Len(t) >= 2, Len(w) >= 2, w[1] = t[1], w[2] = t[2]
  PROVE  /\ ReadHeader(cs, w) = ReadHeader(cs, t) /\ Skip(cs, w) = Skip(cs, t)
         /\ Words(cs, w, size) = Words(cs, t, size) /\ Need(cs, w, size) = Need(cs, t, size)
  <1>1. Second(w) = Second(t)
    BY DEF Second
  <1>2. ReadHeader(cs, w) = ReadHeader(cs, t)
    BY <1>1, Zenon DEF ReadHeader
  <1>3. Skip(cs, w) = Skip(cs, t)
    BY <1>1, <1>2, Zenon DEF Skip
  <1>4. Words(cs, w, size) = Words(cs, t, size)
    BY <1>2, Zenon DEF Words
  <1> QED
    BY <1>2, <1>3, <1>4, Zenon DEF Need

LEMMA ReadsFirst ==
  ASSUME NEW cs, NEW w, NEW t, w[1] = t[1]
  PROVE  ReadHeader(cs, w).remain = ReadHeader(cs, t).remain
  <1>1. CASE cs.remain # 0
    BY <1>1, Zenon DEF ReadHeader
  <1>2. CASE cs.remain = 0
    <2>1. ReadHeader(cs, w) = BeginChunk(cs, t[1], Second(w))
          /\ ReadHeader(cs, t) = BeginChunk(cs, t[1], Second(t))
      BY <1>2, Zenon DEF ReadHeader
    <2>2. \A next : BeginChunk(cs, t[1], next).remain
                      = IF t[1].fmt \in {0, 1} THEN t[1].len ELSE cs.len
      BY DEF BeginChunk
    <2> QED
      BY <2>1, <2>2, Zenon
  <1> QED
    BY <1>1, <1>2

LEMMA GoodLength ==
  ASSUME NEW R \in Readers, NEW t \in Seq(Tokens), Good(R, t)
  PROVE  /\ Len(t) >= 2 /\ t # <<>> /\ t[1] \in Headers /\ Key(t[1].csid) \in Keys
         /\ ReadHeader(Entry(R, t), t).remain \in Nat \ {0}
         /\ Entry(R, t) \in Entries /\ R.remote \in Nat \ {0}
  <1>1. t[1].csid \in Streams /\ t[1].k = "header" /\ ReadHeader(Entry(R, t), t).remain >= 1
        /\ Len(t) >= 2
    BY DEF Good
  <1>a. t # <<>> /\ t[1] \in Tokens
    BY <1>1
  <1>b. t[1] \in Headers
    BY <1>a, <1>1 DEF Tokens, WordTokens
  <1>2. R.remote \in Nat \ {0} /\ R.chunks \in [Keys -> Entries]
    BY ReaderTypes
  <1>3. Key(t[1].csid) \in Keys
    BY <1>1 DEF Keys
  <1>4. Entry(R, t) \in Entries
    BY <1>2, <1>3 DEF Entry
  <1> DEFINE n == ReadHeader(Entry(R, t), t).remain
  <1>5. n \in Nat
    <2>1. CASE Entry(R, t).remain # 0
      BY <2>1, <1>4 DEF ReadHeader, Entries, Fields
    <2>2. CASE Entry(R, t).remain = 0
      <3>1. n = IF t[1].fmt \in {0, 1} THEN t[1].len ELSE Entry(R, t).len
        BY <2>2 DEF ReadHeader, BeginChunk
      <3>2. t[1].len \in Nat
        BY <1>b DEF Headers
      <3>3. Entry(R, t).len \in Nat
        BY <1>4 DEF Entries, Fields
      <3> QED
        BY <3>1, <3>2, <3>3
    <2> QED
      BY <2>1, <2>2
  <1> HIDE DEF n
  <1>6. n \in Nat \ {0}
    BY <1>1, <1>5 DEF n
  <1> QED
    BY <1>1, <1>a, <1>b, <1>2, <1>3, <1>4, <1>6 DEF n

LEMMA SameSubSeq ==
  ASSUME NEW a \in Seq(Tokens), NEW b \in Seq(Tokens), NEW i \in Nat \ {0}, NEW n \in Nat,
         n <= Len(a), n <= Len(b), \A j \in 1 .. n : a[j] = b[j]
  PROVE  SubSeq(a, i, n) = SubSeq(b, i, n)
  OBVIOUS

(* ReadChunk takes the next chunk from the wire, or leaves everything.     *)
LEMMA ReadEffect ==
  ASSUME wire \in Seq(Tokens), NEW Q, NEW r, Parse(Q, r, Reader), Prefix(wire, Q[r].rest),
         ReadChunk
  PROVE  \/ UNCHANGED <<wire, remote, chunks, received>>
         \/ /\ r # Len(Q) /\ Len(Q[r + 1].tok) <= Len(wire)
            /\ wire' = SubSeq(wire, Len(Q[r + 1].tok) + 1, Len(wire))
            /\ Reader' = After(Reader, Q[r + 1].tok)
  <1>1. CASE wire = <<>>
    BY <1>1 DEF ReadChunk, ReadFails
  <1>2. CASE wire # <<>>
    <2> DEFINE t == Q[r + 1].tok
    <2>1. Len(wire) \in Nat \ {0}
      BY <1>2, EmptySeq
    <2>2. r # Len(Q)
      <3>1. Len(Q[r].rest) >= 1
        BY <2>1 DEF Prefix
      <3>2. Q[Len(Q)].rest = <<>>
        BY DEF Parse
      <3> QED
        BY <3>1, <3>2
    <2>3. Good(Reader, t) /\ Q[r].rest = t \o Q[r + 1].rest /\ Q[r].rest \in Seq(Tokens)
          /\ Q[r + 1].rest \in Seq(Tokens) /\ t \in Seq(Tokens) /\ Reader \in Readers
      BY <2>2, Advance
    <2> HIDE DEF t
    <2>4. Len(t) >= 2 /\ t[1] \in Headers /\ ReadHeader(Entry(Reader, t), t).remain \in Nat \ {0}
          /\ Reader.remote \in Nat \ {0} /\ Key(t[1].csid) \in Keys
      BY <2>3, GoodLength
    <2>5. \A i \in 1 .. Len(t) : i <= Len(wire) => wire[i] = t[i]
      <3> SUFFICES ASSUME NEW i \in 1 .. Len(t), i <= Len(wire) PROVE wire[i] = t[i]
        OBVIOUS
      <3>1. Q[r].rest[i] = t[i]
        BY <2>3
      <3>2. wire[i] = Q[r].rest[i]
        BY <2>1 DEF Prefix
      <3> QED
        BY <3>1, <3>2
    <2>6. wire[1] = t[1]
      BY <2>1, <2>4, <2>5
    <2> DEFINE key == Key(wire[1].csid)
               cs == chunks[key]
    <2>7. Reader.chunks = chunks /\ Reader.remote = remote /\ Reader.got = received
      BY DEF Reader
    <2>8. cs = Entry(Reader, t) /\ wire[1].k = "header" /\ ~Rejects(cs, wire)
      BY <2>3, <2>4, <2>6, <2>7 DEF Entry, Rejects, Good
    <2>9. IF Len(wire) < Need(cs, wire, remote) THEN cut /\ ReadFails
          ELSE /\ wire' = SubSeq(wire, Need(cs, wire, remote) + 1, Len(wire))
               /\ chunks' = [chunks EXCEPT ![key] = ReadBody(cs, wire, remote)]
               /\ received' = IF ~(ReadBody(cs, wire, remote).remain = 0) THEN received
                              ELSE Append(received, AsGot(ReadBody(cs, wire, remote)))
               /\ remote' = IF ReadBody(cs, wire, remote).remain = 0
                            THEN HandleControlMsg(ReadBody(cs, wire, remote), remote)
                            ELSE remote
      BY <1>2, <2>8, Zenon DEF ReadChunk, AsGot
    <2> HIDE DEF key, cs
    <2>10. CASE Len(wire) < Need(cs, wire, remote)
      BY <2>9, <2>10 DEF ReadFails
    <2>11. CASE ~(Len(wire) < Need(cs, wire, remote))
      <3>1. ReadHeader(cs, wire).remain \in Nat \ {0}
        BY <2>4, <2>6, <2>8, ReadsFirst
      <3>2. Need(cs, wire, remote) >= 2 /\ Need(cs, wire, remote) \in Nat
        BY <3>1, <2>4, <2>7, SkipType DEF Need, Words, Least
      <3>3. Len(wire) >= 2
        BY <2>1, <2>11, <3>2
      <3>4. wire[2] = t[2]
        BY <2>4, <2>5, <3>3
      <3>5. ReadHeader(cs, wire) = ReadHeader(cs, t) /\ Skip(cs, wire) = Skip(cs, t)
            /\ Words(cs, wire, remote) = Words(cs, t, remote)
            /\ Need(cs, wire, remote) = Need(cs, t, remote)
        BY <2>3, <2>4, <2>6, <3>3, <3>4, ReadsSame
      <3>6. Need(cs, t, remote) = Len(t)
        BY <2>3, <2>7, <2>8 DEF Good
      <3>7. Len(t) <= Len(wire) /\ Len(t) \in Nat
        BY <2>1, <2>3, <2>11, <3>5, <3>6
      <3>8. SubSeq(wire, 2 + Skip(cs, t), Len(t)) = SubSeq(t, 2 + Skip(cs, t), Len(t))
        <4>1. Skip(cs, t) \in {0, 1}
          BY SkipType
        <4>2. 2 + Skip(cs, t) \in Nat \ {0}
          BY <4>1
        <4>3. \A j \in 1 .. Len(t) : wire[j] = t[j]
          BY <2>1, <2>5, <3>7
        <4> QED
          BY <4>2, <4>3, <2>3, <3>7, SameSubSeq
      <3>9. ReadBody(cs, wire, remote) = ReadBody(cs, t, remote)
        BY <3>5, <3>6, <3>8 DEF ReadBody
      <3>10. chunks' = [chunks EXCEPT ![Key(t[1].csid)] = ReadBody(cs, t, remote)]
             /\ received' = (IF ReadBody(cs, t, remote).remain = 0
                             THEN Append(received, AsGot(ReadBody(cs, t, remote))) ELSE received)
             /\ remote' = (IF ReadBody(cs, t, remote).remain = 0
                           THEN HandleControlMsg(ReadBody(cs, t, remote), remote) ELSE remote)
             /\ wire' = SubSeq(wire, Len(t) + 1, Len(wire))
        BY <2>6, <2>9, <2>11, <3>5, <3>6, <3>9, Zenon DEF key
      <3>11. Reader' = After(Reader, t)
        BY <3>10, <2>7, <2>8, Zenon DEF Reader, After
      <3> QED
        BY <2>2, <3>7, <3>10, <3>11 DEF t
    <2> QED
      BY <2>10, <2>11
  <1> QED
    BY <1>1, <1>2

-----------------------------------------------------------------------------
(* Steps that leave the writer alone.                                      *)
LEMMA AgreesFrame ==
  ASSUME NEW E, Agrees(E), UNCHANGED <<wVars, sent>>
  PROVE  Agrees(E)'
  BY DEF Agrees, Promised, Entangled, Owes, Match, Begun, Fresh, Delta, wVars

LEMMA SoundFrame ==
  ASSUME Sound, UNCHANGED wVars
  PROVE  Sound'
  BY DEF Sound, Begun, Fresh, wVars

Dropped(v, t, rest, w) ==
    /\ v \in Seq(Tokens) /\ Len(v) = Len(w) - Len(t) /\ Prefix(v, rest)
    /\ \A d \in Seq(Tokens) : t \o rest = w \o d => rest = v \o d

(* Of w, which begins t \o rest, the first part t is dropped.              *)
LEMMA DropFront ==
  ASSUME NEW t \in Seq(Tokens), NEW rest \in Seq(Tokens), NEW w \in Seq(Tokens),
         Prefix(w, t \o rest), Len(t) <= Len(w)
  PROVE  Dropped(SubSeq(w, Len(t) + 1, Len(w)), t, rest, w)
  <1> DEFINE v == SubSeq(w, Len(t) + 1, Len(w))
  <1>1. v \in Seq(Tokens) /\ Len(v) = Len(w) - Len(t)
        /\ \A i \in 1 .. Len(v) : v[i] = w[Len(t) + i]
    OBVIOUS
  <1> HIDE DEF v
  <1>2. Len(t \o rest) = Len(t) + Len(rest)
        /\ \A i \in 1 .. Len(rest) : (t \o rest)[Len(t) + i] = rest[i]
    OBVIOUS
  <1>3. Len(t) \in Nat /\ Len(w) \in Nat /\ Len(rest) \in Nat
    OBVIOUS
  <1>4. Prefix(v, rest)
    <2>1. Len(v) <= Len(rest)
      BY <1>1, <1>2, <1>3 DEF Prefix
    <2>2. ASSUME NEW i \in 1 .. Len(v) PROVE v[i] = rest[i]
      <3>1. Len(t) + i \in 1 .. Len(w) /\ i \in 1 .. Len(rest)
        BY <1>1, <1>3, <2>1
      <3>2. w[Len(t) + i] = (t \o rest)[Len(t) + i]
        BY <3>1 DEF Prefix
      <3> QED
        BY <1>1, <1>2, <3>1, <3>2
    <2> QED
      BY <2>1, <2>2 DEF Prefix
  <1>5. ASSUME NEW d \in Seq(Tokens), t \o rest = w \o d
        PROVE  rest = v \o d
    <2>1. Len(rest) = Len(v) + Len(d)
      BY <1>1, <1>2, <1>3, <1>5
    <2>2. ASSUME NEW i \in 1 .. Len(rest) PROVE rest[i] = (v \o d)[i]
      <3>1. rest[i] = (w \o d)[Len(t) + i]
        BY <1>2, <1>5
      <3>2. CASE i <= Len(v)
        BY <3>1, <3>2, <1>1, <1>3
      <3>3. CASE ~(i <= Len(v))
        BY <3>1, <3>3, <1>1, <1>3, <2>1
      <3> QED
        BY <3>2, <3>3
    <2>3. v \o d \in Seq(Tokens) /\ Len(v \o d) = Len(v) + Len(d)
      BY <1>1, TokensConcat, Zenon
    <2> QED
      BY <2>1, <2>2, <2>3, SeqEqual
  <1> QED
    BY <1>1, <1>4, <1>5 DEF Dropped, v

(* Conn.Read keeps the invariant, and returns what was sent.               *)
LEMMA ReadStep ==
  ASSUME Inv, intact, ReadChunk
  PROVE  /\ Parsed'
         /\ \/ received' = received
            \/ /\ Len(received) < Len(sent)
               /\ received' = Append(received, sent[Len(received) + 1])
  <1>1. wire \in Seq(Tokens) /\ sent \in Seq(Msgs) /\ out.todo \in Seq(Tokens)
    BY DEF Inv, Types
  <1>2. UNCHANGED <<cut, wVars, sent, intact>>
    BY DEF ReadChunk
  <1>3. PICK Q : \E r : /\ Parse(Q, r, Reader) /\ OnWire(Q[r].rest) /\ Done(Q, r)
                        /\ (~cut => Agrees(Q[Len(Q)].st))
    BY Zenon DEF Inv, Parsed
  <1>4. PICK r : /\ Parse(Q, r, Reader) /\ OnWire(Q[r].rest) /\ Done(Q, r)
                 /\ (~cut => Agrees(Q[Len(Q)].st))
    BY <1>3, Zenon
  <1>5. ~cut' => Agrees(Q[Len(Q)].st)'
    BY <1>2, <1>4, AgreesFrame
  <1>6. cut' = cut /\ sent' = sent /\ out' = out
    BY <1>2 DEF wVars
  <1>7. \/ UNCHANGED <<wire, remote, chunks, received>>
        \/ /\ r # Len(Q) /\ Len(Q[r + 1].tok) <= Len(wire)
           /\ wire' = SubSeq(wire, Len(Q[r + 1].tok) + 1, Len(wire))
           /\ Reader' = After(Reader, Q[r + 1].tok)
    BY <1>1, <1>4, ReadEffect DEF OnWire
  <1>8. CASE UNCHANGED <<wire, remote, chunks, received>>
    <2>1. Reader' = Reader /\ wire' = wire
      BY <1>8 DEF Reader
    <2>2. Parse(Q, r, Reader')
      BY <1>4, <2>1
    <2>3. OnWire(Q[r].rest)' /\ Done(Q, r)'
      BY <1>4, <1>6, <2>1 DEF OnWire, Done, Prefix
    <2> QED
      BY <1>5, <1>8, <2>2, <2>3, Zenon DEF Parsed
  <1>9. CASE /\ r # Len(Q) /\ Len(Q[r + 1].tok) <= Len(wire)
             /\ wire' = SubSeq(wire, Len(Q[r + 1].tok) + 1, Len(wire))
             /\ Reader' = After(Reader, Q[r + 1].tok)
    <2> DEFINE t == Q[r + 1].tok
               rest == Q[r + 1].rest
    <2>1. /\ r + 1 \in 1 .. Len(Q) /\ Q[r].rest = t \o rest /\ rest \in Seq(Tokens)
          /\ Parse(Q, r + 1, After(Reader, t)) /\ t \in Seq(Tokens) /\ Reader \in Readers
          /\ Q[r + 1].st \in Readers /\ r \in 1 .. Len(Q) /\ Len(Q) \in Nat
      <3>1. r \in 1 .. Len(Q) /\ Len(Q) \in Nat
        BY <1>4 DEF Parse
      <3> QED
        BY <3>1, <1>4, <1>9, Advance, Zenon
    <2>2. Parse(Q, r + 1, Reader')
      BY <1>9, <2>1
    <2>3. Prefix(wire, t \o rest) /\ (~cut => t \o rest = wire \o out.todo)
      BY <1>4, <2>1 DEF OnWire
    <2> HIDE DEF t, rest
    <2>4. wire' = SubSeq(wire, Len(t) + 1, Len(wire)) /\ Len(t) <= Len(wire)
      BY <1>9 DEF t
    <2>5. /\ Len(wire') = Len(wire) - Len(t) /\ Prefix(wire', rest)
          /\ (~cut => rest = wire' \o out.todo)
      <3>1. /\ Len(wire') = Len(wire) - Len(t) /\ Prefix(wire', rest)
            /\ \A d \in Seq(Tokens) : t \o rest = wire \o d => rest = wire' \o d
        <4>1. Dropped(SubSeq(wire, Len(t) + 1, Len(wire)), t, rest, wire)
          BY <1>1, <2>1, <2>3, <2>4, DropFront
        <4> QED
          BY <4>1, <2>4, Zenon DEF Dropped
      <3> QED
        BY <3>1, <1>1, <2>3, Zenon
    <2>6. OnWire(rest)'
      BY <2>5, <1>6 DEF OnWire, Prefix
    <2>7. Len(t \o rest) = Len(t) + Len(rest) /\ Len(t) \in Nat /\ Len(rest) \in Nat
          /\ Len(wire) \in Nat
      BY <1>1, <2>1
    <2>8. Done(Q, r + 1)'
      <3>1. Len(wire') = Len(rest) => Len(wire) = Len(Q[r].rest)
        <4>1. Len(Q[r].rest) = Len(t) + Len(rest)
          BY <2>1, <2>7, Zenon
        <4> QED
          BY <4>1, <2>5, <2>7
      <3> QED
        BY <3>1, <1>4, <1>6 DEF Done, Prefix, rest
    <2>9. Parsed'
      BY <1>5, <2>2, <2>6, <2>8, Zenon DEF Parsed, rest
    <2>10. Prefix(received', sent)
      <3>1. received' = Q[r + 1].st.got
        BY <2>1, <2>2 DEF Parse, Reader
      <3>2. CASE r + 1 = Len(Q)
        <4>1. rest = <<>>
          BY <3>2, <2>2 DEF Parse, rest
        <4>2. Len(wire) = Len(t \o rest)
          <5>1. Len(rest) = 0
            BY <4>1
          <5>2. Len(wire) <= Len(t \o rest)
            BY <2>3 DEF Prefix
          <5> QED
            BY <5>1, <5>2, <2>4, <2>7
        <4> QED
          BY <1>4, <2>1, <3>1, <3>2, <4>2 DEF Done
      <3>3. CASE r + 1 # Len(Q)
        <4>1. r + 1 \in 1 .. Len(Q) - 1
          BY <3>3, <2>1
        <4> QED
          BY <1>4, <3>1, <4>1 DEF Done
      <3> QED
        BY <3>2, <3>3
    <2>11. received \in Seq(Gots)
      BY <2>1 DEF Reader, Readers
    <2>12. received' = received \/ \E x : received' = Append(received, x)
      BY <1>9 DEF Reader, After
    <2>13. ASSUME NEW x, received' = Append(received, x)
           PROVE  Len(received) < Len(sent) /\ x = sent[Len(received) + 1]
      <3>1. Len(received') = Len(received) + 1 /\ received'[Len(received) + 1] = x
            /\ Len(received) \in Nat /\ Len(sent) \in Nat
        BY <1>1, <2>11, <2>13
      <3>2. Len(received) + 1 <= Len(sent)
            /\ received'[Len(received) + 1] = sent[Len(received) + 1]
        BY <2>10, <3>1 DEF Prefix
      <3> QED
        BY <3>1, <3>2
    <2> QED
      BY <2>9, <2>12, <2>13
  <1> QED
    BY <1>7, <1>8, <1>9

-----------------------------------------------------------------------------
(* Steps of the writer.  It writes the chunk t, or its first token and     *)
(* keeps the others in hand.                                               *)
Emits(t) ==
    /\ out.todo = <<>>
    /\ \/ wire' = wire \o t /\ out'.todo = <<>>
       \/ wire' = Append(wire, Head(t)) /\ out'.todo = Tail(t)
Grows == sent' = sent \/ \E m \in Msgs : sent' = Append(sent, m)

LEMMA SentGrows ==
  ASSUME sent \in Seq(Msgs), Grows, NEW g \in Seq(Gots), Prefix(g, sent)
  PROVE  Prefix(g, sent')
  <1>1. CASE sent' = sent
    BY <1>1
  <1>2. ASSUME NEW m \in Msgs, sent' = Append(sent, m)
        PROVE  Prefix(g, sent')
    <2>1. Len(g) \in Nat /\ Len(sent) \in Nat /\ Len(sent') = Len(sent) + 1
          /\ \A i \in 1 .. Len(sent) : sent'[i] = sent[i]
      BY <1>2
    <2> QED
      BY <2>1 DEF Prefix
  <1> QED
    BY <1>1, <1>2 DEF Grows

LEMMA GrowsType ==
  ASSUME sent \in Seq(Msgs), Grows
  PROVE  sent' \in Seq(Msgs)
  BY DEF Grows

LEMMA EmitsLine ==
  ASSUME wire \in Seq(Tokens), NEW t \in Seq(Tokens), t # <<>>, Emits(t)
  PROVE  /\ wire \o t = wire' \o out'.todo /\ Prefix(wire', wire \o t)
         /\ Len(wire') = Len(wire \o t) => out'.todo = <<>>
  <1>1. wire \o t \in Seq(Tokens) /\ Len(wire \o t) = Len(wire) + Len(t)
        /\ Len(t) \in Nat \ {0} /\ Len(wire) \in Nat
    BY EmptySeq
  <1>2. CASE wire' = wire \o t /\ out'.todo = <<>>
    <2>1. wire \o t = wire' \o out'.todo
      BY <1>1, <1>2, ConcatEmptySeq, Zenon
    <2>2. Prefix(wire', wire \o t)
      BY <1>1, <1>2 DEF Prefix
    <2> QED
      BY <1>2, <2>1, <2>2
  <1>3. CASE wire' = Append(wire, Head(t)) /\ out'.todo = Tail(t)
    <2>1. Head(t) \in Tokens /\ Head(t) = t[1] /\ Tail(t) \in Seq(Tokens)
          /\ Len(Tail(t)) = Len(t) - 1 /\ \A i \in 1 .. Len(t) - 1 : Tail(t)[i] = t[i + 1]
      OBVIOUS
    <2>2. wire' \in Seq(Tokens) /\ Len(wire') = Len(wire) + 1 /\ wire'[Len(wire) + 1] = t[1]
          /\ \A i \in 1 .. Len(wire) : wire'[i] = wire[i]
      BY <1>3, <2>1
    <2>3. /\ \A i \in 1 .. Len(wire) : (wire \o t)[i] = wire[i]
          /\ \A i \in 1 .. Len(t) : (wire \o t)[Len(wire) + i] = t[i]
      OBVIOUS
    <2>4. Prefix(wire', wire \o t)
      <3>1. (wire \o t)[Len(wire) + 1] = t[1]
        BY <1>1, <2>3
      <3> QED
        BY <1>1, <2>2, <2>3, <3>1 DEF Prefix
    <2>5. wire \o t = wire' \o Tail(t)
      <3>1. wire' \o Tail(t) \in Seq(Tokens) /\ Len(wire' \o Tail(t)) = Len(wire \o t)
        BY <1>1, <2>1, <2>2
      <3>2. ASSUME NEW i \in 1 .. Len(wire \o t)
            PROVE  (wire \o t)[i] = (wire' \o Tail(t))[i]
        <4>1. CASE i <= Len(wire) + 1
          <5>1. (wire' \o Tail(t))[i] = wire'[i]
            BY <4>1, <2>1, <2>2
          <5> QED
            BY <5>1, <4>1, <1>1, <2>2, <2>4 DEF Prefix
        <4>2. CASE ~(i <= Len(wire) + 1)
          <5> DEFINE j == i - Len(wire) - 1
          <5>1. j \in 1 .. Len(t) - 1 /\ i = Len(wire') + j /\ i = Len(wire) + (j + 1)
                /\ j + 1 \in 1 .. Len(t)
            BY <4>2, <1>1, <2>2
          <5> HIDE DEF j
          <5>2. (wire' \o Tail(t))[Len(wire') + j] = Tail(t)[j]
            BY <5>1, <2>1, <2>2
          <5>3. (wire \o t)[Len(wire) + (j + 1)] = t[j + 1]
            BY <5>1, <2>3
          <5> QED
            BY <5>1, <5>2, <5>3, <2>1
        <4> QED
          BY <4>1, <4>2
      <3> QED
        BY <3>1, <3>2, <1>1, SeqEqual
    <2>6. Len(wire') = Len(wire \o t) => Tail(t) = <<>>
      <3>1. Len(wire') = Len(wire \o t) => Len(Tail(t)) = 0
        BY <1>1, <2>1, <2>2
      <3> QED
        BY <3>1, <2>1, EmptySeq
    <2> QED
      BY <1>3, <2>4, <2>5, <2>6
  <1> QED
    BY <1>2, <1>3 DEF Emits

(* The writer wrote a chunk that the reader understands and that leaves    *)
(* the two in agreement.                                                   *)
Writes(E, t) ==
    /\ Emits(t) /\ Good(E, t)
    /\ After(E, t) \in Readers /\ Agrees(After(E, t))'

LEMMA WriteStep ==
  ASSUME Inv, intact, ~cut, UNCHANGED <<cut, rVars>>, Grows,
         \A E \in Readers : Agrees(E) => \E t \in Seq(Tokens) : Writes(E, t)
  PROVE  Parsed'
  <1>1. wire \in Seq(Tokens) /\ sent \in Seq(Msgs)
    BY DEF Inv, Types
  <1>2. PICK Q : \E r : /\ Parse(Q, r, Reader) /\ OnWire(Q[r].rest) /\ Done(Q, r)
                        /\ (~cut => Agrees(Q[Len(Q)].st))
    BY Zenon DEF Inv, Parsed
  <1>3. PICK r : /\ Parse(Q, r, Reader) /\ OnWire(Q[r].rest) /\ Done(Q, r)
                 /\ (~cut => Agrees(Q[Len(Q)].st))
    BY <1>2, Zenon
  <1> DEFINE n == Len(Q)
             E == Q[n].st
  <1>4. Q \in Seq(Descs) /\ n \in Nat \ {0} /\ r \in 1 .. n
    BY <1>3 DEF Parse
  <1>5. \A j \in 1 .. n : Q[j].st \in Readers /\ Q[j].st.got \in Seq(Gots)
    <2>1. ASSUME NEW j \in 1 .. n
          PROVE  Q[j].st \in Readers /\ Q[j].st.got \in Seq(Gots)
      <3>1. Q[j] \in Descs
        BY <1>4
      <3>2. Q[j].st \in Readers
        BY <3>1 DEF Descs
      <3> QED
        BY <3>2 DEF Readers
    <2> QED
      BY <2>1
  <1>6. E \in Readers /\ Agrees(E)
    BY <1>3, <1>4, <1>5
  <1>7. PICK t \in Seq(Tokens) : Writes(E, t)
    BY <1>6
  <1>8. Emits(t) /\ Good(E, t) /\ After(E, t) \in Readers /\ Agrees(After(E, t))' /\ t # <<>>
    BY <1>7 DEF Writes, Good
  <1>9. PICK P : /\ Parse(P, r, Reader) /\ Len(P) = n + 1 /\ P[r].rest = Q[r].rest \o t
                 /\ P[Len(P)].st = After(E, t)
                 /\ \A j \in 1 .. n : P[j].st = Q[j].st
    BY <1>3, <1>8, Extend
  <1> HIDE DEF E, n
  <1>10. Reader' = Reader /\ cut' = cut
    BY DEF rVars, Reader
  <1>11. out.todo = <<>>
    BY <1>8 DEF Emits
  <1>12. Q[r].rest = wire
    <2>1. Q[r].rest = wire \o <<>>
      BY <1>3, <1>11 DEF OnWire
    <2> QED
      BY <2>1, <1>1, ConcatEmptySeq, Zenon
  <1>13. P[r].rest = wire \o t
    BY <1>9, <1>12
  <1>14. /\ wire \o t = wire' \o out'.todo /\ Prefix(wire', wire \o t)
         /\ (Len(wire') = Len(wire \o t) => out'.todo = <<>>)
    BY <1>1, <1>8, EmitsLine
  <1>15. OnWire(P[r].rest)'
    BY <1>13, <1>14 DEF OnWire, Prefix
  <1>16. Done(P, r)'
    <2>1. ASSUME NEW j \in 1 .. n
          PROVE  Prefix(P[j].st.got, sent')
      <3>1. Prefix(Q[j].st.got, sent)
        <4>1. CASE j = n
          <5>1. Q[j].st.got = sent
            BY <4>1, <1>6, <1>11 DEF Agrees, Promised, E
          <5> QED
            BY <5>1, <1>1 DEF Prefix
        <4>2. CASE j # n
          <5>1. j \in 1 .. n - 1
            BY <4>2, <1>4
          <5> QED
            BY <5>1, <1>3 DEF Done, n
        <4> QED
          BY <4>1, <4>2
      <3> QED
        BY <3>1, <1>1, <1>5, <1>9, SentGrows
    <2>2. Len(P) - 1 = n
      BY <1>4, <1>9
    <2>3. ASSUME out'.todo = <<>>
          PROVE  Prefix(P[Len(P)].st.got, sent')
      <3>1. P[Len(P)].st.got = sent'
        BY <2>3, <1>8, <1>9 DEF Agrees, Promised
      <3>2. sent' \in Seq(Msgs)
        BY <1>1, GrowsType
      <3> QED
        BY <3>1, <3>2 DEF Prefix
    <2>4. (\A j \in 1 .. Len(P) - 1 : Prefix(P[j].st.got, sent'))
          /\ (Len(wire') = Len(P[r].rest) => Prefix(P[Len(P)].st.got, sent'))
      BY <1>13, <1>14, <2>1, <2>2, <2>3
    <2> QED
      BY <2>4 DEF Done, Prefix
  <1>17. Parse(P, r, Reader') /\ Agrees(P[Len(P)].st)'
    BY <1>8, <1>9, <1>10
  <1> QED
    BY <1>15, <1>16, <1>17, Zenon DEF Parsed

(* The writer moves a token it has in hand to the wire, or none.           *)
LEMMA HandStep ==
  ASSUME Inv, intact, ~cut, UNCHANGED <<cut, rVars>>, Grows,
         wire \o out.todo = wire' \o out'.todo, Prefix(wire', wire \o out.todo),
         Len(wire') = Len(wire \o out.todo) => out'.todo = <<>>,
         \A E \in Readers : Agrees(E) => Agrees(E)'
  PROVE  Parsed'
  <1>1. wire \in Seq(Tokens) /\ sent \in Seq(Msgs)
    BY DEF Inv, Types
  <1>2. PICK Q : \E r : /\ Parse(Q, r, Reader) /\ OnWire(Q[r].rest) /\ Done(Q, r)
                        /\ (~cut => Agrees(Q[Len(Q)].st))
    BY Zenon DEF Inv, Parsed
  <1>3. PICK r : /\ Parse(Q, r, Reader) /\ OnWire(Q[r].rest) /\ Done(Q, r)
                 /\ (~cut => Agrees(Q[Len(Q)].st))
    BY <1>2, Zenon
  <1> DEFINE n == Len(Q)
             E == Q[n].st
  <1>4. Q \in Seq(Descs) /\ n \in Nat \ {0} /\ r \in 1 .. n
    BY <1>3 DEF Parse
  <1>5. \A j \in 1 .. n : Q[j].st \in Readers /\ Q[j].st.got \in Seq(Gots)
    <2>1. ASSUME NEW j \in 1 .. n
          PROVE  Q[j].st \in Readers /\ Q[j].st.got \in Seq(Gots)
      <3>1. Q[j] \in Descs
        BY <1>4
      <3>2. Q[j].st \in Readers
        BY <3>1 DEF Descs
      <3> QED
        BY <3>2 DEF Readers
    <2> QED
      BY <2>1
  <1>6. E \in Readers /\ Agrees(E)'
    BY <1>3, <1>4, <1>5
  <1> HIDE DEF E, n
  <1>7. Reader' = Reader /\ cut' = cut
    BY DEF rVars, Reader
  <1>8. Q[r].rest = wire \o out.todo
    BY <1>3 DEF OnWire
  <1>9. OnWire(Q[r].rest)'
    BY <1>8 DEF OnWire, Prefix
  <1>10. Done(Q, r)'
    <2>1. \A j \in 1 .. n - 1 : Prefix(Q[j].st.got, sent')
      <3> SUFFICES ASSUME NEW j \in 1 .. n - 1 PROVE Prefix(Q[j].st.got, sent')
        OBVIOUS
      <3>1. Prefix(Q[j].st.got, sent) /\ j \in 1 .. n
        <4>1. j \in 1 .. Len(Q) - 1
          BY DEF n
        <4>2. Prefix(Q[j].st.got, sent)
          BY <1>3, <4>1, Zenon DEF Done
        <4> QED
          BY <1>4, <4>2
      <3> QED
        BY <3>1, <1>1, <1>5, SentGrows
    <2>2. ASSUME out'.todo = <<>>
          PROVE  Prefix(E.got, sent')
      <3>1. E.got = sent'
        BY <2>2, <1>6 DEF Agrees, Promised
      <3>2. sent' \in Seq(Msgs)
        BY <1>1, GrowsType
      <3> QED
        BY <3>1, <3>2 DEF Prefix
    <2>3. Len(wire') = Len(Q[r].rest) => Prefix(E.got, sent')
      BY <1>8, <2>2
    <2> QED
      BY <2>1, <2>3 DEF Done, Prefix, E, n
  <1>11. Parse(Q, r, Reader')
    BY <1>3, <1>7
  <1>12. Agrees(Q[Len(Q)].st)'
    BY <1>6 DEF E, n
  <1> QED
    BY <1>12, <1>9, <1>10, <1>11, Zenon DEF Parsed

(* The connection is lost.                                                 *)
LEMMA CutStep ==
  ASSUME Inv, Cut
  PROVE  Parsed'
  <1>1. wire \in Seq(Tokens) /\ intact /\ cut' = TRUE /\ sent' = sent
        /\ wire' = SubSeq(wire, 1, Len(wire) - 1) /\ Reader' = Reader
    BY DEF Inv, Types, Cut, rVars, Reader
  <1>2. PICK Q : \E r : /\ Parse(Q, r, Reader) /\ OnWire(Q[r].rest) /\ Done(Q, r)
                        /\ (~cut => Agrees(Q[Len(Q)].st))
    BY <1>1, Zenon DEF Inv, Parsed
  <1>3. PICK r : /\ Parse(Q, r, Reader) /\ OnWire(Q[r].rest) /\ Done(Q, r)
                 /\ (~cut => Agrees(Q[Len(Q)].st))
    BY <1>2, Zenon
  <1>4. Len(wire) \in Nat
    BY <1>1
  <1>5. Len(wire') <= Len(wire) /\ Len(wire') \in Nat
        /\ (wire # <<>> => Len(wire') < Len(wire)) /\ (wire = <<>> => wire' = wire)
        /\ \A i \in 1 .. Len(wire') : wire'[i] = wire[i]
    <2>1. CASE wire = <<>>
      BY <2>1, <1>1
    <2>2. CASE wire # <<>>
      <3>1. Len(wire) \in Nat \ {0}
        BY <2>2, <1>1, EmptySeq
      <3> QED
        BY <2>2, <3>1, <1>1
    <2> QED
      BY <2>1, <2>2
  <1>6. Prefix(wire', Q[r].rest)
    BY <1>3, <1>4, <1>5 DEF OnWire, Prefix
  <1>7. Done(Q, r)'
    <2>1. Len(wire') = Len(Q[r].rest) => Len(wire) = Len(Q[r].rest)
      BY <1>3, <1>4, <1>5 DEF OnWire, Prefix
    <2> QED
      BY <2>1, <1>1, <1>3 DEF Done, Prefix
  <1>8. Parse(Q, r, Reader') /\ OnWire(Q[r].rest)'
    BY <1>1, <1>3, <1>6 DEF OnWire, Prefix
  <1> QED
    BY <1>1, <1>7, <1>8 DEF Parsed

-----------------------------------------------------------------------------
(* The reader after a chunk, as far as the writer knows it: on the chunk   *)
(* stream c the entry N, and the message returned if it is complete.       *)
Result(R, c, N) ==
    [chunks |-> [R.chunks EXCEPT ![Key(c)] = N],
     remote |-> IF N.remain = 0 THEN HandleControlMsg(N, R.remote) ELSE R.remote,
     got |-> IF N.remain = 0 THEN Append(R.got, AsGot(N)) ELSE R.got]

LEMMA KeyFacts ==
  /\ 2 \in Streams /\ 6 \in Streams /\ Key(2) = 2 /\ Key(6) = 6
  /\ \A c \in Streams : Key(c) \in Keys /\ (Key(c) = 2 => c = 2) /\ c \in Nat
  <1>1. Csids \subseteq Nat \ {0, 1, 2}
    BY ChunksAssumption DEF ChunksAssumption
  <1>2. \A c \in Streams : c \in Nat /\ c >= 2
    BY <1>1 DEF Streams
  <1> QED
    BY <1>2 DEF Streams, Key, Keys

IsMessage(m, type, ts, len) ==
    /\ m \in Msgs /\ m.type = type /\ m.ts = ts
    /\ Len(m.data) = IF type = "size" THEN 1 ELSE len

LEMMA MessageType ==
  ASSUME NEW n \in Nat \ {0}, NEW type \in {"media", "size", "ack"}, NEW ts \in Nat,
         NEW len \in Nat \ {0}, NEW m, m = Message(n, type, ts, len)
  PROVE  IsMessage(m, type, ts, len)
  <1>1. m.type = type /\ m.ts = ts
        /\ m.data = (IF type = "size" THEN <<Word(NewSize)>>
                     ELSE [i \in 1 .. len |-> Word(-(10 * n + i))])
    BY DEF Message
  <1>2. m = [type |-> type, ts |-> ts, data |-> m.data]
    BY DEF Message
  <1>3. CASE type = "size"
    <2>1. NewSize \in Int
      BY ChunksAssumption DEF ChunksAssumption
    <2>2. m.data = <<Word(NewSize)>> /\ Word(NewSize) \in WordTokens
      BY <1>1, <1>3, <2>1, TokenTypes
    <2>3. m.data \in Seq(WordTokens) /\ Len(m.data) = 1 /\ m.data # <<>>
      BY <2>2
    <2> QED
      BY <1>1, <1>2, <1>3, <2>2, <2>3 DEF Msgs, IsMessage
  <1>4. CASE type # "size"
    <2> DEFINE w(i) == Word(-(10 * n + i))
    <2>1. \A i \in 1 .. len : w(i) \in WordTokens /\ w(i).v < 0
      BY DEF Word, WordTokens
    <2>2. m.data = [i \in 1 .. len |-> w(i)]
      BY <1>1, <1>4
    <2> HIDE DEF w
    <2>3. m.data \in Seq(WordTokens) /\ Len(m.data) = len /\ m.data # <<>>
          /\ \A i \in 1 .. len : m.data[i].v < 0
      BY <2>1, <2>2
    <2> QED
      BY <1>1, <1>2, <1>4, <2>3 DEF Msgs, IsMessage
  <1> QED
    BY <1>3, <1>4

(* N is what the message m comes to when nothing of it is missing.         *)
Completes(N, m) ==
    N \in Entries /\ (N.remain = 0 => N.type = m.type /\ N.ts = m.ts /\ N.data = m.data)
Returned(S, R, c, N, m) ==
    /\ S \in Readers
    /\ S.got = (IF N.remain = 0 THEN Append(R.got, m) ELSE R.got)
    /\ S.remote = (IF N.remain = 0 /\ m.type = "size" THEN NewSize ELSE R.remote)
    /\ \A k \in Keys : S.chunks[k] = IF k = Key(c) THEN N ELSE R.chunks[k]

LEMMA ResultFacts ==
  ASSUME NEW R \in Readers, NEW c \in Streams, NEW N, NEW m \in Msgs, Completes(N, m)
  PROVE  Returned(Result(R, c, N), R, c, N, m)
  <1>a. N \in Entries /\ (N.remain = 0 => N.type = m.type /\ N.ts = m.ts /\ N.data = m.data)
    BY DEF Completes
  <1> DEFINE S == Result(R, c, N)
  <1>1. R.chunks \in [Keys -> Entries] /\ R.remote \in Sizes /\ R.got \in Seq(Gots)
    BY ReaderTypes
  <1>2. S.chunks = [R.chunks EXCEPT ![Key(c)] = N]
        /\ S.remote = (IF N.remain = 0 THEN HandleControlMsg(N, R.remote) ELSE R.remote)
        /\ S.got = (IF N.remain = 0 THEN Append(R.got, AsGot(N)) ELSE R.got)
        /\ S = [chunks |-> S.chunks, remote |-> S.remote, got |-> S.got]
    BY DEF Result
  <1> HIDE DEF S
  <1>3. m.type \in Kinds /\ m.ts \in Nat /\ m.data \in Seq(WordTokens)
        /\ (m.type = "size" => m.data = <<Word(NewSize)>>)
    BY MsgTypes
  <1>4. m = [type |-> m.type, ts |-> m.ts, data |-> m.data]
    BY DEF Msgs
  <1>5. m \in Gots
    <2>1. m.data \in Seq(Tokens) /\ m.ts \in Int
      BY <1>3, TokenTypes
    <2> QED
      BY <1>3, <1>4, <2>1 DEF Gots
  <1>6. N.remain = 0 => AsGot(N) = m
    BY <1>a, <1>4, Zenon DEF AsGot
  <1>7. S.got = (IF N.remain = 0 THEN Append(R.got, m) ELSE R.got)
    BY <1>2, <1>6, Zenon
  <1>8. S.remote = (IF N.remain = 0 /\ m.type = "size" THEN NewSize ELSE R.remote)
    <2>1. CASE N.remain = 0 /\ m.type = "size"
      <3>1. N.data[1] = Word(NewSize) /\ N.type = "size"
        BY <1>a, <1>3, <2>1
      <3> QED
        BY <1>2, <2>1, <3>1 DEF HandleControlMsg, Word
    <2>2. CASE N.remain = 0 /\ m.type # "size"
      BY <1>a, <1>2, <2>2 DEF HandleControlMsg
    <2>3. CASE N.remain # 0
      BY <1>2, <2>3
    <2> QED
      BY <2>1, <2>2, <2>3
  <1>9. Key(c) \in Keys
    BY KeyFacts
  <1>10. S.chunks \in [Keys -> Entries]
         /\ \A k \in Keys : S.chunks[k] = IF k = Key(c) THEN N ELSE R.chunks[k]
    BY <1>a, <1>1, <1>2, <1>9
  <1>11. NewSize \in Sizes
    BY DEF Sizes
  <1>12. S.got \in Seq(Gots) /\ S.remote \in Sizes
    BY <1>1, <1>5, <1>7, <1>8, <1>11
  <1>13. S \in Readers
    BY <1>2, <1>10, <1>12 DEF Readers
  <1> QED
    BY <1>7, <1>8, <1>10, <1>13, Zenon DEF S, Returned

ChunkHead(t, c) ==
    t \in Seq(Tokens) /\ Len(t) >= 2 /\ t[1].csid = c /\ t[1].k = "header"

LEMMA ChunkType ==
  ASSUME NEW fmt \in 0 .. 3, NEW c \in Streams, NEW ts \in Nat, NEW m \in Msgs,
         NEW words \in Seq(WordTokens), words # <<>>
  PROVE  ChunkHead(Chunk(fmt, c, ts, m, words), c)
  <1> DEFINE t == Chunk(fmt, c, ts, m, words)
  <1>1. ChunkShape(t, Extra(fmt, ts), fmt, c, ts, m, words)
    BY ChunkParts, Zenon
  <1> HIDE DEF t
  <1>2. t \in Seq(Tokens) /\ Len(t) >= 2 /\ t[1] = Header(fmt, c, ts, Len(m.data), m.type)
    BY <1>1, Zenon DEF ChunkShape
  <1> QED
    BY <1>2 DEF Header, ChunkHead, t

(* The reader R understands t on the chunk stream c, and has the entry N.  *)
Understands(R, t, c, N) ==
    /\ t \in Seq(Tokens) /\ Good(R, t) /\ After(R, t) = Result(R, c, N)

LEMMA GoodAfter ==
  ASSUME NEW R, NEW t, NEW c \in Streams, NEW N,
         ChunkHead(t, c), ReadsAs(R.chunks[Key(c)], t, R.remote, N)
  PROVE  Understands(R, t, c, N)
  <1>1. Entry(R, t) = R.chunks[Key(c)]
    BY DEF Entry, ChunkHead
  <1>2. Good(R, t)
    BY <1>1, Zenon DEF Good, ReadsAs, ChunkHead
  <1>3. After(R, t) = Result(R, c, N)
    BY <1>1, Zenon DEF After, Result, ReadsAs, ChunkHead
  <1> QED
    BY <1>2, <1>3 DEF Understands, ChunkHead

LEMMA WholeSubSeq ==
  ASSUME NEW s \in Seq(WordTokens), NEW n, n = Len(s)
  PROVE  SubSeq(s, 1, n) = s
  OBVIOUS

LEMMA BeginAfter ==
  ASSUME NEW R \in Readers, NEW fmt \in 0 .. 3, NEW c \in Streams, NEW ts \in Nat,
         NEW m \in Msgs, NEW words \in Seq(WordTokens),
         NEW cs, cs = R.chunks[Key(c)], cs.remain = 0,
         Len(words) = Least(Len(m.data), R.remote),
         words = SubSeq(m.data, 1, Len(words)),
         fmt \in {2, 3} => cs.len = Len(m.data) /\ cs.type = m.type,
         fmt = 3 => /\ cs.fmt \in {1, 2} /\ cs.delta = ts /\ cs.exted = (ts >= ExtMark)
                    /\ Extra(fmt, ts) = IF ts >= ExtMark THEN 1 ELSE 0,
         m.ts = IF fmt = 0 THEN ts ELSE cs.ts + ts,
         NEW t, t = Chunk(fmt, c, ts, m, words),
         NEW N, N = Begins(cs, fmt, ts, m, words)
  PROVE  Understands(R, t, c, N) /\ Completes(N, m)
  <1>1. R.remote \in Nat \ {0} /\ R.chunks \in [Keys -> Entries]
    BY ReaderTypes
  <1>2. cs \in Entries
    BY <1>1, KeyFacts
  <1>3. m.ts \in Nat /\ m.type \in Kinds /\ Len(m.data) \in Nat \ {0}
        /\ m.data \in Seq(WordTokens)
    BY MsgTypes
  <1>4. Len(words) \in Nat \ {0} /\ words # <<>> /\ Len(words) <= Len(m.data)
    BY <1>1, <1>3, EmptySeq DEF Least
  <1>5. ReadsAs(cs, t, R.remote, N)
    BY <1>1, <1>2, BeginReads
  <1>6. ChunkHead(t, c)
    BY <1>4, ChunkType
  <1>7. Understands(R, t, c, N)
    BY <1>5, <1>6, GoodAfter
  <1>8. N \in Entries
    <2>1. words \in Seq(Tokens)
      BY TokenTypes
    <2>2. cs.delta \in Int /\ cs.fmt \in 0 .. 3
      BY <1>2 DEF Entries, Fields
    <2>3. Len(m.data) - Len(words) \in Nat /\ (ts >= ExtMark) \in BOOLEAN
      BY <1>3, <1>4
    <2>4. (IF fmt \in {1, 2} THEN ts ELSE cs.delta) \in Int
          /\ (IF fmt = 3 THEN cs.fmt ELSE fmt) \in 0 .. 3
      BY <2>2
    <2> QED
      BY <1>3, <2>1, <2>3, <2>4 DEF Begins, Entries, Fields
  <1>9. N.remain = 0 => N.type = m.type /\ N.ts = m.ts /\ N.data = m.data
    <2>1. N.type = m.type /\ N.ts = m.ts /\ N.data = words
          /\ N.remain = Len(m.data) - Len(words)
      BY DEF Begins
    <2>2. Len(words) = Len(m.data) => words = m.data
      BY <1>3, WholeSubSeq
    <2> QED
      BY <1>3, <1>4, <2>1, <2>2
  <1> QED
    BY <1>7, <1>8, <1>9, Zenon DEF Completes

LEMMA ContinueAfter ==
  ASSUME NEW R \in Readers, NEW c \in Streams, NEW ts \in Nat, NEW m \in Msgs,
         NEW words \in Seq(WordTokens), NEW rest \in Seq(WordTokens), rest # <<>>,
         NEW cs, cs = R.chunks[Key(c)], cs.remain = Len(rest), cs.ts = m.ts,
         cs.type = m.type, cs.data \o rest = m.data,
         Len(words) = Least(Len(rest), R.remote),
         words = SubSeq(rest, 1, Len(words)), rest[1].v < 0,
         cs.exted = (ts >= ExtMark), ts >= ExtMark /\ writer # "terse" => cs.ts = ts,
         NEW t, t = Chunk(3, c, ts, m, words),
         NEW N, N = Continues(cs, words)
  PROVE  Understands(R, t, c, N) /\ Completes(N, m)
  <1>1. R.remote \in Nat \ {0} /\ R.chunks \in [Keys -> Entries]
    BY ReaderTypes
  <1>2. cs \in Entries
    BY <1>1, KeyFacts
  <1>3. m.ts \in Nat /\ Len(rest) \in Nat \ {0} /\ 3 \in 0 .. 3
    BY MsgTypes, EmptySeq
  <1>4. Len(words) \in Nat \ {0} /\ words # <<>> /\ Len(words) <= Len(rest)
    BY <1>1, <1>3, EmptySeq DEF Least
  <1>5. words[1] = rest[1]
    BY <1>3, <1>4
  <1>6. ReadsAs(cs, t, R.remote, N)
    <2>1. cs.remain # 0 /\ cs.ts \in Nat /\ words[1].v < 0
      BY <1>3, <1>5
    <2>2. Len(words) = Least(cs.remain, R.remote)
      OBVIOUS
    <2> QED
      BY <1>1, <1>2, <2>1, <2>2, ContinueReads
  <1>7. ChunkHead(t, c)
    BY <1>3, <1>4, ChunkType
  <1>8. Understands(R, t, c, N)
    BY <1>6, <1>7, GoodAfter
  <1>9. N.remain = Len(rest) - Len(words) /\ N.data = cs.data \o words
        /\ N.type = m.type /\ N.ts = m.ts
    BY <1>2 DEF Continues, Entries, Fields
  <1>10. N \in Entries
    <2>1. words \in Seq(Tokens) /\ cs.data \in Seq(Tokens)
      BY <1>2, TokenTypes DEF Entries, Fields
    <2>2. cs.data \o words \in Seq(Tokens) /\ Len(rest) - Len(words) \in Nat
      BY <1>3, <1>4, <2>1, TokensConcat
    <2>3. cs \in Fields /\ Len(rest) + Len(cs.data) = cs.len
      BY <1>2 DEF Entries
    <2>4. Len(cs.data \o words) = Len(cs.data) + Len(words)
      BY <2>1, TokensConcat, Zenon
    <2>7. Len(cs.data) \in Nat /\ Len(words) \in Nat /\ Len(rest) \in Nat
      BY <2>1, <1>3, LenProperties
    <2>5. N \in Fields /\ N.len = cs.len
      BY <2>2, <2>3 DEF Continues, Fields
    <2>6. N.remain + Len(N.data) = N.len
      <3>1. Len(N.data) = Len(cs.data) + Len(words) /\ N.remain = Len(rest) - Len(words)
            /\ N.len = Len(rest) + Len(cs.data)
        BY <1>9, <2>3, <2>4, <2>5, Zenon
      <3> QED
        BY <3>1, <2>7
    <2> QED
      BY <2>5, <2>6 DEF Entries
  <1>11. N.remain = 0 => N.data = m.data
    <2>1. Len(words) = Len(rest) => words = rest
      BY <1>3, WholeSubSeq
    <2>2. N.remain = 0 => Len(words) = Len(rest)
      BY <1>3, <1>4, <1>9
    <2> QED
      BY <1>9, <2>1, <2>2
  <1> QED
    BY <1>8, <1>9, <1>10, <1>11, Zenon DEF Completes

-----------------------------------------------------------------------------
(* What begins a message on c that the reader R expects.                   *)
CanStart(R, c, fmt, ts, m, words) ==
    /\ R.chunks[Key(c)].remain = 0
    /\ Len(words) = Least(Len(m.data), R.remote)
    /\ words = SubSeq(m.data, 1, Len(words))
    /\ fmt \in {2, 3} => R.chunks[Key(c)].len = Len(m.data) /\ R.chunks[Key(c)].type = m.type
    /\ fmt = 3 => /\ R.chunks[Key(c)].fmt \in {1, 2} /\ R.chunks[Key(c)].delta = ts
                  /\ R.chunks[Key(c)].exted = (ts >= ExtMark)
                  /\ Extra(fmt, ts) = IF ts >= ExtMark THEN 1 ELSE 0
    /\ m.ts = IF fmt = 0 THEN ts ELSE R.chunks[Key(c)].ts + ts
Started(R, t, c, N, m) == Understands(R, t, c, N) /\ Completes(N, m)

LEMMA StartAfter ==
  ASSUME NEW R \in Readers, NEW fmt \in 0 .. 3, NEW c \in Streams, NEW ts \in Nat,
         NEW m \in Msgs, NEW words \in Seq(WordTokens), CanStart(R, c, fmt, ts, m, words)
  PROVE  Started(R, Chunk(fmt, c, ts, m, words), c,
                 Begins(R.chunks[Key(c)], fmt, ts, m, words), m)
  <1> DEFINE cs == R.chunks[Key(c)]
             t == Chunk(fmt, c, ts, m, words)
             N == Begins(cs, fmt, ts, m, words)
  <1>1. /\ cs.remain = 0
        /\ Len(words) = Least(Len(m.data), R.remote)
        /\ words = SubSeq(m.data, 1, Len(words))
        /\ (fmt \in {2, 3} => cs.len = Len(m.data) /\ cs.type = m.type)
        /\ (fmt = 3 => /\ cs.fmt \in {1, 2} /\ cs.delta = ts /\ cs.exted = (ts >= ExtMark)
                       /\ Extra(fmt, ts) = IF ts >= ExtMark THEN 1 ELSE 0)
        /\ m.ts = IF fmt = 0 THEN ts ELSE cs.ts + ts
    BY Zenon DEF CanStart
  <1>2. cs = R.chunks[Key(c)] /\ t = Chunk(fmt, c, ts, m, words)
        /\ N = Begins(cs, fmt, ts, m, words)
    OBVIOUS
  <1> HIDE DEF cs, t, N
  <1>3. Understands(R, t, c, N) /\ Completes(N, m)
    BY <1>1, <1>2, BeginAfter
  <1> QED
    BY <1>2, <1>3, Zenon DEF Started

(* A chunk written on c concerns only c.                                   *)
LEMMA EntangledWrite ==
  ASSUME NEW E, Entangled(E), writer' = writer, NEW c \in Streams,
         \A d \in Streams : d # c => last'[d] = last[d] /\ left'[d] = left[d],
         Begun(c)', \A d \in Streams : Begun(d)' /\ Key(d) = Key(c) => d = c,
         NEW N, Owes(N, c)',
         writer # "own" \/ (left'[c] # <<>> /\ ~Fresh(c)') => Match(N, c)',
         NEW F, \A k \in Keys : F.chunks[k] = IF k = Key(c) THEN N ELSE E.chunks[k]
  PROVE  Entangled(F)'
  <1>1. \A d \in Streams : Key(d) \in Keys
    BY KeyFacts
  <1>2. ASSUME NEW d \in Streams, d # c
        PROVE  /\ Begun(d)' = Begun(d) /\ Fresh(d)' = Fresh(d) /\ left'[d] = left[d]
               /\ \A e : (Owes(e, d)' = Owes(e, d)) /\ (Match(e, d)' = Match(e, d))
    BY <1>2 DEF Begun, Fresh, Owes, Match
  <1>3. ASSUME NEW d \in Streams, Begun(d)'
        PROVE  Owes(F.chunks[Key(d)], d)'
    <2>1. CASE d = c
      BY <2>1, <1>1
    <2>2. CASE d # c
      <3>1. Key(d) # Key(c)
        BY <2>2, <1>3
      <3>2. F.chunks[Key(d)] = E.chunks[Key(d)]
        BY <3>1, <1>1
      <3>3. Owes(E.chunks[Key(d)], d)
        BY <2>2, <1>2, <1>3 DEF Entangled
      <3> QED
        BY <2>2, <1>2, <3>2, <3>3
    <2> QED
      BY <2>1, <2>2
  <1>4. ASSUME NEW k \in Keys, \A d \in Streams : Key(d) = k => ~Begun(d)'
        PROVE  F.chunks[k].remain = 0
    <2>1. k # Key(c)
      BY <1>4
    <2>2. \A d \in Streams : Key(d) = k => ~Begun(d)
      BY <1>2, <1>4, <2>1
    <2> QED
      BY <2>1, <2>2 DEF Entangled
  <1>5. ASSUME NEW d \in Streams, Begun(d)', writer # "own" \/ (left'[d] # <<>> /\ ~Fresh(d)')
        PROVE  Match(F.chunks[Key(d)], d)'
    <2>1. CASE d = c
      BY <2>1, <1>1, <1>5
    <2>2. CASE d # c
      <3>1. Key(d) # Key(c)
        BY <2>2, <1>5
      <3>2. F.chunks[Key(d)] = E.chunks[Key(d)]
        BY <3>1, <1>1
      <3>3. Match(E.chunks[Key(d)], d)
        BY <2>2, <1>2, <1>5 DEF Entangled
      <3> QED
        BY <2>2, <1>2, <3>2, <3>3
    <2> QED
      BY <2>1, <2>2
  <1> QED
    BY <1>3, <1>4, <1>5 DEF Entangled

LEMMA LeastFacts ==
  ASSUME NEW a \in Nat \ {0}, NEW b \in Nat \ {0}
  PROVE  /\ Least(a, b) \in Nat \ {0} /\ Least(a, b) <= a
         /\ a = 1 => Least(a, b) = a
  BY DEF Least

(* A message is its words up to n and the others.                          *)
SplitsAt(s, n) ==
    /\ SubSeq(s, 1, n) \in Seq(WordTokens) /\ Len(SubSeq(s, 1, n)) = n
    /\ SubSeq(s, n + 1, Len(s)) \in Seq(WordTokens)
    /\ Len(SubSeq(s, n + 1, Len(s))) = Len(s) - n
    /\ SubSeq(s, 1, n) \o SubSeq(s, n + 1, Len(s)) = s

LEMMA WordsConcat ==
  ASSUME NEW a \in Seq(WordTokens), NEW b \in Seq(WordTokens)
  PROVE  /\ a \o b \in Seq(WordTokens) /\ Len(a \o b) = Len(a) + Len(b)
         /\ \A i \in 1 .. Len(a) : (a \o b)[i] = a[i]
         /\ \A i \in 1 .. Len(b) : (a \o b)[Len(a) + i] = b[i]
  OBVIOUS

LEMMA SplitAt ==
  ASSUME NEW s \in Seq(WordTokens), NEW n \in 0 .. Len(s)
  PROVE  SplitsAt(s, n)
  <1> DEFINE a == SubSeq(s, 1, n)
             b == SubSeq(s, n + 1, Len(s))
  <1>1. a \in Seq(WordTokens) /\ Len(a) = n /\ \A i \in 1 .. n : a[i] = s[i]
    OBVIOUS
  <1>2. b \in Seq(WordTokens) /\ Len(b) = Len(s) - n
        /\ \A i \in 1 .. Len(s) - n : b[i] = s[n + i]
    OBVIOUS
  <1> HIDE DEF a, b
  <1>3. a \o b \in Seq(WordTokens) /\ Len(a \o b) = Len(s)
    <2>1. a \o b \in Seq(WordTokens) /\ Len(a \o b) = Len(a) + Len(b)
      BY <1>1, <1>2, WordsConcat, Zenon
    <2> QED
      BY <2>1, <1>1, <1>2
  <1>4. ASSUME NEW i \in 1 .. Len(s) PROVE (a \o b)[i] = s[i]
    <2>1. CASE i <= n
      BY <2>1, <1>1, <1>2
    <2>2. CASE ~(i <= n)
      <3>1. i - n \in 1 .. Len(b) /\ i = Len(a) + (i - n)
        BY <2>2, <1>1, <1>2
      <3>2. (a \o b)[Len(a) + (i - n)] = b[i - n]
        BY <1>1, <1>2, <3>1, WordsConcat
      <3>3. b[i - n] = s[n + (i - n)] /\ n + (i - n) = i
        BY <1>2, <3>1
      <3> QED
        BY <3>1, <3>2, <3>3
    <2> QED
      BY <2>1, <2>2
  <1>5. a \o b = s
    BY <1>3, <1>4, SeqEqual
  <1> QED
    BY <1>1, <1>2, <1>5 DEF SplitsAt, a, b

(* The next chunk of a message keeps writer and reader in agreement.       *)
Understood(E, t) ==
    t \in Seq(Tokens) /\ Good(E, t) /\ After(E, t) \in Readers /\ Agrees(After(E, t))'

LEMMA ContinueAgrees ==
  ASSUME Types, Sound, NEW E \in Readers, Agrees(E), NEW c \in Streams,
         left[c] # <<>>, ~Fresh(c), out.todo = <<>>,
         writer' = writer, last' = last, chunkSize' = chunkSize,
         NEW now, now = Least(Len(left[c]), chunkSize),
         left' = [left EXCEPT ![c] = SubSeq(left[c], now + 1, Len(left[c]))],
         NEW t, t = Chunk(3, c, Delta(last[c]), last[c].msg, SubSeq(left[c], 1, now)),
         Promised' = IF now = Len(left[c]) THEN Append(sent, last[c].msg) ELSE sent
  PROVE  Understood(E, t)
  <1> DEFINE l == last[c]
             m == l.msg
             d == Delta(l)
             w == left[c]
             words == SubSeq(w, 1, now)
             rest == SubSeq(w, now + 1, Len(w))
             e == E.chunks[Key(c)]
  <1>1. /\ chunkSize \in Nat \ {0} /\ w \in Seq(WordTokens) /\ Begun(c)
        /\ l \in [msg : Msgs \cup {NoMsg}, delta : Nat, fmt : 0 .. 2]
    BY DEF Types
  <1>2. m \in Msgs /\ l.delta \in Nat /\ l.fmt \in 0 .. 2
    <2>1. m # NoMsg
      BY <1>1 DEF Begun, NoMsg, NoHeader
    <2> QED
      BY <1>1, <2>1
  <1>3. /\ m.type \in Kinds /\ m.ts \in Nat /\ m.data \in Seq(WordTokens)
        /\ (m.type # "size" => \A i \in 1 .. Len(m.data) : m.data[i].v < 0)
    BY <1>2, MsgTypes
  <1>4. Owes(e, c) /\ Match(e, c) /\ E.got = sent /\ E.remote = chunkSize
    <2>1. Entangled(E) /\ E.got = Promised
          /\ (E.remote = chunkSize \/ (writer = "own" /\ Fresh(2)))
      BY DEF Agrees
    <2>2. writer = "own" /\ Fresh(2) => FALSE
      <3>1. writer = "own" => c = out.csid
        BY DEF Types
      <3>2. writer = "own" /\ Fresh(2) => 2 = out.csid
        BY KeyFacts DEF Types, Fresh
      <3> QED
        BY <3>1, <3>2
    <2>3. E.got = sent
      BY <2>1 DEF Promised
    <2> QED
      BY <1>1, <2>1, <2>2, <2>3 DEF Entangled
  <1>5. /\ e.ts = m.ts /\ e.len = Len(m.data) /\ e.type = m.type /\ e.fmt = l.fmt
        /\ (l.fmt # 0 => e.delta = l.delta) /\ e.exted = (d >= ExtMark) /\ e.data \o w = m.data
        /\ e.remain = Len(w)
    BY <1>4 DEF Owes, Match
  <1>6. E.chunks \in [Keys -> Entries] /\ e \in Entries
    BY KeyFacts DEF Readers
  <1>7. Len(w) \in Nat \ {0} /\ now \in Nat \ {0} /\ now <= Len(w)
    BY <1>1, EmptySeq DEF Least
  <1>8. /\ words \in Seq(WordTokens) /\ Len(words) = now /\ rest \in Seq(WordTokens)
        /\ Len(rest) = Len(w) - now /\ words \o rest = w
    <2>1. now \in 0 .. Len(w)
      BY <1>7
    <2> QED
      BY <1>1, <2>1, SplitAt DEF SplitsAt
  <1>9. d \in Nat /\ (d >= ExtMark /\ writer # "terse" => m.ts = d)
    <2>1. l.fmt # 0 /\ l.delta >= ExtMark => writer = "terse"
      BY DEF Sound
    <2> QED
      BY <2>1, <1>2, <1>3 DEF Delta
  <1>10. e.data \in Seq(Tokens) /\ w \in Seq(Tokens) /\ words \in Seq(Tokens)
         /\ rest \in Seq(Tokens)
    <2>1. e.data \in Seq(Tokens)
      BY <1>6 DEF Entries, Fields
    <2> QED
      BY <2>1, <1>1, <1>8, TokenTypes
  <1> HIDE DEF l, m, d, w, words, rest, e
  <1>n. PICK N : N = Continues(e, words)
    OBVIOUS
  <1> DEFINE F == Result(E, c, N)
  <1> HIDE DEF F
  <1>11. w[1].v < 0
    <2>1. m.type # "size"
      <3>1. m.type = "size" => w = <<>> \/ Fresh(c)
        BY DEF Sound, m, l, w
      <3>2. w # <<>>
        BY DEF w
      <3> QED
        BY <3>1, <3>2
    <2>2. Len(e.data) + 1 \in 1 .. Len(m.data)
      <3>1. Len(m.data) = Len(e.data) + Len(w) /\ Len(e.data) \in Nat
        <4>1. Len(e.data \o w) = Len(e.data) + Len(w)
          BY <1>10, TokensConcat
        <4>2. Len(e.data) \in Nat
          BY <1>10
        <4> QED
          BY <4>1, <4>2, <1>5
      <3> QED
        BY <3>1, <1>7
    <2>3. (e.data \o w)[Len(e.data) + 1] = w[1]
      BY <1>7, <1>10
    <2> QED
      BY <1>3, <1>5, <2>1, <2>2, <2>3
  <1>12. t = Chunk(3, c, d, m, words) /\ now = Least(Len(w), chunkSize)
    BY DEF d, m, l, words, w
  <1>13. Understands(E, t, c, N) /\ Completes(N, m)
    <2>1. words = SubSeq(w, 1, Len(words)) /\ Len(words) = Least(Len(w), E.remote)
      BY <1>4, <1>8, <1>12 DEF words
    <2>2. w # <<>> /\ w \in Seq(WordTokens) /\ words \in Seq(WordTokens)
      BY <1>1, <1>8 DEF w
    <2>3. e = E.chunks[Key(c)] /\ N = Continues(e, words)
      BY <1>n DEF e
    <2>4. d >= ExtMark /\ writer # "terse" => e.ts = d
      BY <1>5, <1>9
    <2> QED
      BY <1>2, <1>5, <1>9, <1>11, <1>12, <2>1, <2>2, <2>3, <2>4, ContinueAfter
  <1>14. Returned(F, E, c, N, m)
    BY <1>2, <1>13, ResultFacts DEF F
  <1>15. After(E, t) = F /\ t \in Seq(Tokens) /\ Good(E, t)
    BY <1>13 DEF Understands, F
  <1>16. /\ N.remain = Len(w) - now /\ N.data = e.data \o words /\ N.ts = e.ts
         /\ N.len = e.len /\ N.type = e.type /\ N.fmt = e.fmt /\ N.delta = e.delta
         /\ N.exted = e.exted
    BY <1>n, <1>5, <1>6, <1>8 DEF Continues, Entries, Fields
  <1>17. left'[c] = rest /\ \A x \in Streams : x # c => left'[x] = left[x]
    BY DEF Types, rest, w
  <1>18. Owes(N, c)' /\ ~Fresh(c)'
    <2>1. ~Fresh(c)'
      <3>1. Len(w) <= Len(m.data) /\ Len(m.data) \in Nat
        BY <1>3 DEF Sound, w, m, l
      <3>2. Len(rest) < Len(m.data)
        BY <3>1, <1>7, <1>8
      <3>3. rest # m.data
        BY <3>2, <3>1
      <3> QED
        BY <3>3, <1>17 DEF Fresh, m, l
    <2> QED
      BY <2>1, <1>8, <1>16, <1>17 DEF Owes
  <1>19. Match(N, c)'
    <2>1. N.data \o rest = m.data
      <3>1. (e.data \o words) \o rest = e.data \o (words \o rest)
        BY <1>10, TokensAssociate
      <3> QED
        BY <3>1, <1>5, <1>8, <1>16
    <2> QED
      BY <2>1, <1>5, <1>16, <1>17 DEF Match, m, l, d
  <1>20. Entangled(F)'
    <2>1. Entangled(E)
      BY DEF Agrees
    <2>2. Begun(c)' /\ \A x \in Streams : Begun(x)' /\ Key(x) = Key(c) => x = c
      BY <1>1 DEF Begun, Sound
    <2>3. \A k \in Keys : F.chunks[k] = IF k = Key(c) THEN N ELSE E.chunks[k]
      BY <1>14 DEF Returned
    <2> QED
      BY <1>17, <1>18, <1>19, <2>1, <2>2, <2>3, EntangledWrite
  <1>21. F.got = Promised' /\ F.remote = chunkSize'
    <2>1. F.got = (IF N.remain = 0 THEN Append(sent, m) ELSE sent)
          /\ F.remote = (IF N.remain = 0 /\ m.type = "size" THEN NewSize ELSE chunkSize)
      BY <1>4, <1>14 DEF Returned
    <2>2. m.type # "size"
      BY DEF Sound, m, l
    <2>3. (N.remain = 0) = (now = Len(w))
      BY <1>7, <1>16
    <2> QED
      BY <2>1, <2>2, <2>3 DEF w, m, l
  <1> QED
    BY <1>14, <1>15, <1>20, <1>21 DEF Understood, Agrees, Returned

(* What a step does that begins m on c, for a reader E.                    *)
StartsFrom(e, fmt, d, m) ==
    /\ e.remain = 0
    /\ fmt \in {2, 3} => e.len = Len(m.data) /\ e.type = m.type
    /\ fmt = 3 => /\ e.fmt \in {1, 2} /\ e.delta = d /\ e.exted = (d >= ExtMark)
                  /\ Extra(fmt, d) = IF d >= ExtMark THEN 1 ELSE 0
    /\ m.ts = IF fmt = 0 THEN d ELSE e.ts + d
Puts(E, c, fmt, d, m, now) ==
    /\ now = Least(Len(m.data), E.remote)
    /\ last'[c].msg = m /\ last'[c].fmt = (IF fmt = 3 THEN E.chunks[Key(c)].fmt ELSE fmt)
    /\ last'[c].fmt # 0 => last'[c].delta = d
    /\ left'[c] = SubSeq(m.data, now + 1, Len(m.data))
    /\ \A x \in Streams : x # c => last'[x] = last[x] /\ left'[x] = left[x]
    /\ \A x \in Streams : Begun(x)' /\ Key(x) = Key(c) => x = c
    /\ chunkSize' = (IF m.type = "size" THEN NewSize ELSE E.remote)
    /\ Promised' = (IF now = Len(m.data) THEN Append(sent, m) ELSE sent)

(* The first chunk does so as well.                                        *)
LEMMA BeginAgrees ==
  ASSUME NEW E \in Readers, Agrees(E), out.todo = <<>>, writer' = writer,
         NEW c \in Streams, NEW fmt \in 0 .. 3, NEW d \in Nat, NEW m \in Msgs, NEW now,
         StartsFrom(E.chunks[Key(c)], fmt, d, m), Puts(E, c, fmt, d, m, now),
         NEW t, t = Chunk(fmt, c, d, m, SubSeq(m.data, 1, now))
  PROVE  Understood(E, t)
  <1>1. PICK e : e = E.chunks[Key(c)]
    OBVIOUS
  <1>2. /\ e.remain = 0
        /\ (fmt \in {2, 3} => e.len = Len(m.data) /\ e.type = m.type)
        /\ (fmt = 3 => /\ e.fmt \in {1, 2} /\ e.delta = d /\ e.exted = (d >= ExtMark)
                       /\ Extra(fmt, d) = IF d >= ExtMark THEN 1 ELSE 0)
        /\ m.ts = IF fmt = 0 THEN d ELSE e.ts + d
    BY <1>1, Zenon DEF StartsFrom
  <1>3. /\ now = Least(Len(m.data), E.remote)
        /\ last'[c].msg = m /\ last'[c].fmt = (IF fmt = 3 THEN e.fmt ELSE fmt)
        /\ (last'[c].fmt # 0 => last'[c].delta = d)
        /\ left'[c] = SubSeq(m.data, now + 1, Len(m.data))
        /\ (\A x \in Streams : x # c => last'[x] = last[x] /\ left'[x] = left[x])
        /\ (\A x \in Streams : Begun(x)' /\ Key(x) = Key(c) => x = c)
        /\ chunkSize' = (IF m.type = "size" THEN NewSize ELSE E.remote)
        /\ Promised' = (IF now = Len(m.data) THEN Append(sent, m) ELSE sent)
    BY <1>1, Zenon DEF Puts
  <1> USE <1>1, <1>2, <1>3
  <1> DEFINE n == Len(m.data)
             words == SubSeq(m.data, 1, now)
             rest == SubSeq(m.data, now + 1, n)
             N == Begins(e, fmt, d, m, words)
             F == Result(E, c, N)
  <1>4. /\ m.type \in Kinds /\ m.type # "none" /\ m.ts \in Nat /\ m.data \in Seq(WordTokens)
        /\ n \in Nat \ {0} /\ (m.type = "size" => n = 1)
    <2>1. /\ m.type \in Kinds /\ m.ts \in Nat /\ m.data \in Seq(WordTokens)
          /\ n \in Nat \ {0} /\ m.type \in {"media", "size", "ack"}
          /\ (m.type = "size" => m.data = <<Word(NewSize)>>)
      BY MsgTypes
    <2>2. m.type = "size" => n = 1
      BY <2>1
    <2> QED
      BY <2>1, <2>2
  <1>5. E.remote \in Nat \ {0} /\ E.chunks \in [Keys -> Entries] /\ e \in Entries
    BY KeyFacts, ReaderTypes
  <1>6. now \in Nat \ {0} /\ now <= n /\ (m.type = "size" => now = n)
    BY <1>4, <1>5, LeastFacts
  <1>7. /\ words \in Seq(WordTokens) /\ Len(words) = now /\ rest \in Seq(WordTokens)
        /\ Len(rest) = n - now /\ words \o rest = m.data
    <2>1. now \in 0 .. n
      BY <1>4, <1>6
    <2> QED
      BY <1>4, <2>1, SplitAt DEF SplitsAt
  <1>8. t = Chunk(fmt, c, d, m, words) /\ words = SubSeq(m.data, 1, Len(words))
        /\ Len(words) = Least(Len(m.data), E.remote) /\ left'[c] = rest
    BY <1>7
  <1> HIDE DEF n, words, rest, N, F
  <1>9. N = Begins(e, fmt, d, m, words)
    BY DEF N
  <1>10. Understands(E, t, c, N) /\ Completes(N, m)
    <2>1. CanStart(E, c, fmt, d, m, words)
      BY <1>8, Zenon DEF CanStart
    <2>2. Started(E, Chunk(fmt, c, d, m, words), c,
                  Begins(E.chunks[Key(c)], fmt, d, m, words), m)
      BY <1>7, <2>1, StartAfter
    <2> QED
      BY <1>8, <1>9, <2>2, Zenon DEF Started
  <1>11. Returned(F, E, c, N, m)
    BY <1>10, ResultFacts DEF F
  <1>12. After(E, t) = F /\ t \in Seq(Tokens) /\ Good(E, t)
    BY <1>10 DEF Understands, F
  <1>13. /\ N.remain = n - now /\ N.data = words /\ N.ts = m.ts /\ N.len = n
         /\ N.type = m.type /\ N.fmt = (IF fmt = 3 THEN e.fmt ELSE fmt)
         /\ N.delta = (IF fmt \in {1, 2} THEN d ELSE e.delta) /\ N.exted = (d >= ExtMark)
    BY <1>7, <1>9 DEF Begins, n
  <1>14. Owes(N, c)'
    <2>1. ~Fresh(c)'
      <3>1. Len(rest) < n
        BY <1>4, <1>6, <1>7
      <3>2. rest # m.data
        BY <3>1, <1>4 DEF n
      <3> QED
        BY <3>2, <1>8 DEF Fresh
    <2> QED
      BY <2>1, <1>7, <1>8, <1>13 DEF Owes
  <1>15. Match(N, c)'
    <2>1. Delta(last'[c]) = d
      <3>1. CASE last'[c].fmt = 0
        <4>1. fmt = 0
          BY <3>1
        <4> QED
          BY <3>1, <4>1 DEF Delta
      <3>2. CASE last'[c].fmt # 0
        BY <3>2 DEF Delta
      <3> QED
        BY <3>1, <3>2
    <2>2. last'[c].fmt # 0 => N.delta = last'[c].delta
      BY <1>13
    <2> QED
      BY <2>1, <2>2, <1>7, <1>8, <1>13 DEF Match, n
  <1>16. Entangled(F)'
    <2>1. Entangled(E)
      BY DEF Agrees
    <2>2. Begun(c)'
      BY <1>4 DEF Begun
    <2>3. \A k \in Keys : F.chunks[k] = IF k = Key(c) THEN N ELSE E.chunks[k]
      BY <1>11 DEF Returned
    <2> QED
      BY <1>14, <1>15, <2>1, <2>2, <2>3, EntangledWrite
  <1>17. F.got = Promised' /\ F.remote = chunkSize'
    <2>1. E.got = sent
      BY DEF Agrees, Promised
    <2>2. F.got = (IF N.remain = 0 THEN Append(sent, m) ELSE sent)
          /\ F.remote = (IF N.remain = 0 /\ m.type = "size" THEN NewSize ELSE E.remote)
      BY <1>11, <2>1 DEF Returned
    <2>3. (N.remain = 0) = (now = n)
      BY <1>4, <1>6, <1>13
    <2> QED
      BY <2>2, <2>3, <1>6 DEF n
  <1> QED
    BY <1>11, <1>12, <1>16, <1>17 DEF Understood, Agrees, Returned

-----------------------------------------------------------------------------
(* The actions of this program's writer.                                   *)
LEMMA BegunMsg ==
  ASSUME Types, NEW c \in Streams, Begun(c)
  PROVE  last[c].msg \in Msgs /\ last[c].delta \in Nat /\ last[c].fmt \in 0 .. 2
  <1>1. last[c] \in [msg : Msgs \cup {NoMsg}, delta : Nat, fmt : 0 .. 2]
    BY DEF Types
  <1>2. last[c].msg # NoMsg
    BY DEF Begun, NoMsg, NoHeader
  <1> QED
    BY <1>1, <1>2

(* Some words of a message are its last words exactly if none is left.     *)
Takes(w, now) ==
    /\ now \in 1 .. Len(w) /\ SplitsAt(w, now) /\ SubSeq(w, 1, now) # <<>>
    /\ SubSeq(w, now + 1, Len(w)) = <<>> <=> now = Len(w)

LEMMA LastWords ==
  ASSUME NEW w \in Seq(WordTokens), w # <<>>, NEW size \in Nat \ {0},
         NEW now, now = Least(Len(w), size)
  PROVE  Takes(w, now)
  <1>1. Len(w) \in Nat \ {0}
    BY EmptySeq
  <1>2. now \in 1 .. Len(w)
    BY <1>1 DEF Least
  <1>3. SplitsAt(w, now)
    BY <1>1, <1>2, SplitAt
  <1> DEFINE a == SubSeq(w, 1, now)
             b == SubSeq(w, now + 1, Len(w))
  <1>4. a \in Seq(WordTokens) /\ Len(a) = now /\ b \in Seq(WordTokens) /\ Len(b) = Len(w) - now
    BY <1>3, Zenon DEF SplitsAt
  <1> HIDE DEF a, b
  <1>5. a # <<>>
    BY <1>1, <1>2, <1>4
  <1>6. (b = <<>>) = (Len(b) = 0)
    BY <1>4, EmptySeq
  <1>7. (b = <<>>) = (now = Len(w))
    BY <1>1, <1>2, <1>4, <1>6
  <1> QED
    BY <1>2, <1>3, <1>5, <1>7, Zenon DEF Takes, a, b

LEMMA OwnChunkWrites ==
  ASSUME Types, Sound, OwnChunk, NEW E \in Readers, Agrees(E)
  PROVE  \E t \in Seq(Tokens) : Writes(E, t)
  <1> DEFINE c == out.csid
             m == last[c].msg
             w == left[c]
             now == Least(Len(w), chunkSize)
             words == SubSeq(w, 1, now)
             rest == SubSeq(w, now + 1, Len(w))
             fmt == IF w = m.data THEN 0 ELSE 3
  <1>1. PICK t : t = Chunk(fmt, c, m.ts, m, words)
    OBVIOUS
  <1>2. /\ writer = "own" /\ out.todo = <<>> /\ w # <<>> /\ ~cut
        /\ wire' = Append(wire, Head(t)) /\ out' = [csid |-> c, todo |-> Tail(t)]
        /\ left' = [left EXCEPT ![c] = rest]
        /\ UNCHANGED <<writer, cut, chunkSize, begun, last, rVars, sent, intact>>
    BY <1>1 DEF OwnChunk
  <1>3. c \in Streams /\ c \in {2, 6} /\ Begun(c) /\ w \in Seq(WordTokens)
        /\ chunkSize \in Nat \ {0} /\ last[c].fmt = 0
        /\ \A x \in Streams : left[x] # <<>> => x = c
    BY <1>2, KeyFacts DEF Types
  <1>4. m \in Msgs /\ m.ts \in Nat
    BY <1>3, BegunMsg, MsgTypes
  <1>5. left'[c] = rest /\ \A x \in Streams : x # c => left'[x] = left[x]
    BY <1>2, <1>3 DEF Types
  <1> HIDE DEF c, m, w, words, rest, fmt, now
  <1>6. now = Least(Len(w), chunkSize)
    BY DEF now
  <1>7. now \in 1 .. Len(w) /\ words # <<>> /\ words \in Seq(WordTokens)
        /\ (rest = <<>> <=> now = Len(w))
    <2>1. Takes(w, now)
      BY <1>2, <1>3, <1>6, LastWords
    <2> QED
      BY <2>1, Zenon DEF words, rest, SplitsAt, Takes
  <1>8. t \in Seq(Tokens) /\ Len(t) >= 2
    <2>1. fmt \in 0 .. 3
      BY DEF fmt
    <2> QED
      BY <1>1, <1>3, <1>4, <1>7, <2>1, ChunkType DEF ChunkHead
  <1>9. Tail(t) # <<>>
    BY <1>8
  <1>10. Emits(t)
    BY <1>2 DEF Emits
  <1>11. Promised' = IF now = Len(w) THEN Append(sent, m) ELSE sent
    <2>1. out'.todo # <<>> /\ out'.csid = c /\ left'[out'.csid] = rest /\ sent' = sent
          /\ last'[out'.csid].msg = m
      BY <1>2, <1>5, <1>9 DEF m
    <2>2. Promised' = IF out'.todo # <<>> /\ left'[out'.csid] = <<>>
                      THEN Append(sent', last'[out'.csid].msg) ELSE sent'
      BY Zenon DEF Promised
    <2> QED
      BY <2>1, <2>2, <1>7
  <1>12. ASSUME Fresh(c)
         PROVE  Understood(E, t)
    <2>1. w = m.data /\ fmt = 0
      BY <1>12 DEF Fresh, w, m, fmt
    <2>2. Owes(E.chunks[Key(c)], c) /\ (E.remote = chunkSize \/ Fresh(2))
      BY <1>2, <1>3 DEF Agrees, Entangled
    <2>3. E.chunks[Key(c)].remain = 0
      BY <1>12, <2>2 DEF Owes
    <2>4. m.type = "size" <=> c = 2
      BY <1>3 DEF Sound, m
    <2>5. c # 2 => E.remote = chunkSize
      <3>1. Fresh(2) => c = 2
        BY <1>3, KeyFacts DEF Fresh
      <3> QED
        BY <2>2, <3>1
    <2>6. c = 2 => chunkSize = NewSize
      BY <1>2, <1>12 DEF Sound
    <2>7. E.remote \in Nat \ {0}
      BY ReaderTypes
    <2>8. now = Least(Len(m.data), E.remote)
      <3>1. CASE c = 2
        <4>1. m.data = <<Word(NewSize)>>
          BY <1>4, <2>4, <3>1, MsgTypes
        <4>2. Len(m.data) = 1
          BY <4>1
        <4>3. Least(1, chunkSize) = 1 /\ Least(1, E.remote) = 1
          BY <1>3, <2>7 DEF Least
        <4> QED
          BY <4>2, <4>3, <1>6, <2>1, Zenon
      <3>2. CASE c # 2
        BY <3>2, <1>6, <2>1, <2>5
      <3> QED
        BY <3>1, <3>2
    <2>9. chunkSize' = IF m.type = "size" THEN NewSize ELSE E.remote
      BY <1>2, <2>4, <2>5, <2>6
    <2>10. \A x \in Streams : Begun(x)' /\ Key(x) = Key(c) => x = c
      BY <1>2, <1>3 DEF Begun, Sound
    <2>11. last'[c].msg = m /\ last'[c].fmt = 0 /\ \A x \in Streams : last'[x] = last[x]
      BY <1>2, <1>3 DEF m
    <2>12. t = Chunk(0, c, m.ts, m, SubSeq(m.data, 1, now))
           /\ left'[c] = SubSeq(m.data, now + 1, Len(m.data))
      BY <1>1, <1>5, <2>1 DEF words, rest
    <2>13. Promised' = IF now = Len(m.data) THEN Append(sent, m) ELSE sent
      BY <1>11, <2>1
    <2>14. Puts(E, c, 0, m.ts, m, now)
      BY <1>5, <2>8, <2>9, <2>10, <2>11, <2>12, <2>13 DEF Puts
    <2>15. StartsFrom(E.chunks[Key(c)], 0, m.ts, m)
      BY <2>3 DEF StartsFrom
    <2>16. 0 \in 0 .. 3 /\ writer' = writer /\ out.todo = <<>>
      BY <1>2
    <2> QED
      BY <1>3, <1>4, <2>12, <2>14, <2>15, <2>16, BeginAgrees
  <1>13. ASSUME ~Fresh(c)
         PROVE  Understood(E, t)
    <2>1. fmt = 3 /\ left[c] # <<>>
      BY <1>2, <1>13 DEF Fresh, w, m, fmt
    <2>2. Delta(last[c]) = m.ts
      BY <1>3 DEF Delta, m
    <2>3. t = Chunk(3, c, Delta(last[c]), last[c].msg, SubSeq(left[c], 1, now))
      BY <1>1, <2>1, <2>2 DEF words, m, w
    <2>4. left' = [left EXCEPT ![c] = SubSeq(left[c], now + 1, Len(left[c]))]
          /\ now = Least(Len(left[c]), chunkSize)
      BY <1>2, <1>6 DEF rest, w
    <2>5. Promised' = IF now = Len(left[c]) THEN Append(sent, last[c].msg) ELSE sent
      BY <1>11 DEF w, m
    <2> QED
      BY <1>2, <1>3, <1>13, <2>1, <2>3, <2>4, <2>5, ContinueAgrees
  <1>14. Understood(E, t)
    BY <1>12, <1>13
  <1> QED
    BY <1>8, <1>10, <1>14 DEF Writes, Understood

(* An acknowledgement does not touch the message being written.            *)
LEMMA OwnAckWrites ==
  ASSUME Types, Sound, OwnAck, intact', NEW E \in Readers, Agrees(E)
  PROVE  \E t \in Seq(Tokens) : Writes(E, t)
  <1>1. PICK m : m = Message(begun + 1, "ack", 0, 1)
    OBVIOUS
  <1>2. PICK t : t = Chunk(0, 2, 0, m, m.data)
    OBVIOUS
  <1>3. /\ writer = "own" /\ out.todo = <<>> /\ wire' = wire \o t /\ sent' = Append(sent, m)
        /\ UNCHANGED <<writer, cut, chunkSize, out, last, left, rVars>>
    BY <1>1, <1>2, Zenon DEF OwnAck
  <1>4. m \in Msgs /\ m.type = "ack" /\ m.ts = 0 /\ Len(m.data) = 1
    <2>1. begun + 1 \in Nat \ {0} /\ 1 \in Nat \ {0} /\ 0 \in Nat
      BY DEF Types
    <2>2. PICK type : type = "ack"
      OBVIOUS
    <2>3. type \in {"media", "size", "ack"} /\ type # "size" /\ m = Message(begun + 1, type, 0, 1)
      BY <1>1, <2>2
    <2>4. IsMessage(m, type, 0, 1)
      BY <2>1, <2>3, MessageType
    <2> QED
      BY <2>2, <2>4 DEF IsMessage
  <1>5. m.data \in Seq(WordTokens)
    BY <1>4, MsgTypes
  <1>6. E.remote \in Nat \ {0} /\ E.got = sent /\ Entangled(E)
        /\ (E.remote = chunkSize \/ Fresh(2))
    BY <1>3, ReaderTypes DEF Agrees, Promised
  <1>7. 2 \in Streams /\ Key(2) = 2 /\ 2 \in Keys
        /\ \A c \in Streams : Key(c) \in Keys /\ (Key(c) = 2 => c = 2)
    BY KeyFacts
  <1>8. Begun(2) => left[2] = <<>> \/ Fresh(2)
    BY <1>7 DEF Sound
  <1>9. E.chunks[2].remain = 0
    <2>1. CASE Begun(2)
      <3>1. Owes(E.chunks[2], 2)
        BY <2>1, <1>6, <1>7 DEF Entangled
      <3> QED
        BY <2>1, <3>1, <1>8 DEF Owes
    <2>2. CASE ~Begun(2)
      BY <2>2, <1>6, <1>7 DEF Entangled
    <2> QED
      BY <2>1, <2>2
  <1>10. PICK N : N = Begins(E.chunks[Key(2)], 0, 0, m, m.data)
    OBVIOUS
  <1>11. Understands(E, t, 2, N) /\ Completes(N, m)
    <2>1. CanStart(E, 2, 0, 0, m, m.data)
      <3>1. Len(m.data) = Least(Len(m.data), E.remote)
        BY <1>4, <1>6 DEF Least
      <3>2. m.data = SubSeq(m.data, 1, Len(m.data))
        BY <1>5, WholeSubSeq
      <3> QED
        BY <1>4, <1>7, <1>9, <3>1, <3>2 DEF CanStart
    <2>2. 0 \in 0 .. 3 /\ 0 \in Nat
      OBVIOUS
    <2>3. Started(E, Chunk(0, 2, 0, m, m.data), 2,
                  Begins(E.chunks[Key(2)], 0, 0, m, m.data), m)
      BY <1>4, <1>5, <1>7, <2>1, <2>2, StartAfter
    <2> QED
      BY <1>2, <1>10, <2>3, Zenon DEF Started
  <1>12. PICK F : F = Result(E, 2, N)
    OBVIOUS
  <1>13. Returned(F, E, 2, N, m)
    BY <1>4, <1>7, <1>11, <1>12, ResultFacts
  <1>14. After(E, t) = F /\ t \in Seq(Tokens) /\ Good(E, t)
    BY <1>11, <1>12 DEF Understands
  <1>15. N.remain = 0
    BY <1>4, <1>10 DEF Begins
  <1>16. F.got = sent' /\ F.remote = E.remote /\ F \in Readers
         /\ \A k \in Keys : F.chunks[k] = IF k = 2 THEN N ELSE E.chunks[k]
    BY <1>3, <1>4, <1>6, <1>7, <1>13, <1>15 DEF Returned
  <1>17. Entangled(F)
    <2>1. ASSUME NEW c \in Streams, Begun(c) PROVE Owes(F.chunks[Key(c)], c)
      <3>1. CASE c = 2
        BY <3>1, <2>1, <1>7, <1>8, <1>15, <1>16 DEF Owes
      <3>2. CASE c # 2
        BY <3>2, <2>1, <1>6, <1>7, <1>16 DEF Entangled
      <3> QED
        BY <3>1, <3>2
    <2>2. ASSUME NEW k \in Keys, \A c \in Streams : Key(c) = k => ~Begun(c)
          PROVE  F.chunks[k].remain = 0
      BY <2>2, <1>6, <1>15, <1>16 DEF Entangled
    <2>3. ASSUME NEW c \in Streams, Begun(c), left[c] # <<>>, ~Fresh(c)
          PROVE  Match(F.chunks[Key(c)], c)
      <3>1. c # 2
        BY <2>3, <1>8
      <3> QED
        BY <2>3, <3>1, <1>6, <1>7, <1>16 DEF Entangled
    <2> QED
      BY <2>1, <2>2, <2>3, <1>3 DEF Entangled
  <1>18. Agrees(F)'
    <2>1. Entangled(F)' /\ (Fresh(2)' = Fresh(2)) /\ chunkSize' = chunkSize /\ writer' = "own"
      BY <1>3, <1>17 DEF Entangled, Owes, Match, Begun, Fresh, Delta
    <2>2. Promised' = sent'
      BY <1>3 DEF Promised
    <2> QED
      BY <2>1, <2>2, <1>6, <1>16 DEF Agrees
  <1>19. Emits(t)
    BY <1>3 DEF Emits
  <1> QED
    BY <1>14, <1>16, <1>18, <1>19 DEF Writes

-----------------------------------------------------------------------------
(* The actions of another implementation.                                  *)
LEMMA OtherContinueWrites ==
  ASSUME Types, Sound, NEW c \in Streams, OtherContinue(c), NEW E \in Readers, Agrees(E)
  PROVE  \E t \in Seq(Tokens) : Writes(E, t)
  <1>1. PICK now : now = Least(Len(left[c]), chunkSize)
    OBVIOUS
  <1>2. PICK t : t = Chunk(3, c, Delta(last[c]), last[c].msg, SubSeq(left[c], 1, now))
    OBVIOUS
  <1>3. /\ writer # "own" /\ left[c] # <<>> /\ wire' = wire \o t
        /\ left' = [left EXCEPT ![c] = SubSeq(left[c], now + 1, Len(left[c]))]
        /\ sent' = (IF now = Len(left[c]) THEN Append(sent, last[c].msg) ELSE sent)
        /\ UNCHANGED <<writer, cut, chunkSize, begun, out, last, rVars, intact>>
    BY <1>1, <1>2, Zenon DEF OtherContinue, Delta
  <1>4. out.todo = <<>> /\ ~Fresh(c)
    BY <1>3 DEF Types, Sound
  <1>5. Promised' = sent'
    BY <1>3, <1>4 DEF Promised
  <1>6. Promised' = IF now = Len(left[c]) THEN Append(sent, last[c].msg) ELSE sent
    BY <1>3, <1>5
  <1>7. Understood(E, t)
    BY <1>1, <1>2, <1>3, <1>4, <1>6, ContinueAgrees
  <1>8. Emits(t)
    BY <1>3, <1>4 DEF Emits
  <1> QED
    BY <1>7, <1>8 DEF Writes, Understood

(* A step that begins the message m on c, in format fmt with the time      *)
(* stamp or delta d, and puts now words of it into the first chunk.        *)
OtherStep(c, fmt, d, m, now) ==
    /\ writer # "own" /\ ~cut /\ left[c] = <<>>
    /\ m.type = (IF c = 2 THEN "size" ELSE "media")
    /\ fmt # 0 => Begun(c)
    /\ fmt = 3 => last[c].fmt # 0 /\ d = last[c].delta
    /\ fmt \in {2, 3} => Len(m.data) = Len(last[c].msg.data) /\ c # 2
    /\ m.ts = (IF fmt = 0 THEN d ELSE last[c].msg.ts + d)
    /\ now = Least(Len(m.data), chunkSize)
    /\ wire' = wire \o Chunk(fmt, c, d, m, SubSeq(m.data, 1, now))
    /\ last' = [last EXCEPT ![c] = [msg |-> m, delta |-> d,
                                    fmt |-> IF fmt = 3 THEN last[c].fmt ELSE fmt]]
    /\ left' = [left EXCEPT ![c] = SubSeq(m.data, now + 1, Len(m.data))]
    /\ sent' = (IF now = Len(m.data) THEN Append(sent, m) ELSE sent)
    /\ intact' = (/\ intact /\ ~Shared(c)
                  /\ fmt # 0 /\ d >= ExtMark =>
                         IF writer = "terse" THEN fmt # 3 ELSE now = Len(m.data))
    /\ chunkSize' = (IF c = 2 THEN NewSize ELSE chunkSize)
    /\ begun' = begun + 1 /\ UNCHANGED <<writer, cut, out, rVars>>

LEMMA OtherBegins ==
  ASSUME Types, NEW c \in Streams, NEW fmt \in 0 .. 3, NEW delta \in Nat, NEW len \in Nat \ {0},
         writer # "own", ~cut, left[c] = <<>>, c = 2 => fmt = 0 /\ len = 1,
         fmt # 0 => Begun(c), fmt = 3 => last[c].fmt # 0,
         OtherBegin(c, fmt, delta, len), begun' = begun + 1, UNCHANGED <<writer, cut, out, rVars>>
  PROVE  \E d \in Nat : \E m \in Msgs : \E now : OtherStep(c, fmt, d, m, now)
  <1>1. PICK l : l = last[c]
    OBVIOUS
  <1>2. PICK d : d = IF fmt = 3 THEN l.delta ELSE delta
    OBVIOUS
  <1>3. PICK ts : ts = IF fmt = 0 THEN delta ELSE l.msg.ts + d
    OBVIOUS
  <1>4. PICK n : n = IF fmt \in {2, 3} THEN Len(l.msg.data) ELSE len
    OBVIOUS
  <1>5. PICK type : type = IF c = 2 THEN "size" ELSE "media"
    OBVIOUS
  <1>6. PICK m : m = Message(begun + 1, type, ts, n)
    OBVIOUS
  <1>7. PICK now : now = Least(n, chunkSize)
    OBVIOUS
  <1>8. /\ wire' = wire \o Chunk(fmt, c, d, m, SubSeq(m.data, 1, now))
        /\ last' = [last EXCEPT ![c] = [msg |-> m, delta |-> d,
                                        fmt |-> IF fmt = 3 THEN l.fmt ELSE fmt]]
        /\ left' = [left EXCEPT ![c] = SubSeq(m.data, now + 1, n)]
        /\ sent' = (IF now = n THEN Append(sent, m) ELSE sent)
        /\ intact' = (/\ intact /\ ~Shared(c)
                      /\ fmt # 0 /\ d >= ExtMark =>
                             IF writer = "terse" THEN fmt # 3 ELSE now = n)
        /\ chunkSize' = (IF c = 2 THEN NewSize ELSE chunkSize)
    BY <1>1, <1>2, <1>3, <1>4, <1>5, <1>6, <1>7, Zenon DEF OtherBegin
  <1>9. fmt # 0 => l.msg \in Msgs /\ l.delta \in Nat /\ l.fmt \in 0 .. 2 /\ l.msg.ts \in Nat
                   /\ Len(l.msg.data) \in Nat \ {0}
    BY <1>1, BegunMsg, MsgTypes
  <1>10. d \in Nat
    BY <1>2, <1>9
  <1>11. ts \in Nat
    BY <1>3, <1>9, <1>10
  <1>12. n \in Nat \ {0}
    BY <1>4, <1>9
  <1>13. type \in {"media", "size", "ack"} /\ (type = "size" <=> c = 2)
    BY <1>5
  <1>14. begun + 1 \in Nat \ {0}
    BY DEF Types
  <1>15. IsMessage(m, type, ts, n)
    BY <1>6, <1>11, <1>12, <1>13, <1>14, MessageType
  <1>16. m \in Msgs /\ m.type = type /\ m.ts = ts
    BY <1>15 DEF IsMessage
  <1>17. Len(m.data) = n
    <2>1. Len(m.data) = IF type = "size" THEN 1 ELSE n
      BY <1>15 DEF IsMessage
    <2>2. c = 2 => n = 1
      BY <1>4
    <2> QED
      BY <2>1, <2>2, <1>13
  <1>18. OtherStep(c, fmt, d, m, now)
    <2>1. m.type = (IF c = 2 THEN "size" ELSE "media")
      BY <1>5, <1>16
    <2>2. fmt = 3 => d = last[c].delta
      BY <1>1, <1>2
    <2>3. fmt \in {2, 3} => Len(m.data) = Len(last[c].msg.data) /\ c # 2
      BY <1>1, <1>4, <1>17
    <2>4. m.ts = (IF fmt = 0 THEN d ELSE last[c].msg.ts + d)
      BY <1>1, <1>2, <1>3, <1>16
    <2>5. now = Least(Len(m.data), chunkSize)
      BY <1>7, <1>17
    <2>6. Len(m.data) = n /\ last[c] = l
      BY <1>1, <1>17
    <2> QED
      BY <1>8, <2>1, <2>2, <2>3, <2>4, <2>5, <2>6, Zenon DEF OtherStep
  <1> QED
    BY <1>10, <1>16, <1>18, Zenon

LEMMA OtherSteps ==
  ASSUME Types, OtherWrite
  PROVE  \E c \in Streams : \E fmt \in 0 .. 3 : \E d \in Nat : \E m \in Msgs : \E now :
             OtherStep(c, fmt, d, m, now)
  <1>1. /\ writer # "own" /\ ~cut /\ begun' = begun + 1 /\ UNCHANGED <<writer, cut, out, rVars>>
    BY DEF OtherWrite, CanBegin
  <1>2. Stamps \subseteq Nat /\ Lengths \subseteq Nat \ {0}
    BY ChunksAssumption DEF ChunksAssumption
  <1>3. PICK c \in Streams :
          /\ left[c] = <<>>
          /\ \/ \E delta \in Stamps, len \in Lengths :
                   OtherBegin(c, 0, delta, IF c = 2 THEN 1 ELSE len)
             \/ /\ c \in Csids /\ last[c].msg.type # "none"
                /\ \/ \E delta \in Stamps, len \in Lengths : OtherBegin(c, 1, delta, len)
                   \/ \E delta \in Stamps : OtherBegin(c, 2, delta, 1)
                   \/ last[c].fmt # 0 /\ OtherBegin(c, 3, 0, 1)
    BY Zenon DEF OtherWrite
  <1>4. c \in Csids => c # 2
    BY ChunksAssumption DEF ChunksAssumption
  <1>5. ASSUME NEW delta \in Stamps, NEW len \in Lengths, 
               OtherBegin(c, 0, delta, IF c = 2 THEN 1 ELSE len)
        PROVE  \E fmt \in 0 .. 3 : \E d \in Nat : \E m \in Msgs : \E now :
                   OtherStep(c, fmt, d, m, now)
    <2>1. PICK n : n = IF c = 2 THEN 1 ELSE len
      OBVIOUS
    <2>2. PICK fmt : fmt = 0
      OBVIOUS
    <2>3. n \in Nat \ {0} /\ delta \in Nat /\ fmt \in 0 .. 3
      BY <1>2, <2>1, <2>2
    <2>4. (c = 2 => fmt = 0 /\ n = 1) /\ ~(fmt # 0) /\ fmt # 3 /\ OtherBegin(c, fmt, delta, n)
      BY <1>5, <2>1, <2>2
    <2> QED
      BY <1>1, <1>3, <2>3, <2>4, OtherBegins
  <1>6. ASSUME NEW fmt \in 1 .. 3, NEW delta \in Nat, NEW len \in Nat \ {0}, c \in Csids,
               last[c].msg.type # "none", fmt = 3 => last[c].fmt # 0,
               OtherBegin(c, fmt, delta, len)
        PROVE  \E f \in 0 .. 3 : \E d \in Nat : \E m \in Msgs : \E now :
                   OtherStep(c, f, d, m, now)
    <2>1. fmt \in 0 .. 3 /\ Begun(c) /\ c # 2
      BY <1>4, <1>6 DEF Begun
    <2> QED
      BY <1>1, <1>3, <1>6, <2>1, OtherBegins
  <1>7. 1 \in 1 .. 3 /\ 2 \in 1 .. 3 /\ 3 \in 1 .. 3 /\ 1 \in Nat \ {0} /\ 0 \in Nat
        /\ 1 # 3 /\ 2 # 3
    OBVIOUS
  <1> QED
    BY <1>2, <1>3, <1>5, <1>6, <1>7, Zenon

LEMMA OtherBeginWrites ==
  ASSUME Types, Sound, NEW c \in Streams, NEW fmt \in 0 .. 3, NEW d \in Nat, NEW m \in Msgs,
         NEW now, OtherStep(c, fmt, d, m, now), intact', NEW E \in Readers, Agrees(E)
  PROVE  \E t \in Seq(Tokens) : Writes(E, t)
  <1>1. PICK t : t = Chunk(fmt, c, d, m, SubSeq(m.data, 1, now))
    OBVIOUS
  <1>2. PICK e : e = E.chunks[Key(c)]
    OBVIOUS
  <1>3. /\ writer # "own" /\ left[c] = <<>> /\ m.type = (IF c = 2 THEN "size" ELSE "media")
        /\ (fmt # 0 => Begun(c))
        /\ (fmt = 3 => last[c].fmt # 0 /\ d = last[c].delta)
        /\ (fmt \in {2, 3} => Len(m.data) = Len(last[c].msg.data) /\ c # 2)
        /\ m.ts = (IF fmt = 0 THEN d ELSE last[c].msg.ts + d)
        /\ now = Least(Len(m.data), chunkSize)
        /\ wire' = wire \o t
        /\ sent' = (IF now = Len(m.data) THEN Append(sent, m) ELSE sent)
        /\ chunkSize' = (IF c = 2 THEN NewSize ELSE chunkSize)
        /\ UNCHANGED <<writer, cut, out, rVars>>
    BY <1>1, Zenon DEF OtherStep
  <1>4. ~Shared(c) /\ (fmt # 0 /\ d >= ExtMark =>
                           IF writer = "terse" THEN fmt # 3 ELSE now = Len(m.data))
    BY Zenon DEF OtherStep
  <1>5. /\ last'[c] = [msg |-> m, delta |-> d, fmt |-> IF fmt = 3 THEN last[c].fmt ELSE fmt]
        /\ left'[c] = SubSeq(m.data, now + 1, Len(m.data))
        /\ \A x \in Streams : x # c => last'[x] = last[x] /\ left'[x] = left[x]
    BY DEF OtherStep, Types
  <1>6. last[c] \in [msg : Msgs \cup {NoMsg}, delta : Nat, fmt : 0 .. 2]
        /\ out.todo = <<>>
    BY <1>3 DEF Types
  <1>7. E.got = sent /\ E.remote = chunkSize /\ Entangled(E)
    BY <1>3, <1>6 DEF Agrees, Promised
  <1>8. \A x \in Streams : Begun(x) /\ Key(x) = Key(c) => x = c
    BY <1>4 DEF Shared, Begun
  <1>9. e.remain = 0
    <2>1. CASE Begun(c)
      BY <2>1, <1>2, <1>3, <1>7 DEF Entangled, Owes, Fresh
    <2>2. CASE ~Begun(c)
      BY <2>2, <1>2, <1>7, <1>8, KeyFacts DEF Entangled
    <2> QED
      BY <2>1, <2>2
  <1>10. fmt # 0 =>
           /\ e.ts = last[c].msg.ts /\ e.len = Len(last[c].msg.data)
           /\ e.type = last[c].msg.type /\ e.fmt = last[c].fmt
           /\ (last[c].fmt # 0 => e.delta = last[c].delta)
           /\ e.exted = (Delta(last[c]) >= ExtMark)
    BY <1>2, <1>3, <1>7 DEF Entangled, Match
  <1>11. fmt \in {2, 3} => e.type = m.type
    <2>1. ASSUME fmt \in {2, 3} PROVE e.type = m.type
      <3>1. Begun(c) /\ c # 2 /\ fmt # 0
        BY <2>1, <1>3
      <3>2. last[c].msg.type = "media" /\ m.type = "media"
        BY <3>1, <1>3 DEF Sound
      <3> QED
        BY <3>1, <3>2, <1>10
    <2> QED
      BY <2>1
  <1>12. StartsFrom(e, fmt, d, m)
    <2>1. fmt \in {2, 3} => e.len = Len(m.data)
      BY <1>3, <1>10
    <2>2. fmt = 3 => /\ e.fmt \in {1, 2} /\ e.delta = d /\ e.exted = (d >= ExtMark)
      BY <1>3, <1>6, <1>10 DEF Delta
    <2>3. fmt = 3 => Extra(fmt, d) = IF d >= ExtMark THEN 1 ELSE 0
      <3>1. ExtMark \in Nat
        BY ChunksAssumption DEF ChunksAssumption
      <3> QED
        BY <3>1, <1>4 DEF Extra
    <2>4. m.ts = IF fmt = 0 THEN d ELSE e.ts + d
      BY <1>3, <1>10
    <2> QED
      BY <1>9, <1>11, <2>1, <2>2, <2>3, <2>4, Zenon DEF StartsFrom
  <1>13. Puts(E, c, fmt, d, m, now)
    <2>1. Promised' = sent'
      BY <1>3, <1>6 DEF Promised
    <2>2. \A x \in Streams : Begun(x)' /\ Key(x) = Key(c) => x = c
      BY <1>5, <1>8 DEF Begun
    <2>3. fmt = 3 => last[c].fmt = e.fmt
      BY <1>10
    <2> QED
      BY <1>2, <1>3, <1>5, <1>7, <2>1, <2>2, <2>3 DEF Puts
  <1>14. Understood(E, t)
    BY <1>1, <1>2, <1>3, <1>6, <1>12, <1>13, BeginAgrees
  <1>15. Emits(t)
    BY <1>3, <1>6 DEF Emits
  <1> QED
    BY <1>14, <1>15 DEF Writes, Understood

-----------------------------------------------------------------------------
(* This program begins the message m on c; nothing of it is written yet.   *)
OwnStep(c, m) ==
    /\ writer = "own" /\ out.todo = <<>> /\ left[out.csid] = <<>> /\ ~cut
    /\ m.type = (IF c = 2 THEN "size" ELSE "media")
    /\ chunkSize' = (IF c = 2 THEN NewSize ELSE chunkSize)
    /\ out' = [csid |-> c, todo |-> <<>>]
    /\ last' = [last EXCEPT ![c] = [msg |-> m, delta |-> 0, fmt |-> 0]]
    /\ left' = [left EXCEPT ![c] = m.data]
    /\ begun' = begun + 1 /\ UNCHANGED <<writer, wire, cut, rVars, sent, intact>>

LEMMA OwnSteps ==
  ASSUME Types, OwnWrite
  PROVE  \E c \in {2, 6} : \E m \in Msgs : OwnStep(c, m)
  <1>1. Stamps \subseteq Nat /\ Lengths \subseteq Nat \ {0}
    BY ChunksAssumption DEF ChunksAssumption
  <1>2. PICK n : n = begun + 1
    OBVIOUS
  <1>3. n \in Nat \ {0} /\ begun' = n
    BY <1>2 DEF Types, OwnWrite
  <1>4. PICK type \in {"media", "size"}, ts \in Stamps, len \in Lengths :
          LET m == IF type = "size" THEN Message(begun', type, 0, 1)
                   ELSE Message(begun', type, ts, len)
              c == IF type = "size" THEN 2 ELSE 6
          IN  /\ chunkSize' = IF type = "size" THEN NewSize ELSE chunkSize
              /\ out' = [csid |-> c, todo |-> <<>>]
              /\ last' = [last EXCEPT ![c] = [msg |-> m, delta |-> 0, fmt |-> 0]]
              /\ left' = [left EXCEPT ![c] = m.data]
    BY Zenon DEF OwnWrite
  <1>5. PICK c : c = IF type = "size" THEN 2 ELSE 6
    OBVIOUS
  <1>6. PICK m : m = IF type = "size" THEN Message(n, type, 0, 1) ELSE Message(n, type, ts, len)
    OBVIOUS
  <1>7. /\ chunkSize' = (IF type = "size" THEN NewSize ELSE chunkSize)
        /\ out' = [csid |-> c, todo |-> <<>>]
        /\ last' = [last EXCEPT ![c] = [msg |-> m, delta |-> 0, fmt |-> 0]]
        /\ left' = [left EXCEPT ![c] = m.data]
    BY <1>3, <1>4, <1>5, <1>6, Zenon
  <1>8. m \in Msgs /\ m.type = type
    <2>1. type \in {"media", "size", "ack"} /\ 0 \in Nat /\ 1 \in Nat \ {0}
          /\ ts \in Nat /\ len \in Nat \ {0}
      BY <1>1
    <2>2. CASE type = "size"
      <3>1. IsMessage(m, type, 0, 1)
        BY <1>3, <1>6, <2>1, <2>2, MessageType
      <3> QED
        BY <3>1 DEF IsMessage
    <2>3. CASE type # "size"
      <3>1. IsMessage(m, type, ts, len)
        BY <1>3, <1>6, <2>1, <2>3, MessageType
      <3> QED
        BY <3>1 DEF IsMessage
    <2> QED
      BY <2>2, <2>3
  <1>9. c \in {2, 6} /\ (c = 2 <=> type = "size")
    BY <1>5
  <1>10. m.type = (IF c = 2 THEN "size" ELSE "media")
    BY <1>8, <1>9
  <1>11. OwnStep(c, m)
    BY <1>2, <1>3, <1>7, <1>9, <1>10 DEF OwnStep, OwnWrite, CanBegin
  <1> QED
    BY <1>8, <1>9, <1>11

(* The facts that follow from a step that changes only c of last and left. *)
LEMMA OwnBeginTypes ==
  ASSUME Types, NEW c \in {2, 6}, NEW m \in Msgs, OwnStep(c, m)
  PROVE  Types' /\ (Sound => Sound')
  <1>1. /\ writer = "own" /\ out.todo = <<>> /\ left[out.csid] = <<>>
        /\ m.type = (IF c = 2 THEN "size" ELSE "media")
        /\ chunkSize' = (IF c = 2 THEN NewSize ELSE chunkSize)
        /\ out' = [csid |-> c, todo |-> <<>>]
        /\ begun' = begun + 1 /\ UNCHANGED <<writer, wire, cut, rVars, sent, intact>>
    BY Zenon DEF OwnStep
  <1>2. c \in Streams /\ \A x \in Streams : left[x] = <<>>
    BY <1>1, KeyFacts DEF Types
  <1>3. m.data \in Seq(WordTokens) /\ m.data # <<>> /\ m.type # "none"
        /\ Len(m.data) \in Nat \ {0}
    BY MsgTypes
  <1>4. /\ last'[c] = [msg |-> m, delta |-> 0, fmt |-> 0] /\ left'[c] = m.data
        /\ \A x \in Streams : x # c => last'[x] = last[x] /\ left'[x] = <<>>
    BY <1>2 DEF OwnStep, Types
  <1>5. last' \in [Streams -> [msg : Msgs \cup {NoMsg}, delta : Nat, fmt : 0 .. 2]]
        /\ left' \in [Streams -> Seq(WordTokens)]
    BY <1>2, <1>3 DEF OwnStep, Types
  <1>6. NewSize \in Nat \ {0}
    BY ChunksAssumption DEF ChunksAssumption
  <1>7. last'[c].msg = m /\ last'[c].fmt = 0
    BY <1>4
  <1>8. \A x \in Streams : left'[x] # <<>> => Begun(x)' /\ x = out'.csid
    BY <1>1, <1>3, <1>4, <1>7 DEF Begun
  <1>9. \A x \in Streams : last'[x].fmt = 0
    BY <1>1, <1>4, <1>7 DEF Types
  <1>10. out' \in [csid : {2, 6}, todo : Seq(Tokens)] /\ out'.todo = <<>>
    BY <1>1
  <1>11. chunkSize' \in Nat \ {0} /\ begun' \in Nat /\ writer' = writer
         /\ (intact' => wire' \in Seq(Tokens)) /\ sent' \in Seq(Msgs)
         /\ writer' \in {"own", "other", "terse"} /\ cut' \in BOOLEAN /\ intact' \in BOOLEAN
    BY <1>1, <1>6 DEF Types
  <1>12. Types'
    BY <1>5, <1>8, <1>9, <1>10, <1>11 DEF Types
  <1>13. ASSUME Sound PROVE Sound'
    <2>1. \A x \in Streams : Begun(x)' => x \in {2, 6}
      BY <1>1, <1>4, <1>13 DEF Sound, Begun
    <2>2. \A x, y \in Streams : Begun(x)' /\ Begun(y)' /\ Key(x) = Key(y) => x = y
      BY <2>1, KeyFacts
    <2>3. \A x \in Streams : Begun(x)' => last'[x].msg.type = IF x = 2 THEN "size" ELSE "media"
      BY <1>1, <1>4, <1>7, <1>13 DEF Sound, Begun
    <2>4. \A x \in Streams : last'[x].msg.type = "size" => left'[x] = <<>> \/ Fresh(x)'
      BY <1>3, <1>4, <1>7 DEF Fresh
    <2>5. \A x \in Streams : Len(left'[x]) <= Len(last'[x].msg.data)
      BY <1>2, <1>3, <1>4, <1>7, <1>13 DEF Sound
    <2>6. Fresh(2)' => chunkSize' = NewSize
      BY <1>1, <1>4, KeyFacts DEF Fresh
    <2> QED
      BY <1>1, <1>9, <2>1, <2>2, <2>3, <2>4, <2>5, <2>6 DEF Sound
  <1> QED
    BY <1>12, <1>13

(* The message that is begun changes nothing for the reader.               *)
LEMMA OwnBeginHands ==
  ASSUME Inv, intact, NEW c \in {2, 6}, NEW m \in Msgs, OwnStep(c, m)
  PROVE  Parsed'
  <1>a. Types /\ Sound /\ wire \in Seq(Tokens)
    BY DEF Inv, Types
  <1>1. /\ writer = "own" /\ out.todo = <<>> /\ left[out.csid] = <<>> /\ ~cut
        /\ chunkSize' = (IF c = 2 THEN NewSize ELSE chunkSize)
        /\ out' = [csid |-> c, todo |-> <<>>]
        /\ UNCHANGED <<writer, wire, cut, rVars, sent, intact>>
    BY Zenon DEF OwnStep
  <1>2. c \in Streams /\ \A x \in Streams : left[x] = <<>>
    BY <1>a, <1>1, KeyFacts DEF Types
  <1>3. m.data # <<>> /\ m.type # "none"
    BY MsgTypes
  <1>4. /\ last'[c] = [msg |-> m, delta |-> 0, fmt |-> 0] /\ left'[c] = m.data
        /\ \A x \in Streams : x # c => last'[x] = last[x] /\ left'[x] = <<>>
    BY <1>a, <1>2 DEF OwnStep, Types
  <1>5. last'[c].msg = m
    BY <1>4
  <1>6. Fresh(c)' /\ Begun(c)' /\ \A x \in Streams : x # c => Begun(x)' = Begun(x)
    BY <1>3, <1>4, <1>5 DEF Fresh, Begun
  <1>7. \A x \in Streams : Begun(x)' => x \in {2, 6}
    BY <1>a, <1>1, <1>6 DEF Sound
  <1>8. ASSUME NEW E \in Readers, Agrees(E)
        PROVE  Agrees(E)'
    <2>1. E.got = sent /\ E.remote = chunkSize /\ Entangled(E)
      <3>1. ~Fresh(2)
        BY <1>2, KeyFacts DEF Fresh
      <3> QED
        BY <3>1, <1>1, <1>8 DEF Agrees, Promised
    <2>2. \A x \in Streams : Begun(x) => E.chunks[Key(x)].remain = 0
      <3>1. ASSUME NEW x \in Streams, Begun(x) PROVE E.chunks[Key(x)].remain = 0
        <4>1. Owes(E.chunks[Key(x)], x) /\ left[x] = <<>>
          BY <2>1, <3>1, <1>2 DEF Entangled
        <4> QED
          BY <4>1 DEF Owes, Fresh
      <3> QED
        BY <3>1
    <2>3. E.chunks[Key(c)].remain = 0
      <3>1. CASE Begun(c)
        BY <3>1, <2>2, <1>2
      <3>2. CASE ~Begun(c)
        <4>1. \A x \in Streams : Key(x) = Key(c) => ~Begun(x)
          BY <3>2, <1>1, <1>a, KeyFacts DEF Sound
        <4>2. Key(c) \in Keys
          BY <1>2, KeyFacts
        <4> QED
          BY <4>1, <4>2, <2>1 DEF Entangled
      <3> QED
        BY <3>1, <3>2
    <2>4. ASSUME NEW x \in Streams, Begun(x)' PROVE Owes(E.chunks[Key(x)], x)'
      <3>1. CASE x = c
        BY <3>1, <2>3, <1>6 DEF Owes
      <3>2. CASE x # c
        <4>1. E.chunks[Key(x)].remain = 0
          BY <3>2, <2>2, <2>4, <1>6
        <4> QED
          BY <4>1, <3>2, <1>4 DEF Owes, Fresh
      <3> QED
        BY <3>1, <3>2
    <2>5. ASSUME NEW k \in Keys, \A x \in Streams : Key(x) = k => ~Begun(x)'
          PROVE  E.chunks[k].remain = 0
      <3>1. \A x \in Streams : Key(x) = k => ~Begun(x)
        BY <2>5, <1>2, <1>6
      <3> QED
        BY <3>1, <2>1 DEF Entangled
    <2>6. ASSUME NEW x \in Streams PROVE left'[x] = <<>> \/ Fresh(x)'
      BY <1>4, <1>6
    <2>7. Entangled(E)'
      BY <1>1, <2>4, <2>5, <2>6 DEF Entangled
    <2>8. E.remote = chunkSize' \/ Fresh(2)'
      BY <2>1, <1>1, <1>6
    <2>9. Promised' = sent'
      BY <1>1 DEF Promised
    <2> QED
      BY <1>1, <2>1, <2>7, <2>8, <2>9 DEF Agrees
  <1>9. wire \o out.todo = wire' \o out'.todo /\ out'.todo = <<>>
    BY <1>1
  <1>10. Prefix(wire', wire \o out.todo)
    <2>1. wire \o out.todo = wire /\ wire' = wire
      BY <1>1, <1>a, ConcatEmptySeq
    <2> QED
      BY <2>1, <1>a DEF Prefix
  <1>11. Grows
    BY <1>1 DEF Grows
  <1> QED
    BY <1>1, <1>8, <1>9, <1>10, <1>11, HandStep

(* The rest of a message, when a chunk has taken its part.                 *)
Leaves(w, now) ==
    /\ SubSeq(w, now + 1, Len(w)) \in Seq(WordTokens)
    /\ Len(SubSeq(w, now + 1, Len(w))) < Len(w)
    /\ Len(w) = 1 => SubSeq(w, now + 1, Len(w)) = <<>>
    /\ SubSeq(w, 1, now) \in Seq(WordTokens) /\ SubSeq(w, 1, now) # <<>>

LEMMA RestFacts ==
  ASSUME NEW w \in Seq(WordTokens), w # <<>>, NEW size \in Nat \ {0},
         NEW now, now = Least(Len(w), size)
  PROVE  Leaves(w, now)
  <1>1. Takes(w, now)
    BY LastWords
  <1>2. PICK rest : rest = SubSeq(w, now + 1, Len(w))
    OBVIOUS
  <1>3. /\ now \in 1 .. Len(w) /\ rest \in Seq(WordTokens) /\ Len(rest) = Len(w) - now
        /\ SubSeq(w, 1, now) \in Seq(WordTokens) /\ SubSeq(w, 1, now) # <<>>
        /\ (rest = <<>> <=> now = Len(w))
    BY <1>1, <1>2, Zenon DEF Takes, SplitsAt
  <1>4. Len(w) \in Nat /\ Len(rest) < Len(w) /\ (Len(w) = 1 => rest = <<>>)
    BY <1>3
  <1> QED
    BY <1>2, <1>3, <1>4, Zenon DEF Leaves

(* A chunk of a message that is under way.                                 *)
Shortens(c, now) ==
    /\ left[c] # <<>> /\ now = Least(Len(left[c]), chunkSize)
    /\ left' = [left EXCEPT ![c] = SubSeq(left[c], now + 1, Len(left[c]))]
    /\ UNCHANGED <<writer, cut, chunkSize, begun, last, intact>>

LEMMA ShortensSound ==
  ASSUME Types, Sound, NEW c \in Streams, NEW now, Shortens(c, now)
  PROVE  Sound'
  <1>1. /\ left[c] \in Seq(WordTokens) /\ left[c] # <<>> /\ now = Least(Len(left[c]), chunkSize)
        /\ chunkSize \in Nat \ {0} /\ Begun(c)
        /\ UNCHANGED <<writer, cut, chunkSize, begun, last, intact>>
    BY DEF Types, Shortens
  <1>2. PICK rest : rest = SubSeq(left[c], now + 1, Len(left[c]))
    OBVIOUS
  <1>3. left'[c] = rest /\ \A x \in Streams : x # c => left'[x] = left[x]
    BY <1>2 DEF Types, Shortens
  <1>4. Leaves(left[c], now)
    BY <1>1, RestFacts
  <1>5. rest \in Seq(WordTokens) /\ Len(rest) < Len(left[c]) /\ (Len(left[c]) = 1 => rest = <<>>)
    BY <1>2, <1>4, Zenon DEF Leaves
  <1>6. last[c].msg \in Msgs /\ Len(last[c].msg.data) \in Nat /\ Len(left[c]) \in Nat
        /\ Len(rest) \in Nat
    BY <1>1, <1>5, BegunMsg, MsgTypes
  <1>7. Len(rest) < Len(last[c].msg.data)
    BY <1>5, <1>6 DEF Sound
  <1>8. ~Fresh(c)'
    BY <1>1, <1>3, <1>6, <1>7 DEF Fresh
  <1>9. \A x \in Streams : x # c => (Fresh(x)' <=> Fresh(x))
    BY <1>1, <1>3 DEF Fresh
  <1>10. \A x \in Streams : Begun(x)' <=> Begun(x)
    BY <1>1 DEF Begun
  <1>11. last[c].msg.type = "size" => rest = <<>>
    <2>1. ASSUME last[c].msg.type = "size" PROVE Len(left[c]) = 1
      <3>1. left[c] = last[c].msg.data
        BY <1>1, <2>1 DEF Sound, Fresh
      <3>2. last[c].msg.data = <<Word(NewSize)>>
        BY <2>1, <1>6, MsgTypes
      <3> QED
        BY <3>1, <3>2
    <2> QED
      BY <2>1, <1>5
  <1>12. \A x \in Streams : last'[x].msg.type = "size" => left'[x] = <<>> \/ Fresh(x)'
    BY <1>1, <1>3, <1>9, <1>11 DEF Sound
  <1>13. \A x \in Streams : Len(left'[x]) <= Len(last'[x].msg.data)
    BY <1>1, <1>3, <1>6, <1>7 DEF Sound
  <1>14. \A x \in Streams :
           left'[x] # <<>> /\ last'[x].fmt # 0 /\ last'[x].delta >= ExtMark => writer = "terse"
    BY <1>1, <1>3 DEF Sound
  <1>15. writer # "own" => \A x \in Streams : ~Fresh(x)'
    BY <1>8, <1>9 DEF Sound
  <1>16. writer = "own" => /\ \A x \in Streams : Begun(x)' => x \in {2, 6}
                           /\ Fresh(2)' => chunkSize = NewSize
    BY <1>8, <1>9, <1>10, KeyFacts DEF Sound
  <1>17. /\ \A x, y \in Streams : Begun(x)' /\ Begun(y)' /\ Key(x) = Key(y) => x = y
         /\ \A x \in Streams : Begun(x)' => last'[x].msg.type = IF x = 2 THEN "size" ELSE "media"
    BY <1>1, <1>10 DEF Sound
  <1> QED
    BY <1>1, <1>12, <1>13, <1>14, <1>15, <1>16, <1>17 DEF Sound

LEMMA ShortensTypes ==
  ASSUME Types, NEW c \in Streams, NEW now, Shortens(c, now),
         intact => wire' \in Seq(Tokens), sent' \in Seq(Msgs),
         out' \in [csid : {2, 6}, todo : Seq(Tokens)], out'.csid = out.csid,
         writer = "own" => c = out.csid, writer # "own" => out'.todo = <<>>
  PROVE  Types'
  <1>1. /\ left[c] \in Seq(WordTokens) /\ left[c] # <<>> /\ now = Least(Len(left[c]), chunkSize)
        /\ chunkSize \in Nat \ {0} /\ Begun(c)
        /\ UNCHANGED <<writer, cut, chunkSize, begun, last, intact>>
    BY DEF Types, Shortens
  <1>2. PICK rest : rest = SubSeq(left[c], now + 1, Len(left[c]))
    OBVIOUS
  <1>3. left' = [left EXCEPT ![c] = rest]
    BY <1>2 DEF Shortens
  <1>4. Leaves(left[c], now)
    BY <1>1, RestFacts
  <1>5. rest \in Seq(WordTokens)
    BY <1>2, <1>4, Zenon DEF Leaves
  <1>6. left' \in [Streams -> Seq(WordTokens)]
    BY <1>3, <1>5 DEF Types
  <1>7. left'[c] = rest /\ \A x \in Streams : x # c => left'[x] = left[x]
    BY <1>3 DEF Types
  <1>8. \A x \in Streams : Begun(x)' <=> Begun(x)
    BY <1>1 DEF Begun
  <1>9. \A x \in Streams : left'[x] # <<>> => left[x] # <<>>
    BY <1>1, <1>7
  <1>10. \A x \in Streams : left'[x] # <<>> => Begun(x)'
    BY <1>8, <1>9 DEF Types
  <1>11. (out.todo # <<>> => Begun(out.csid))'
    <2>1. out'.todo # <<>> => out'.csid = c
      BY DEF Types
    <2> QED
      BY <2>1, <1>1 DEF Begun
  <1>12. writer' = "own" => /\ \A x \in Streams : left'[x] # <<>> => x = out'.csid
                            /\ \A x \in Streams : last'[x].fmt = 0
    BY <1>1, <1>9 DEF Types
  <1> QED
    BY <1>1, <1>6, <1>10, <1>11, <1>12 DEF Types

LEMMA OwnChunkTypes ==
  ASSUME Types, OwnChunk
  PROVE  Types' /\ (Sound => Sound')
  <1>1. PICK c : c = out.csid
    OBVIOUS
  <1>2. PICK m : m = last[c].msg
    OBVIOUS
  <1>3. PICK now : now = Least(Len(left[c]), chunkSize)
    OBVIOUS
  <1>4. PICK fmt : fmt = IF left[c] = m.data THEN 0 ELSE 3
    OBVIOUS
  <1>5. PICK t : t = Chunk(fmt, c, m.ts, m, SubSeq(left[c], 1, now))
    OBVIOUS
  <1>6. /\ writer = "own" /\ out.todo = <<>> /\ left[c] # <<>>
        /\ wire' = Append(wire, Head(t)) /\ out' = [csid |-> c, todo |-> Tail(t)]
        /\ left' = [left EXCEPT ![c] = SubSeq(left[c], now + 1, Len(left[c]))]
        /\ UNCHANGED <<writer, cut, chunkSize, begun, last, rVars, sent, intact>>
    BY <1>1, <1>2, <1>3, <1>4, <1>5 DEF OwnChunk
  <1>7. c \in Streams /\ c \in {2, 6} /\ Begun(c) /\ left[c] \in Seq(WordTokens)
        /\ chunkSize \in Nat \ {0}
    BY <1>1, <1>6, KeyFacts DEF Types
  <1>8. Shortens(c, now)
    BY <1>3, <1>6 DEF Shortens
  <1>9. t \in Seq(Tokens) /\ Len(t) >= 2
    <2>1. Leaves(left[c], now)
      BY <1>3, <1>6, <1>7, RestFacts
    <2>2. PICK words : words = SubSeq(left[c], 1, now)
      OBVIOUS
    <2>3. words \in Seq(WordTokens) /\ words # <<>>
      BY <2>1, <2>2, Zenon DEF Leaves
    <2>4. m \in Msgs /\ m.ts \in Nat
      BY <1>2, <1>7, BegunMsg, MsgTypes
    <2>5. fmt \in 0 .. 3
      BY <1>4
    <2> QED
      BY <1>5, <1>7, <2>2, <2>3, <2>4, <2>5, ChunkType DEF ChunkHead
  <1>10. Head(t) \in Tokens /\ Tail(t) \in Seq(Tokens)
    BY <1>9
  <1>11. out' \in [csid : {2, 6}, todo : Seq(Tokens)] /\ out'.csid = out.csid
         /\ (intact => wire' \in Seq(Tokens)) /\ sent' \in Seq(Msgs)
    BY <1>1, <1>6, <1>7, <1>10 DEF Types
  <1>12. Types'
    BY <1>1, <1>6, <1>7, <1>8, <1>11, ShortensTypes
  <1>13. Sound => Sound'
    BY <1>7, <1>8, ShortensSound
  <1> QED
    BY <1>12, <1>13

LEMMA OtherContinueTypes ==
  ASSUME Types, NEW c \in Streams, OtherContinue(c)
  PROVE  Types' /\ (Sound => Sound') /\ Grows
  <1>1. PICK now : now = Least(Len(left[c]), chunkSize)
    OBVIOUS
  <1>2. PICK t : t = Chunk(3, c, Delta(last[c]), last[c].msg, SubSeq(left[c], 1, now))
    OBVIOUS
  <1>3. /\ writer # "own" /\ left[c] # <<>> /\ wire' = wire \o t
        /\ left' = [left EXCEPT ![c] = SubSeq(left[c], now + 1, Len(left[c]))]
        /\ sent' = (IF now = Len(left[c]) THEN Append(sent, last[c].msg) ELSE sent)
        /\ UNCHANGED <<writer, cut, chunkSize, begun, out, last, rVars, intact>>
    BY <1>1, <1>2, Zenon DEF OtherContinue, Delta
  <1>4. Begun(c) /\ left[c] \in Seq(WordTokens) /\ chunkSize \in Nat \ {0}
    BY <1>3 DEF Types
  <1>5. last[c].msg \in Msgs /\ last[c].msg.ts \in Nat /\ last[c].delta \in Nat
    BY <1>4, BegunMsg, MsgTypes
  <1>6. Shortens(c, now)
    BY <1>1, <1>3 DEF Shortens
  <1>7. t \in Seq(Tokens)
    <2>1. Leaves(left[c], now)
      BY <1>1, <1>3, <1>4, RestFacts
    <2>2. PICK words : words = SubSeq(left[c], 1, now)
      OBVIOUS
    <2>3. words \in Seq(WordTokens) /\ words # <<>>
      BY <2>1, <2>2, Zenon DEF Leaves
    <2>4. Delta(last[c]) \in Nat /\ 3 \in 0 .. 3
      BY <1>5 DEF Delta
    <2> QED
      BY <1>2, <1>5, <2>2, <2>3, <2>4, ChunkType DEF ChunkHead
  <1>8. Grows
    BY <1>3, <1>5 DEF Grows
  <1>9. sent' \in Seq(Msgs)
    BY <1>8, GrowsType DEF Types
  <1>10. intact => wire' \in Seq(Tokens)
    BY <1>3, <1>7 DEF Types
  <1>11. Types'
    <2>1. out' \in [csid : {2, 6}, todo : Seq(Tokens)] /\ out'.csid = out.csid
          /\ out'.todo = <<>>
      BY <1>3 DEF Types
    <2> QED
      BY <1>3, <1>6, <1>9, <1>10, <2>1, ShortensTypes
  <1>12. Sound => Sound'
    BY <1>6, ShortensSound
  <1> QED
    BY <1>8, <1>11, <1>12

LEMMA OwnTokenTypes ==
  ASSUME Types, OwnToken
  PROVE  Types' /\ (Sound => Sound') /\ Grows
  <1>1. /\ out.todo # <<>> /\ wire' = Append(wire, Head(out.todo))
        /\ out' = [csid |-> out.csid, todo |-> Tail(out.todo)]
        /\ sent' = (IF out'.todo = <<>> /\ left[out.csid] = <<>>
                    THEN Append(sent, last[out.csid].msg) ELSE sent)
        /\ UNCHANGED <<writer, cut, chunkSize, begun, last, left, rVars, intact>>
    BY Zenon DEF OwnToken
  <1>2. /\ out.todo \in Seq(Tokens) /\ out.csid \in {2, 6} /\ out.csid \in Streams
        /\ Begun(out.csid) /\ writer = "own"
    BY <1>1, KeyFacts DEF Types
  <1>3. Head(out.todo) \in Tokens /\ Tail(out.todo) \in Seq(Tokens)
    BY <1>1, <1>2
  <1>4. last[out.csid].msg \in Msgs
    BY <1>2, BegunMsg
  <1>5. Grows
    BY <1>1, <1>4 DEF Grows
  <1>6. sent' \in Seq(Msgs)
    BY <1>5, GrowsType DEF Types
  <1>7. out' \in [csid : {2, 6}, todo : Seq(Tokens)] /\ out'.csid = out.csid
        /\ (intact => wire' \in Seq(Tokens))
    BY <1>1, <1>2, <1>3 DEF Types
  <1>8. \A x \in Streams : Begun(x)' <=> Begun(x)
    BY <1>1 DEF Begun
  <1>9. (out.todo # <<>> => Begun(out.csid))'
    BY <1>1, <1>2, <1>7 DEF Begun
  <1>10. Types'
    BY <1>1, <1>2, <1>6, <1>7, <1>8, <1>9 DEF Types
  <1>11. Sound => Sound'
    BY <1>1 DEF Sound, Begun, Fresh
  <1> QED
    BY <1>5, <1>10, <1>11

LEMMA OwnTokenHands ==
  ASSUME Inv, intact, OwnToken
  PROVE  Parsed'
  <1>1. Types /\ wire \in Seq(Tokens)
    BY DEF Inv, Types
  <1>2. PICK t : t = out.todo
    OBVIOUS
  <1>3. /\ t # <<>> /\ wire' = Append(wire, Head(t)) /\ ~cut
        /\ out' = [csid |-> out.csid, todo |-> Tail(t)]
        /\ sent' = (IF out'.todo = <<>> /\ left[out.csid] = <<>>
                    THEN Append(sent, last[out.csid].msg) ELSE sent)
        /\ UNCHANGED <<writer, cut, chunkSize, begun, last, left, rVars, intact>>
    BY <1>2, Zenon DEF OwnToken
  <1>4. t \in Seq(Tokens)
    BY <1>1, <1>2 DEF Types
  <1>5. Grows
    BY <1>1, OwnTokenTypes
  <1>6. /\ wire \o t = wire' \o out'.todo /\ Prefix(wire', wire \o t)
        /\ (Len(wire') = Len(wire \o t) => out'.todo = <<>>)
    <2>1. /\ wire \o t \in Seq(Tokens) /\ Len(wire \o t) = Len(wire) + Len(t)
          /\ \A i \in 1 .. Len(wire) : (wire \o t)[i] = wire[i]
          /\ \A i \in 1 .. Len(t) : (wire \o t)[Len(wire) + i] = t[i]
      BY <1>1, <1>4
    <2>2. PICK h : h = Head(t)
      OBVIOUS
    <2>3. PICK s : s = Tail(t)
      OBVIOUS
    <2>4. PICK v : v = Append(wire, h)
      OBVIOUS
    <2>5. h \in Tokens /\ h = t[1] /\ s \in Seq(Tokens) /\ Len(s) = Len(t) - 1
          /\ Len(t) \in Nat \ {0} /\ \A i \in 1 .. Len(s) : s[i] = t[i + 1]
      BY <1>3, <1>4, <2>2, <2>3
    <2>6. v \in Seq(Tokens) /\ Len(v) = Len(wire) + 1 /\ Len(wire) \in Nat
          /\ \A i \in 1 .. Len(v) : v[i] = IF i <= Len(wire) THEN wire[i] ELSE h
      BY <1>1, <2>4, <2>5
    <2>7. \A i \in 1 .. Len(v) : (wire \o t)[i] = v[i]
      <3>1. ASSUME NEW i \in 1 .. Len(v) PROVE (wire \o t)[i] = v[i]
        <4>1. CASE i <= Len(wire)
          BY <4>1, <2>1, <2>6
        <4>2. CASE ~(i <= Len(wire))
          <5>1. i = Len(wire) + 1 /\ 1 \in 1 .. Len(t)
            BY <4>2, <2>5, <2>6
          <5> QED
            BY <5>1, <4>2, <2>1, <2>5, <2>6
        <4> QED
          BY <4>1, <4>2
      <3> QED
        BY <3>1
    <2>8. /\ v \o s \in Seq(Tokens) /\ Len(v \o s) = Len(wire) + Len(t)
          /\ \A i \in 1 .. Len(v) : (v \o s)[i] = v[i]
          /\ \A i \in 1 .. Len(s) : (v \o s)[Len(v) + i] = s[i]
      <3>1. Len(v) + Len(s) = Len(wire) + Len(t)
        BY <2>5, <2>6
      <3>2. v \in Seq(Tokens) /\ s \in Seq(Tokens)
        BY <2>5, <2>6
      <3> QED
        BY <3>1, <3>2, TokensItems
    <2>9. ASSUME NEW i \in 1 .. Len(wire) + Len(t) PROVE (wire \o t)[i] = (v \o s)[i]
      <3>1. CASE i <= Len(v)
        BY <3>1, <2>6, <2>7, <2>8
      <3>2. CASE ~(i <= Len(v))
        <4>1. i - Len(v) \in 1 .. Len(s) /\ i = Len(v) + (i - Len(v))
          BY <3>2, <2>5, <2>6
        <4>2. i - Len(wire) \in 1 .. Len(t) /\ i = Len(wire) + (i - Len(wire))
              /\ i - Len(wire) = (i - Len(v)) + 1
          BY <3>2, <2>5, <2>6
        <4>3. (v \o s)[i] = s[i - Len(v)]
          BY <4>1, <2>8
        <4>4. (wire \o t)[i] = t[i - Len(wire)]
          BY <4>2, <2>1
        <4>5. s[i - Len(v)] = t[(i - Len(v)) + 1]
          BY <4>1, <2>5
        <4> QED
          BY <4>2, <4>3, <4>4, <4>5
      <3> QED
        BY <3>1, <3>2
    <2>10. wire \o t = v \o s
      BY <2>1, <2>8, <2>9, SeqEqual
    <2>11. Prefix(v, wire \o t)
      BY <2>1, <2>5, <2>6, <2>7 DEF Prefix
    <2>12. Len(v) = Len(wire \o t) => s = <<>>
      BY <2>1, <2>5, <2>6, EmptySeq
    <2> QED
      BY <1>3, <2>2, <2>3, <2>4, <2>10, <2>11, <2>12
  <1>7. Promised' = Promised
    <2>1. PICK m : m = last[out.csid].msg
      OBVIOUS
    <2>2. Promised = IF left[out.csid] = <<>> THEN Append(sent, m) ELSE sent
      BY <1>2, <1>3, <2>1 DEF Promised
    <2>3. out'.csid = out.csid /\ last' = last /\ left' = left
      BY <1>3
    <2>4. Promised' = IF out'.todo # <<>> /\ left[out.csid] = <<>> THEN Append(sent', m) ELSE sent'
      BY <2>1, <2>3 DEF Promised
    <2> QED
      BY <1>3, <2>1, <2>2, <2>4
  <1>8. ASSUME NEW E \in Readers, Agrees(E) PROVE Agrees(E)'
    <2>1. Entangled(E)' /\ (Fresh(2)' <=> Fresh(2)) /\ chunkSize' = chunkSize /\ writer' = writer
      BY <1>3, <1>8 DEF Agrees, Entangled, Owes, Match, Begun, Fresh, Delta
    <2> QED
      BY <1>7, <1>8, <2>1 DEF Agrees
  <1> QED
    BY <1>2, <1>3, <1>5, <1>6, <1>8, HandStep

LEMMA OwnAckTypes ==
  ASSUME Types, OwnAck
  PROVE  Types' /\ (Sound => Sound') /\ Grows
  <1>1. PICK n : n = begun + 1
    OBVIOUS
  <1>2. PICK type : type = "ack"
    OBVIOUS
  <1>3. PICK m : m = Message(n, type, 0, 1)
    OBVIOUS
  <1>4. PICK t : t = Chunk(0, 2, 0, m, m.data)
    OBVIOUS
  <1>5. /\ writer = "own" /\ wire' \in {wire \o t, wire} /\ sent' = Append(sent, m)
        /\ intact' \in BOOLEAN /\ (intact' => intact) /\ begun' = n
        /\ UNCHANGED <<writer, cut, chunkSize, out, last, left, rVars>>
    <2>1. begun' = n
      BY <1>1 DEF OwnAck
    <2> QED
      BY <1>2, <1>3, <1>4, <2>1 DEF OwnAck, Types
  <1>6. n \in Nat \ {0}
    BY <1>1 DEF Types
  <1>7. m \in Msgs
    <2>1. type \in {"media", "size", "ack"} /\ 0 \in Nat /\ 1 \in Nat \ {0}
      BY <1>2
    <2>2. IsMessage(m, type, 0, 1)
      BY <1>3, <1>6, <2>1, MessageType
    <2> QED
      BY <2>2 DEF IsMessage
  <1>8. t \in Seq(Tokens)
    <2>1. m.data \in Seq(WordTokens) /\ m.data # <<>>
      BY <1>7, MsgTypes
    <2>2. 0 \in 0 .. 3 /\ 0 \in Nat /\ 2 \in Streams
      BY KeyFacts
    <2> QED
      BY <1>4, <1>7, <2>1, <2>2, ChunkType DEF ChunkHead
  <1>9. Grows
    BY <1>5, <1>7 DEF Grows
  <1>10. sent' \in Seq(Msgs)
    BY <1>9, GrowsType DEF Types
  <1>11. intact' => wire' \in Seq(Tokens)
    <2>1. intact' => wire \in Seq(Tokens)
      BY <1>5 DEF Types
    <2>2. wire \in Seq(Tokens) => wire \o t \in Seq(Tokens)
      BY <1>8, TokensConcat
    <2> QED
      BY <1>5, <2>1, <2>2
  <1>12. Types'
    BY <1>5, <1>6, <1>10, <1>11 DEF Types, Begun
  <1>13. Sound => Sound'
    BY <1>5 DEF Sound, Begun, Fresh
  <1> QED
    BY <1>9, <1>12, <1>13

LEMMA OtherBeginTypes ==
  ASSUME Types, NEW c \in Streams, NEW fmt \in 0 .. 3, NEW d \in Nat, NEW m \in Msgs,
         NEW now, OtherStep(c, fmt, d, m, now)
  PROVE  Types' /\ (Sound /\ intact' => Sound') /\ Grows
  <1>1. PICK t : t = Chunk(fmt, c, d, m, SubSeq(m.data, 1, now))
    OBVIOUS
  <1>2. PICK rest : rest = SubSeq(m.data, now + 1, Len(m.data))
    OBVIOUS
  <1>3. /\ writer # "own" /\ left[c] = <<>> /\ m.type = (IF c = 2 THEN "size" ELSE "media")
        /\ (fmt # 0 => Begun(c))
        /\ now = Least(Len(m.data), chunkSize)
        /\ wire' = wire \o t
        /\ left' = [left EXCEPT ![c] = rest]
        /\ sent' = (IF now = Len(m.data) THEN Append(sent, m) ELSE sent)
        /\ chunkSize' = (IF c = 2 THEN NewSize ELSE chunkSize)
        /\ begun' = begun + 1 /\ UNCHANGED <<writer, cut, out, rVars>>
    BY <1>1, <1>2, Zenon DEF OtherStep
  <1>4. /\ intact' \in BOOLEAN /\ (intact' => intact /\ ~Shared(c))
        /\ (intact' /\ fmt # 0 /\ d >= ExtMark =>
                IF writer = "terse" THEN fmt # 3 ELSE now = Len(m.data))
    BY DEF OtherStep, Types
  <1>5. PICK h : h = [msg |-> m, delta |-> d, fmt |-> IF fmt = 3 THEN last[c].fmt ELSE fmt]
    OBVIOUS
  <1>6. last' = [last EXCEPT ![c] = h]
    BY <1>5 DEF OtherStep
  <1>7. h \in [msg : Msgs \cup {NoMsg}, delta : Nat, fmt : 0 .. 2] /\ h.msg = m
        /\ h.delta = d /\ h.fmt = IF fmt = 3 THEN last[c].fmt ELSE fmt
    BY <1>5 DEF Types
  <1>8. /\ m.data \in Seq(WordTokens) /\ m.data # <<>> /\ m.type # "none"
        /\ Len(m.data) \in Nat \ {0} /\ chunkSize \in Nat \ {0}
        /\ (m.type = "size" => m.data = <<Word(NewSize)>>)
    BY MsgTypes DEF Types
  <1>9. Takes(m.data, now) /\ Leaves(m.data, now)
    BY <1>3, <1>8, LastWords, RestFacts
  <1>10. rest \in Seq(WordTokens) /\ Len(rest) < Len(m.data) /\ (Len(m.data) = 1 => rest = <<>>)
         /\ (rest = <<>> <=> now = Len(m.data)) /\ Len(rest) \in Nat
    <2>1. rest \in Seq(WordTokens) /\ Len(rest) < Len(m.data) /\ (Len(m.data) = 1 => rest = <<>>)
          /\ (rest = <<>> <=> now = Len(m.data))
      BY <1>2, <1>9, Zenon DEF Takes, Leaves
    <2> QED
      BY <2>1
  <1>11. t \in Seq(Tokens)
    <2>1. PICK words : words = SubSeq(m.data, 1, now)
      OBVIOUS
    <2>2. words \in Seq(WordTokens) /\ words # <<>>
      BY <1>9, <2>1, Zenon DEF Leaves
    <2> QED
      BY <1>1, <2>1, <2>2, ChunkType DEF ChunkHead
  <1>12. Grows
    BY <1>3 DEF Grows
  <1>13. sent' \in Seq(Msgs)
    BY <1>12, GrowsType DEF Types
  <1>14. intact' => wire' \in Seq(Tokens)
    BY <1>3, <1>4, <1>11 DEF Types
  <1>15. last' \in [Streams -> [msg : Msgs \cup {NoMsg}, delta : Nat, fmt : 0 .. 2]]
         /\ left' \in [Streams -> Seq(WordTokens)]
    BY <1>3, <1>6, <1>7, <1>10 DEF Types
  <1>16. last'[c] = h /\ left'[c] = rest
         /\ \A x \in Streams : x # c => last'[x] = last[x] /\ left'[x] = left[x]
    BY <1>3, <1>6 DEF Types
  <1>17. Begun(c)' /\ \A x \in Streams : x # c => (Begun(x)' <=> Begun(x))
    BY <1>7, <1>8, <1>16 DEF Begun
  <1>18. \A x \in Streams : left'[x] # <<>> => Begun(x)'
    BY <1>16, <1>17 DEF Types
  <1>19. NewSize \in Nat \ {0}
    BY ChunksAssumption DEF ChunksAssumption
  <1>20. Types'
    BY <1>3, <1>4, <1>13, <1>14, <1>15, <1>18, <1>19 DEF Types
  <1>21. ASSUME Sound, intact' PROVE Sound'
    <2>1. \A x \in Streams : Begun(x) /\ Key(x) = Key(c) => x = c
      BY <1>4, <1>21 DEF Shared, Begun
    <2>2. \A x, y \in Streams : Begun(x)' /\ Begun(y)' /\ Key(x) = Key(y) => x = y
      <3>1. ASSUME NEW x \in Streams, NEW y \in Streams, Begun(x)', Begun(y)', Key(x) = Key(y)
            PROVE  x = y
        <4>1. CASE x # c /\ y # c
          BY <3>1, <4>1, <1>17, <1>21 DEF Sound
        <4>2. CASE x = c \/ y = c
          BY <3>1, <4>2, <1>17, <2>1
        <4> QED
          BY <4>1, <4>2
      <3> QED
        BY <3>1
    <2>3. \A x \in Streams : Begun(x)' => last'[x].msg.type = IF x = 2 THEN "size" ELSE "media"
      BY <1>3, <1>7, <1>16, <1>17, <1>21 DEF Sound
    <2>4. \A x \in Streams :
            left'[x] # <<>> /\ last'[x].fmt # 0 /\ last'[x].delta >= ExtMark => writer = "terse"
      <3>1. h.fmt # 0 => fmt # 0
        BY <1>7
      <3>2. h.fmt # 0 /\ h.delta >= ExtMark /\ rest # <<>> => writer = "terse"
        BY <3>1, <1>4, <1>7, <1>10, <1>21
      <3> QED
        BY <3>2, <1>16, <1>21 DEF Sound
    <2>5. ~Fresh(c)'
      BY <1>7, <1>8, <1>10, <1>16 DEF Fresh
    <2>6. \A x \in Streams : ~Fresh(x)'
      BY <1>3, <1>16, <1>21, <2>5 DEF Sound, Fresh
    <2>7. m.type = "size" => rest = <<>>
      <3>1. Len(<<Word(NewSize)>>) = 1
        OBVIOUS
      <3> QED
        BY <3>1, <1>8, <1>10, Zenon
    <2>8. \A x \in Streams : last'[x].msg.type = "size" => left'[x] = <<>>
      BY <1>3, <1>7, <1>16, <1>21, <2>7 DEF Sound
    <2>9. \A x \in Streams : Len(left'[x]) <= Len(last'[x].msg.data)
      BY <1>7, <1>8, <1>10, <1>16, <1>21 DEF Sound
    <2> QED
      BY <1>3, <2>2, <2>3, <2>4, <2>6, <2>8, <2>9 DEF Sound
  <1> QED
    BY <1>12, <1>20, <1>21

-----------------------------------------------------------------------------
(* The invariant holds at first: nothing has been written.                 *)
LEMMA InitInv ==
  ASSUME Init
  PROVE  Inv
  <1>1. /\ writer \in {"own", "other", "terse"} /\ wire = <<>> /\ cut = FALSE
        /\ chunkSize = FirstSize /\ begun = 0 /\ out = [csid |-> 2, todo |-> <<>>]
        /\ last = [c \in Streams |-> NoHeader] /\ left = [c \in Streams |-> <<>>]
        /\ remote = FirstSize /\ chunks = [c \in Keys |-> NoChunk]
        /\ sent = <<>> /\ received = <<>> /\ intact = TRUE
    BY Zenon DEF Init, Keys
  <1>2. FirstSize \in Nat \ {0}
    BY ChunksAssumption DEF ChunksAssumption
  <1>3. \A c \in Streams : last[c] = NoHeader /\ left[c] = <<>> /\ ~Begun(c) /\ ~Fresh(c)
    BY <1>1 DEF Begun, Fresh, NoHeader
  <1>4. NoHeader \in [msg : Msgs \cup {NoMsg}, delta : Nat, fmt : 0 .. 2] /\ NoHeader.fmt = 0
        /\ NoHeader.msg.type = "none" /\ NoHeader.msg.data = <<>>
    BY DEF NoHeader, NoMsg
  <1>5. Types
    <2>1. last \in [Streams -> [msg : Msgs \cup {NoMsg}, delta : Nat, fmt : 0 .. 2]]
          /\ left \in [Streams -> Seq(WordTokens)]
      BY <1>1, <1>4
    <2>2. wire \in Seq(Tokens) /\ sent \in Seq(Msgs) /\ out.todo = <<>>
          /\ out \in [csid : {2, 6}, todo : Seq(Tokens)]
      BY <1>1
    <2> QED
      BY <1>1, <1>2, <1>3, <1>4, <2>1, <2>2 DEF Types
  <1>6. Sound
    <2>1. \A c \in Streams : last[c].fmt = 0 /\ last[c].msg.type = "none"
      BY <1>3, <1>4
    <2>2. \A c \in Streams : Len(left[c]) <= Len(last[c].msg.data)
      BY <1>3, <1>4
    <2> QED
      BY <1>3, <2>1, <2>2, KeyFacts DEF Sound
  <1>7. Reader \in Readers
    <2>1. NoChunk \in Entries
      BY DEF NoChunk, Entries, Fields, Kinds
    <2>2. chunks \in [Keys -> Entries]
      BY <1>1, <2>1
    <2>3. received \in Seq(Gots)
      BY <1>1
    <2> QED
      BY <1>1, <2>2, <2>3 DEF Reader, Readers, Sizes
  <1>8. Agrees(Reader)
    <2>1. Reader.got = <<>> /\ Reader.remote = FirstSize /\ Reader.chunks = chunks
      BY <1>1 DEF Reader
    <2>2. \A k \in Keys : chunks[k].remain = 0
      BY <1>1 DEF NoChunk
    <2>3. Entangled(Reader)
      BY <1>3, <2>1, <2>2 DEF Entangled
    <2>4. Promised = <<>>
      BY <1>1 DEF Promised
    <2> QED
      BY <1>1, <2>1, <2>3, <2>4 DEF Agrees
  <1>9. Parsed
    <2>1. PICK q : q = [tok |-> <<>>, st |-> Reader, rest |-> <<>>]
      OBVIOUS
    <2>2. q \in Descs /\ q.st = Reader /\ q.rest = <<>>
      BY <1>7, <2>1 DEF Descs
    <2>3. PICK Q : Q = <<q>>
      OBVIOUS
    <2>4. Q \in Seq(Descs) /\ Len(Q) = 1 /\ Q[1] = q
      BY <2>2, <2>3
    <2>5. PICK r : r = 1
      OBVIOUS
    <2>6. Parse(Q, r, Reader)
      BY <2>2, <2>4, <2>5 DEF Parse
    <2>7. OnWire(Q[r].rest)
      <3>1. wire \o out.todo = <<>>
        BY <1>1, ConcatEmptySeq
      <3> QED
        BY <1>1, <2>2, <2>4, <2>5, <3>1 DEF OnWire, Prefix
    <2>8. Done(Q, r)
      BY <1>1, <2>2, <2>4, <2>5 DEF Done, Prefix, Reader
    <2>9. Agrees(Q[Len(Q)].st)
      BY <1>8, <2>2, <2>4
    <2> QED
      BY <2>6, <2>7, <2>8, <2>9, Zenon DEF Parsed
  <1> QED
    BY <1>5, <1>6, <1>9 DEF Inv

(* The steps of the writer in one place.                                   *)
LEMMA WriterInv ==
  ASSUME Inv, \/ OwnWrite \/ OwnChunk \/ OwnToken \/ OwnAck \/ OtherWrite
              \/ \E c \in Streams : OtherContinue(c)
  PROVE  /\ Inv' /\ Grows /\ UNCHANGED <<cut, rVars>>
         /\ intact' \in BOOLEAN /\ (intact' => intact)
  <1>1. Types /\ (intact => Sound /\ Parsed) /\ intact \in BOOLEAN
    BY DEF Inv, Types
  <1>2. CASE OwnWrite
    <2>1. PICK c \in {2, 6} : \E m \in Msgs : OwnStep(c, m)
      BY <1>1, <1>2, OwnSteps
    <2>2. PICK m \in Msgs : OwnStep(c, m)
      BY <2>1
    <2>3. Types' /\ (Sound => Sound')
      BY <1>1, <2>2, OwnBeginTypes
    <2>4. intact => Parsed'
      BY <2>2, OwnBeginHands
    <2>5. UNCHANGED <<cut, rVars, sent, intact>>
      BY <1>2 DEF OwnWrite
    <2> QED
      BY <1>1, <2>3, <2>4, <2>5 DEF Inv, Grows
  <1>3. CASE OwnChunk
    <2>1. Types' /\ (Sound => Sound')
      BY <1>1, <1>3, OwnChunkTypes
    <2>2. UNCHANGED <<cut, rVars, sent, intact>> /\ ~cut
      BY <1>3 DEF OwnChunk
    <2>3. Grows
      BY <2>2 DEF Grows
    <2>4. ASSUME intact PROVE Parsed'
      <3>1. \A E \in Readers : Agrees(E) => \E t \in Seq(Tokens) : Writes(E, t)
        BY <1>1, <1>3, <2>4, OwnChunkWrites
      <3> QED
        BY <2>2, <2>3, <2>4, <3>1, WriteStep
    <2> QED
      BY <1>1, <2>1, <2>2, <2>3, <2>4 DEF Inv
  <1>4. CASE OwnToken
    <2>1. Types' /\ (Sound => Sound') /\ Grows
      BY <1>1, <1>4, OwnTokenTypes
    <2>2. UNCHANGED <<cut, rVars, intact>>
      BY <1>4 DEF OwnToken
    <2>3. intact => Parsed'
      BY <1>4, OwnTokenHands
    <2> QED
      BY <1>1, <2>1, <2>2, <2>3 DEF Inv
  <1>5. CASE OwnAck
    <2>1. Types' /\ (Sound => Sound') /\ Grows
      BY <1>1, <1>5, OwnAckTypes
    <2>2. UNCHANGED <<cut, rVars>> /\ ~cut /\ (intact' => intact)
      BY <1>5 DEF OwnAck, CanBegin
    <2>3. ASSUME intact' PROVE Parsed'
      <3>1. \A E \in Readers : Agrees(E) => \E t \in Seq(Tokens) : Writes(E, t)
        BY <1>1, <1>5, <2>2, <2>3, OwnAckWrites
      <3> QED
        BY <2>1, <2>2, <2>3, <3>1, WriteStep
    <2>4. intact' \in BOOLEAN
      BY <2>1 DEF Types
    <2> QED
      BY <1>1, <2>1, <2>2, <2>3, <2>4 DEF Inv
  <1>6. CASE OtherWrite
    <2>1. PICK c \in Streams, fmt \in 0 .. 3, d \in Nat, m \in Msgs :
                   \E now : OtherStep(c, fmt, d, m, now)
      BY <1>1, <1>6, OtherSteps, Zenon
    <2>2. PICK now : OtherStep(c, fmt, d, m, now)
      BY <2>1
    <2>3. Types' /\ (Sound /\ intact' => Sound') /\ Grows
      BY <1>1, <2>2, OtherBeginTypes
    <2>4. UNCHANGED <<cut, rVars>> /\ ~cut /\ (intact' => intact)
      BY <2>2 DEF OtherStep
    <2>5. ASSUME intact' PROVE Parsed'
      <3>1. \A E \in Readers : Agrees(E) => \E t \in Seq(Tokens) : Writes(E, t)
        BY <1>1, <2>2, <2>4, <2>5, OtherBeginWrites
      <3> QED
        BY <2>3, <2>4, <2>5, <3>1, WriteStep
    <2>6. intact' \in BOOLEAN
      BY <2>3 DEF Types
    <2> QED
      BY <1>1, <2>3, <2>4, <2>5, <2>6 DEF Inv
  <1>7. ASSUME NEW c \in Streams, OtherContinue(c)
        PROVE  /\ Inv' /\ Grows /\ UNCHANGED <<cut, rVars>>
               /\ intact' \in BOOLEAN /\ (intact' => intact)
    <2>1. Types' /\ (Sound => Sound') /\ Grows
      BY <1>1, <1>7, OtherContinueTypes
    <2>2. UNCHANGED <<cut, rVars, intact>> /\ ~cut
      BY <1>7 DEF OtherContinue
    <2>3. ASSUME intact PROVE Parsed'
      <3>1. \A E \in Readers : Agrees(E) => \E t \in Seq(Tokens) : Writes(E, t)
        BY <1>1, <1>7, <2>3, OtherContinueWrites
      <3> QED
        BY <2>1, <2>2, <2>3, <3>1, WriteStep
    <2> QED
      BY <1>1, <2>1, <2>2, <2>3 DEF Inv
  <1> QED
    BY <1>2, <1>3, <1>4, <1>5, <1>6, <1>7

(* The reader, and the loss of the connection.                             *)
LEMMA ReaderInv ==
  ASSUME Inv, ReadChunk
  PROVE  Inv'
  <1>1. UNCHANGED <<cut, wVars, sent, intact>>
    BY DEF ReadChunk
  <1>2. intact => Parsed' /\ Sound'
    BY <1>1, ReadStep, SoundFrame DEF Inv
  <1>3. intact => wire' \in Seq(Tokens)
    <2>1. ASSUME intact PROVE wire' \in Seq(Tokens)
      <3>1. wire \in Seq(Tokens)
        BY <2>1 DEF Inv, Types
      <3>2. PICK Q : \E r : /\ Parse(Q, r, Reader) /\ OnWire(Q[r].rest) /\ Done(Q, r)
                            /\ (~cut => Agrees(Q[Len(Q)].st))
        BY <2>1, Zenon DEF Inv, Parsed
      <3>3. PICK r : Parse(Q, r, Reader) /\ OnWire(Q[r].rest)
        BY <3>2
      <3>4. \/ UNCHANGED <<wire, remote, chunks, received>>
            \/ /\ r # Len(Q) /\ Len(Q[r + 1].tok) <= Len(wire)
               /\ wire' = SubSeq(wire, Len(Q[r + 1].tok) + 1, Len(wire))
               /\ Reader' = After(Reader, Q[r + 1].tok)
        BY <3>1, <3>3, ReadEffect DEF OnWire
      <3>5. r # Len(Q) => Q[r + 1].tok \in Seq(Tokens)
        <4>1. Q \in Seq(Descs) /\ r \in 1 .. Len(Q)
          BY <3>3 DEF Parse
        <4>2. r # Len(Q) => Q[r + 1] \in Descs
          BY <4>1
        <4> QED
          BY <4>2 DEF Descs
      <3>6. ASSUME NEW t \in Seq(Tokens) PROVE SubSeq(wire, Len(t) + 1, Len(wire)) \in Seq(Tokens)
        BY <3>1
      <3> QED
        BY <3>1, <3>4, <3>5, <3>6
    <2> QED
      BY <2>1
  <1>4. Types'
    BY <1>1, <1>3 DEF Inv, Types, Begun, wVars
  <1> QED
    BY <1>1, <1>2, <1>4 DEF Inv

LEMMA CutInv ==
  ASSUME Inv, Cut
  PROVE  Inv'
  <1>1. UNCHANGED <<wVars, rVars, sent, intact>> /\ cut' = TRUE /\ intact
        /\ wire' = SubSeq(wire, 1, Len(wire) - 1)
    BY DEF Cut
  <1>2. wire \in Seq(Tokens)
    BY <1>1 DEF Inv, Types
  <1>3. wire' \in Seq(Tokens)
    BY <1>1, <1>2
  <1>4. Types'
    BY <1>1, <1>3 DEF Inv, Types, Begun, wVars
  <1>5. Sound'
    BY <1>1, SoundFrame DEF Inv
  <1> QED
    BY <1>4, <1>5, CutStep DEF Inv

LEMMA NextInv ==
  ASSUME Inv, [Next]_vars
  PROVE  Inv'
  <1>1. CASE UNCHANGED vars
    <2>1. UNCHANGED <<wire, cut, wVars, rVars, sent, intact>>
      BY <1>1 DEF vars
    <2>2. Types' /\ (Sound => Sound')
      BY <2>1, SoundFrame DEF Inv, Types, Begun, wVars
    <2>3. ASSUME intact PROVE Parsed'
      <3>1. PICK Q : \E r : /\ Parse(Q, r, Reader) /\ OnWire(Q[r].rest) /\ Done(Q, r)
                            /\ (~cut => Agrees(Q[Len(Q)].st))
        BY <2>3, Zenon DEF Inv, Parsed
      <3>2. PICK r : /\ Parse(Q, r, Reader) /\ OnWire(Q[r].rest) /\ Done(Q, r)
                     /\ (~cut => Agrees(Q[Len(Q)].st))
        BY <3>1
      <3>3. Reader' = Reader
        BY <2>1 DEF Reader, rVars
      <3>4. Parse(Q, r, Reader')
        BY <3>2, <3>3
      <3>5. OnWire(Q[r].rest)' /\ Done(Q, r)'
        BY <2>1, <3>2 DEF OnWire, Done, Prefix, wVars
      <3>6. ~cut' => Agrees(Q[Len(Q)].st)'
        BY <2>1, <3>2, AgreesFrame
      <3> QED
        BY <3>4, <3>5, <3>6, Zenon DEF Parsed
    <2> QED
      BY <2>1, <2>2, <2>3 DEF Inv
  <1>2. CASE ReadChunk
    BY <1>2, ReaderInv
  <1>3. CASE Cut
    BY <1>3, CutInv
  <1>4. CASE \/ OwnWrite \/ OwnChunk \/ OwnToken \/ OwnAck \/ OtherWrite
             \/ \E c \in Streams : OtherContinue(c)
    BY <1>4, WriterInv
  <1> QED
    BY <1>1, <1>2, <1>3, <1>4 DEF Next

-----------------------------------------------------------------------------
(* The steps are those of the channel.                                     *)
LEMMA GrowsChannel ==
  ASSUME sent \in Seq(Msgs), Grows, received' = received,
         intact \in BOOLEAN, intact' \in BOOLEAN, intact' => intact
  PROVE  [Channel!Next]_<<sent, received, intact>>
  <1>1. CASE sent' = sent
    BY <1>1 DEF Channel!Next, Channel!Spoil
  <1>2. ASSUME NEW m \in Msgs, sent' = Append(sent, m)
        PROVE  Channel!Send
    <2>1. Len(sent') = Len(sent) + 1 /\ SubSeq(sent', 1, Len(sent)) = sent
      BY <1>2
    <2> QED
      BY <2>1 DEF Channel!Send
  <1> QED
    BY <1>1, <1>2 DEF Grows, Channel!Next

LEMMA NextChannel ==
  ASSUME Inv, [Next]_vars
  PROVE  [Channel!Next]_<<sent, received, intact>>
  <1>1. sent \in Seq(Msgs) /\ intact \in BOOLEAN
    BY DEF Inv, Types
  <1>2. CASE UNCHANGED vars
    BY <1>2 DEF vars, rVars
  <1>3. CASE ReadChunk
    <2>1. UNCHANGED <<sent, intact>>
      BY <1>3 DEF ReadChunk
    <2>2. CASE intact
      <3>1. \/ received' = received
            \/ /\ Len(received) < Len(sent)
               /\ received' = Append(received, sent[Len(received) + 1])
        BY <1>3, <2>2, ReadStep
      <3> QED
        BY <2>1, <2>2, <3>1 DEF Channel!Next, Channel!Deliver
    <2>3. CASE ~intact
      BY <2>1, <2>3 DEF Channel!Next, Channel!Garbage
    <2> QED
      BY <2>2, <2>3
  <1>4. CASE Cut
    BY <1>4 DEF Cut, rVars
  <1>5. CASE \/ OwnWrite \/ OwnChunk \/ OwnToken \/ OwnAck \/ OtherWrite
             \/ \E c \in Streams : OtherContinue(c)
    <2>1. Grows /\ UNCHANGED <<cut, rVars>> /\ intact' \in BOOLEAN /\ (intact' => intact)
      BY <1>5, WriterInv
    <2> QED
      BY <1>1, <2>1, GrowsChannel DEF rVars
  <1> QED
    BY <1>2, <1>3, <1>4, <1>5 DEF Next

(* Conn.Read returns the messages the other end has written, complete,     *)
(* unchanged and in order, and nothing else, while the stream is intact.   *)
THEOREM ChunksImplement == Spec => Implements
  <1>1. Init => Inv
    BY InitInv
  <1>2. Inv /\ [Next]_vars => Inv'
    BY NextInv
  <1>3. Inv /\ [Next]_vars => [Channel!Next]_<<sent, received, intact>>
    BY NextChannel
  <1>4. Init => Channel!Init
    BY DEF Init, Channel!Init
  <1> QED
    BY <1>1, <1>2, <1>3, <1>4, PTL DEF Spec, Implements, Channel!Spec, Channel!vars

-----------------------------------------------------------------------------
(* The type invariant.  The messages that are begun and not yet sent: no   *)
(* more messages are sent or under way than have been begun.               *)
Pending == {c \in Streams : left[c] # <<>> \/ (out.todo # <<>> /\ c = out.csid)}
Counted ==
    /\ begun \in 0 .. MaxMessages /\ status \in {"ok", "error"} /\ chunkSize \in Sizes
    /\ IsFiniteSet(Pending) /\ Len(sent) + Cardinality(Pending) <= begun

(* A step begins a message on c, ends the one on c, sends one at once, or  *)
(* does nothing of that.                                                   *)
Counts(c) ==
    \/ Pending' \subseteq Pending \cup {c} /\ sent' = sent /\ begun' = begun + 1
    \/ /\ c \in Pending /\ Pending' \subseteq Pending \ {c}
       /\ Len(sent') = Len(sent) + 1 /\ begun' = begun
    \/ Pending' \subseteq Pending /\ Len(sent') = Len(sent) + 1 /\ begun' = begun + 1
    \/ Pending' \subseteq Pending /\ sent' = sent /\ begun' = begun

LEMMA CountStep ==
  ASSUME sent \in Seq(Msgs), Counted, NEW c, Counts(c), begun' # begun => begun < MaxMessages,
         status' \in {"ok", "error"}, chunkSize' \in Sizes
  PROVE  Counted'
  <1>1. /\ begun \in 0 .. MaxMessages /\ IsFiniteSet(Pending) /\ Len(sent) \in Nat
        /\ Len(sent) + Cardinality(Pending) <= begun
    BY DEF Counted
  <1>2. PICK P : P = Pending
    OBVIOUS
  <1>3. PICK T : T = Pending'
    OBVIOUS
  <1>4. IsFiniteSet(P) /\ Cardinality(P) \in Nat
    BY <1>1, <1>2, FS_CardinalityType
  <1>5. MaxMessages \in Nat
    BY ChunksAssumption DEF ChunksAssumption
  <1>6. begun' \in 0 .. MaxMessages
    BY <1>1, <1>5 DEF Counts
  <1>7. ASSUME NEW S, IsFiniteSet(S), T \subseteq S
        PROVE  IsFiniteSet(T) /\ Cardinality(T) <= Cardinality(S) /\ Cardinality(T) \in Nat
               /\ Cardinality(S) \in Nat
    BY <1>7, FS_Subset, FS_CardinalityType
  <1>8. IsFiniteSet(T) /\ Len(sent') + Cardinality(T) <= begun'
    <2>1. CASE T \subseteq P \cup {c} /\ sent' = sent /\ begun' = begun + 1
      <3>1. IsFiniteSet(P \cup {c})
            /\ Cardinality(P \cup {c}) = IF c \in P THEN Cardinality(P) ELSE Cardinality(P) + 1
        BY <1>4, FS_AddElement
      <3>2. Cardinality(P \cup {c}) <= Cardinality(P) + 1
        BY <1>4, <3>1
      <3>3. IsFiniteSet(T) /\ Cardinality(T) <= Cardinality(P \cup {c}) /\ Cardinality(T) \in Nat
            /\ Cardinality(P \cup {c}) \in Nat
        BY <1>7, <2>1, <3>1
      <3> QED
        BY <1>1, <1>2, <1>4, <2>1, <3>2, <3>3
    <2>2. CASE /\ c \in P /\ T \subseteq P \ {c} /\ Len(sent') = Len(sent) + 1
               /\ begun' = begun
      <3>1. IsFiniteSet(P \ {c}) /\ Cardinality(P \ {c}) = Cardinality(P) - 1
        BY <1>4, <2>2, FS_RemoveElement
      <3>2. IsFiniteSet(T) /\ Cardinality(T) <= Cardinality(P \ {c}) /\ Cardinality(T) \in Nat
        BY <1>7, <2>2, <3>1
      <3> QED
        BY <1>1, <1>2, <1>4, <2>2, <3>1, <3>2
    <2>3. CASE T \subseteq P /\ \/ Len(sent') = Len(sent) + 1 /\ begun' = begun + 1
                                \/ sent' = sent /\ begun' = begun
      <3>1. IsFiniteSet(T) /\ Cardinality(T) <= Cardinality(P) /\ Cardinality(T) \in Nat
        BY <1>4, <1>7, <2>3
      <3> QED
        BY <1>1, <1>2, <1>4, <2>3, <3>1
    <2> QED
      BY <1>2, <1>3, <2>1, <2>2, <2>3, Zenon DEF Counts
  <1> QED
    BY <1>3, <1>6, <1>8 DEF Counted

LEMMA InitCounted ==
  ASSUME Init
  PROVE  Counted
  <1>1. Pending = {}
    BY DEF Init, Pending
  <1>2. IsFiniteSet(Pending) /\ Cardinality(Pending) = 0
    BY <1>1, FS_EmptySet
  <1>3. sent = <<>> /\ begun = 0 /\ status = "ok" /\ chunkSize = FirstSize
    BY DEF Init
  <1>4. MaxMessages \in Nat
    BY ChunksAssumption DEF ChunksAssumption
  <1> QED
    BY <1>2, <1>3, <1>4 DEF Counted, Sizes

LEMMA NextCounted ==
  ASSUME Inv, Counted, [Next]_vars
  PROVE  Counted'
  <1>1. Types /\ sent \in Seq(Msgs) /\ status \in {"ok", "error"} /\ chunkSize \in Sizes
    BY DEF Inv, Types, Counted
  <1>2. CASE UNCHANGED vars \/ Cut \/ ReadChunk
    <2>1. UNCHANGED <<chunkSize, begun, out, left, sent>>
      BY <1>2 DEF vars, wVars, Cut, ReadChunk
    <2>2. status' \in {"ok", "error"}
      BY <1>1, <1>2 DEF vars, rVars, Cut, ReadChunk, ReadFails
    <2>3. Pending' = Pending
      BY <2>1 DEF Pending
    <2>4. Counts(2)
      BY <2>1, <2>3 DEF Counts
    <2> QED
      BY <1>1, <2>1, <2>2, <2>4, CountStep
  <1>3. CASE OwnWrite
    <2>1. PICK c \in {2, 6} : \E m \in Msgs : OwnStep(c, m)
      BY <1>1, <1>3, OwnSteps
    <2>2. PICK m \in Msgs : OwnStep(c, m)
      BY <2>1
    <2>3. /\ chunkSize' = (IF c = 2 THEN NewSize ELSE chunkSize)
          /\ out' = [csid |-> c, todo |-> <<>>] /\ begun' = begun + 1
          /\ left' = [left EXCEPT ![c] = m.data] /\ UNCHANGED <<rVars, sent>>
      BY <2>2, Zenon DEF OwnStep
    <2>4. Pending' \subseteq Pending \cup {c}
      BY <1>1, <2>3 DEF Pending, Types
    <2>5. begun < MaxMessages
      BY <1>3 DEF OwnWrite, CanBegin
    <2>6. Counts(c) /\ status' = status /\ chunkSize' \in Sizes
      BY <1>1, <2>3, <2>4 DEF Counts, Sizes, rVars
    <2> QED
      BY <1>1, <2>5, <2>6, CountStep
  <1>4. CASE OwnChunk
    <2>1. /\ out.todo = <<>> /\ left[out.csid] # <<>> /\ out'.csid = out.csid
          /\ \A x \in Streams : x # out.csid => left'[x] = left[x]
          /\ UNCHANGED <<chunkSize, begun, rVars, sent>>
      BY <1>1, <1>4 DEF OwnChunk, Types
    <2>2. Pending' \subseteq Pending
      BY <2>1 DEF Pending
    <2>3. Counts(2) /\ status' = status
      BY <2>1, <2>2 DEF Counts, rVars
    <2> QED
      BY <1>1, <2>1, <2>3, CountStep
  <1>5. CASE OwnToken
    <2>1. PICK c : c = out.csid
      OBVIOUS
    <2>2. /\ out.todo # <<>> /\ out'.csid = c
          /\ sent' = (IF out'.todo = <<>> /\ left[c] = <<>> THEN Append(sent, last[c].msg) ELSE sent)
          /\ UNCHANGED <<chunkSize, begun, last, left, rVars>>
      BY <1>5, <2>1 DEF OwnToken
    <2>3. c \in Streams /\ Begun(c)
      BY <1>1, <2>1, <2>2, KeyFacts DEF Types
    <2>4. last[c].msg \in Msgs
      BY <1>1, <2>3, BegunMsg
    <2>5. c \in Pending /\ Pending' \subseteq Pending
      BY <2>1, <2>2, <2>3 DEF Pending
    <2>6. out'.todo = <<>> /\ left[c] = <<>> => c \notin Pending'
      BY <2>2 DEF Pending
    <2>7. Counts(c)
      <3>1. CASE out'.todo = <<>> /\ left[c] = <<>>
        <4>1. Len(sent') = Len(sent) + 1
          BY <1>1, <2>2, <2>4, <3>1
        <4>2. Pending' \subseteq Pending \ {c}
          BY <2>5, <2>6, <3>1
        <4> QED
          BY <2>2, <2>5, <4>1, <4>2 DEF Counts
      <3>2. CASE ~(out'.todo = <<>> /\ left[c] = <<>>)
        BY <2>2, <2>5, <3>2 DEF Counts
      <3> QED
        BY <3>1, <3>2
    <2> QED
      BY <1>1, <2>2, <2>7, CountStep DEF rVars
  <1>6. CASE OwnAck
    <2>1. PICK m : sent' = Append(sent, m)
      BY <1>6 DEF OwnAck
    <2>2. Len(sent') = Len(sent) + 1
      <3>1. Len(Append(sent, m)) = Len(sent) + 1
        BY <1>1
      <3> QED
        BY <2>1, <3>1
    <2>3. begun' = begun + 1 /\ begun < MaxMessages /\ UNCHANGED <<chunkSize, out, left, rVars>>
      BY <1>6 DEF OwnAck, CanBegin
    <2>4. Pending' = Pending
      BY <2>3 DEF Pending
    <2>5. Counts(2)
      BY <2>2, <2>3, <2>4 DEF Counts
    <2> QED
      BY <1>1, <2>3, <2>5, CountStep DEF rVars
  <1>7. CASE OtherWrite
    <2>1. PICK c \in Streams, fmt \in 0 .. 3, d \in Nat, m \in Msgs :
                   \E now : OtherStep(c, fmt, d, m, now)
      BY <1>1, <1>7, OtherSteps, Zenon
    <2>2. PICK now : OtherStep(c, fmt, d, m, now)
      BY <2>1
    <2>3. PICK rest : rest = SubSeq(m.data, now + 1, Len(m.data))
      OBVIOUS
    <2>4. /\ now = Least(Len(m.data), chunkSize) /\ left' = [left EXCEPT ![c] = rest]
          /\ sent' = (IF now = Len(m.data) THEN Append(sent, m) ELSE sent)
          /\ chunkSize' = (IF c = 2 THEN NewSize ELSE chunkSize)
          /\ begun' = begun + 1 /\ left[c] = <<>> /\ writer # "own" /\ UNCHANGED <<out, rVars>>
      BY <2>2, <2>3, Zenon DEF OtherStep
    <2>5. begun < MaxMessages
      BY <1>7 DEF OtherWrite, CanBegin
    <2>6. now = Len(m.data) => rest = <<>>
      <3>1. m.data \in Seq(WordTokens) /\ m.data # <<>> /\ chunkSize \in Nat \ {0}
        BY <1>1, MsgTypes DEF Types
      <3>2. Takes(m.data, now)
        BY <2>4, <3>1, LastWords
      <3> QED
        BY <2>3, <3>2 DEF Takes
    <2>7. left'[c] = rest /\ \A x \in Streams : x # c => left'[x] = left[x]
      BY <1>1, <2>4 DEF Types
    <2>8. out.todo = <<>>
      BY <1>1, <2>4 DEF Types
    <2>9. Counts(c)
      <3>1. CASE now = Len(m.data)
        <4>1. Len(sent') = Len(sent) + 1
          BY <1>1, <2>4, <3>1
        <4>2. Pending' \subseteq Pending
          BY <2>4, <2>6, <2>7, <2>8, <3>1 DEF Pending
        <4> QED
          BY <2>4, <4>1, <4>2 DEF Counts
      <3>2. CASE now # Len(m.data)
        <4>1. Pending' \subseteq Pending \cup {c}
          BY <2>4, <2>7, <2>8 DEF Pending
        <4> QED
          BY <2>4, <3>2, <4>1 DEF Counts
      <3> QED
        BY <3>1, <3>2
    <2>10. status' = status /\ chunkSize' \in Sizes
      BY <1>1, <2>4 DEF Sizes, rVars
    <2> QED
      BY <1>1, <2>5, <2>9, <2>10, CountStep
  <1>8. ASSUME NEW c \in Streams, OtherContinue(c)
        PROVE  Counted'
    <2>1. PICK now : now = Least(Len(left[c]), chunkSize)
      OBVIOUS
    <2>2. PICK rest : rest = SubSeq(left[c], now + 1, Len(left[c]))
      OBVIOUS
    <2>3. /\ writer # "own" /\ left[c] # <<>> /\ left' = [left EXCEPT ![c] = rest]
          /\ sent' = (IF now = Len(left[c]) THEN Append(sent, last[c].msg) ELSE sent)
          /\ UNCHANGED <<chunkSize, begun, out, last, rVars>>
      BY <1>8, <2>1, <2>2, Zenon DEF OtherContinue
    <2>4. now = Len(left[c]) => rest = <<>>
      <3>1. left[c] \in Seq(WordTokens) /\ left[c] # <<>> /\ chunkSize \in Nat \ {0}
        BY <1>1, <2>3 DEF Types
      <3>2. Takes(left[c], now)
        BY <2>1, <3>1, LastWords
      <3> QED
        BY <2>2, <3>2 DEF Takes
    <2>5. left'[c] = rest /\ \A x \in Streams : x # c => left'[x] = left[x]
      BY <1>1, <2>3 DEF Types
    <2>6. out.todo = <<>>
      BY <1>1, <2>3 DEF Types
    <2>7. c \in Pending /\ Pending' \subseteq Pending
      BY <2>3, <2>5, <2>6 DEF Pending
    <2>8. Counts(c)
      <3>1. CASE now = Len(left[c])
        <4>1. Begun(c)
          BY <1>1, <2>3 DEF Types
        <4>2. last[c].msg \in Msgs
          BY <1>1, <4>1, BegunMsg
        <4>3. Len(sent') = Len(sent) + 1
          BY <1>1, <2>3, <3>1, <4>2
        <4>4. c \notin Pending'
          BY <2>3, <2>4, <2>5, <2>6, <3>1 DEF Pending
        <4>5. Pending' \subseteq Pending \ {c}
          BY <2>7, <4>4
        <4> QED
          BY <2>3, <2>7, <4>3, <4>5 DEF Counts
      <3>2. CASE now # Len(left[c])
        BY <2>3, <2>7, <3>2 DEF Counts
      <3> QED
        BY <3>1, <3>2
    <2> QED
      BY <1>1, <2>3, <2>8, CountStep DEF rVars
  <1> QED
    BY <1>2, <1>3, <1>4, <1>5, <1>6, <1>7, <1>8 DEF Next

(* The reader's entries never want more than fits: the words still to come *)
(* and those that have arrived are the length of the message.              *)
LEMMA TypesOfAll ==
  ASSUME Inv, Counted
  PROVE  TypeOK
  <1>1. cut \in BOOLEAN /\ intact \in BOOLEAN /\ sent \in Seq(Msgs)
    BY DEF Inv, Types
  <1>2. Len(sent) <= begun
    <2>1. Cardinality(Pending) \in Nat /\ Len(sent) \in Nat /\ begun \in Int
          /\ Len(sent) + Cardinality(Pending) <= begun
      BY <1>1, FS_CardinalityType DEF Counted
    <2> QED
      BY <2>1
  <1>3. ASSUME intact PROVE Reader \in Readers
    <2>1. PICK Q : \E r : Parse(Q, r, Reader)
      BY <1>3, Zenon DEF Inv, Parsed
    <2>2. PICK r : Parse(Q, r, Reader)
      BY <2>1
    <2>3. Q \in Seq(Descs) /\ r \in 1 .. Len(Q) /\ Q[r].st = Reader
      BY <2>2 DEF Parse
    <2>4. Q[r] \in Descs
      BY <2>3
    <2> QED
      BY <2>3, <2>4 DEF Descs
  <1>4. intact => remote \in Sizes /\ chunks \in [Keys -> Entries]
    BY <1>3 DEF Readers, Reader
  <1>5. intact => \A c \in DOMAIN chunks : chunks[c].remain + Len(chunks[c].data) = chunks[c].len
    BY <1>4 DEF Entries
  <1> QED
    BY <1>1, <1>2, <1>4, <1>5 DEF TypeOK, Counted, Sizes

(* Conn.Read never gives a chunk more words than the message has room for  *)
(* while the stream is intact, and no message is sent that was not begun.  *)
THEOREM TypeCorrect == Spec => []TypeOK
  <1>1. Init => Inv /\ Counted
    BY InitInv, InitCounted
  <1>2. Inv /\ Counted /\ [Next]_vars => (Inv /\ Counted)'
    BY NextInv, NextCounted
  <1>3. Inv /\ Counted => TypeOK
    BY TypesOfAll
  <1> QED
    BY <1>1, <1>2, <1>3, PTL DEF Spec
=============================================================================
