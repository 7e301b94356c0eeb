------------------------------- MODULE Chunks -------------------------------
(***************************************************************************)
(* The RTMP chunk layer, one direction (core/chunk_stream.go, conn.go,     *)
(* read_writer.go).  The writing end is this program (writeChunk: format 0 *)
(* and 3) or another implementation, which also uses formats 1 and 2,      *)
(* compresses headers and interleaves chunk streams; a terse one does not  *)
(* repeat an extended time stamp in format 3 chunks.  The reading end is   *)
(* Conn.Read.  The wire is a sequence of tokens: a chunk header, an        *)
(* extended time stamp, or a word of payload (four bytes each of the last  *)
(* two; chunk sizes and lengths count words).                              *)
(***************************************************************************)
EXTENDS Integers, Sequences, FiniteSets

CONSTANTS
    Csids,       \* chunk stream ids the other implementation uses
    Lengths,     \* message lengths
    Stamps,      \* time stamps, and time deltas
    ExtMark,     \* 0xffffff in the code: from here on time stamps are extended
    FirstSize,   \* chunk size of a new connection, 128 bytes in the code
    NewSize,     \* chunk size set later, 1024 bytes in the code
    MaxMessages, \* bound: messages written
    MaxWire      \* bound: a message begins when at most so many tokens are unread

ASSUME ChunksAssumption ==
    /\ Csids \subseteq Nat \ {0, 1, 2}
    /\ Lengths \subseteq Nat \ {0} /\ Stamps \subseteq Nat /\ ExtMark \in Nat \ {0}
    /\ FirstSize \in Nat \ {0} /\ NewSize \in Nat \ {0} /\ MaxMessages \in Nat
    /\ MaxWire \in Nat

VARIABLES
    writer,    \* "own", "other" or "terse": what the writing end is
    wire,      \* tokens written and not yet read
    cut,       \* the connection is gone: no token will follow
    chunkSize, \* the writer's
    begun,     \* messages begun
    out,       \* own writer: its chunk stream, and the tokens of its chunk to come
    last,      \* by chunk stream, the last message the writer began and its header
    left,      \* by chunk stream, words of that message not yet put into a chunk
    remote,    \* the reader's remoteChunkSize
    chunks,    \* the reader's conn.chunks
    status,    \* the reader: "ok" or "error"
    sent,      \* messages whose last token has been written
    received,  \* messages Conn.Read has returned
    intact     \* history: nothing of what is known to confuse the reader happened

wVars == <<writer, chunkSize, begun, out, last, left>>
rVars == <<remote, chunks, status, received>>
vars == <<wire, cut, wVars, rVars, sent, intact>>

Streams == Csids \cup {2, 6}     \* 2: control messages, 6: the program's own media
Key(csid) == IF csid < 64 THEN csid ELSE IF csid < 320 THEN 0 ELSE 1
Word(v)  == [k |-> "word", v |-> v]
Stamp(v) == [k |-> "stamp", v |-> v]
Header(fmt, csid, ts, len, type) ==
    [k |-> "header", fmt |-> fmt, csid |-> csid, len |-> len, type |-> type,
     ts |-> IF ts >= ExtMark THEN ExtMark ELSE ts]
Ext(ts) == IF ts >= ExtMark THEN <<Stamp(ts)>> ELSE <<>>
SetMin(S) == CHOOSE x \in S : \A y \in S : x <= y
Least(a, b) == IF a < b THEN a ELSE b

(* The n-th message; a "size" message carries the new chunk size.  Other   *)
(* words are negative: no payload looks like a time stamp.                 *)
Message(n, type, ts, len) ==
    [type |-> type, ts |-> ts,
     data |-> IF type = "size" THEN <<Word(NewSize)>>
              ELSE [i \in 1 .. len |-> Word(-(10 * n + i))]]

NoHeader == [msg |-> [type |-> "none", ts |-> 0, data |-> <<>>], delta |-> 0, fmt |-> 0]
NoChunk  == [ts |-> 0, delta |-> 0, len |-> 0, type |-> "none", fmt |-> 0,
             exted |-> FALSE, remain |-> 0, data |-> <<>>]

(* Bounds: what comes after the stream is spoiled or lost says nothing.     *)
CanBegin == ~cut /\ intact /\ begun < MaxMessages /\ Len(wire) <= MaxWire

Init ==
    /\ writer \in {"own", "other", "terse"}
    /\ wire = <<>> /\ cut = FALSE /\ chunkSize = FirstSize /\ begun = 0
    /\ out = [csid |-> 2, todo |-> <<>>]
    /\ last = [c \in Streams |-> NoHeader] /\ left = [c \in Streams |-> <<>>]
    /\ remote = FirstSize /\ chunks = [c \in {Key(x) : x \in Streams} |-> NoChunk]
    /\ status = "ok" /\ sent = <<>> /\ received = <<>> /\ intact = TRUE

-----------------------------------------------------------------------------
(* writeHeader and payload: a chunk, with an extended time stamp if there  *)
(* is one (which a terse writer does not repeat in format 3).              *)
Chunk(fmt, csid, ts, m, words) ==
    <<Header(fmt, csid, ts, Len(m.data), m.type)>>
      \o (IF fmt = 3 /\ writer = "terse" THEN <<>> ELSE Ext(ts)) \o words

(* Conn.Write: a new chunk size holds for the message that announces it.   *)
OwnWrite ==
    /\ writer = "own" /\ out.todo = <<>> /\ left[out.csid] = <<>> /\ CanBegin
    /\ begun' = begun + 1
    /\ \E type \in {"media", "size"}, ts \in Stamps, len \in Lengths :
          LET m == IF type = "size" THEN Message(begun', type, 0, 1)
                   ELSE Message(begun', type, ts, len)
              c == IF type = "size" THEN 2 ELSE 6
          IN  /\ chunkSize' = IF type = "size" THEN NewSize ELSE chunkSize
              /\ out' = [csid |-> c, todo |-> <<>>]
              /\ last' = [last EXCEPT ![c] = [msg |-> m, delta |-> 0, fmt |-> 0]]
              /\ left' = [left EXCEPT ![c] = m.data]
    /\ UNCHANGED <<writer, wire, cut, rVars, sent, intact>>

(* The loop of writeChunk: the next chunk, format 0 first and then 3.      *)
OwnChunk ==
    /\ writer = "own" /\ out.todo = <<>> /\ left[out.csid] # <<>> /\ ~cut
    /\ LET c   == out.csid
           m   == last[c].msg
           now == Least(Len(left[c]), chunkSize)
           t   == Chunk(IF left[c] = m.data THEN 0 ELSE 3, c, m.ts, m, SubSeq(left[c], 1, now))
       IN  /\ wire' = Append(wire, Head(t))
           /\ out' = [csid |-> c, todo |-> Tail(t)]
           /\ left' = [left EXCEPT ![c] = SubSeq(@, now + 1, Len(@))]
    /\ UNCHANGED <<writer, cut, chunkSize, begun, last, rVars, sent, intact>>

(* The tokens of the chunk go out one at a time.                           *)
OwnToken ==
    /\ out.todo # <<>> /\ ~cut
    /\ wire' = Append(wire, Head(out.todo))
    /\ out' = [csid |-> out.csid, todo |-> Tail(out.todo)]
    /\ sent' = IF out'.todo = <<>> /\ left[out.csid] = <<>>
               THEN Append(sent, last[out.csid].msg) ELSE sent
    /\ UNCHANGED <<writer, cut, chunkSize, begun, last, left, rVars, intact>>

(* Conn.ack: the goroutine that reads this end's input writes an           *)
(* acknowledgement to the same buffer, whatever is being written there;    *)
(* the two race, and the acknowledgement may be overwritten.               *)
OwnAck ==
    /\ writer = "own" /\ CanBegin
    /\ begun' = begun + 1
    /\ LET m == Message(begun', "ack", 0, 1)
           idle == out.todo = <<>> /\ left[out.csid] = <<>>
       IN  /\ wire' \in {wire \o Chunk(0, 2, 0, m, m.data)} \cup (IF idle THEN {} ELSE {wire})
           /\ intact' = (intact /\ out.todo = <<>> /\ wire' # wire)
           /\ sent' = Append(sent, m)
    /\ UNCHANGED <<writer, cut, chunkSize, out, last, left, rVars>>

-----------------------------------------------------------------------------
(* The other implementation begins a message.  What Conn.Read does not get *)
(* right is recorded: ids from 64 on share an entry of conn.chunks         *)
(* (conn.go:59); an extended delta is compared with the time stamp in the  *)
(* chunks that follow, where it is repeated (chunk_stream.go:202); and a   *)
(* message that begins with format 3 is assumed to repeat it (line 188).   *)
Shared(c) == \E d \in Streams \ {c} : Key(d) = Key(c) /\ last[d].msg.type # "none"

OtherBegin(c, fmt, delta, len) ==
    LET l  == last[c]
        d  == IF fmt = 3 THEN l.delta ELSE delta
        ts == IF fmt = 0 THEN delta ELSE l.msg.ts + d
        n  == IF fmt \in {2, 3} THEN Len(l.msg.data) ELSE len
        m  == Message(begun', IF c = 2 THEN "size" ELSE "media", ts, n)
        now == Least(n, chunkSize)
    IN  /\ wire' = wire \o Chunk(fmt, c, d, m, SubSeq(m.data, 1, now))
        /\ last' = [last EXCEPT ![c] = [msg |-> m, delta |-> d,
                                        fmt |-> IF fmt = 3 THEN l.fmt ELSE fmt]]
        /\ left' = [left EXCEPT ![c] = SubSeq(m.data, now + 1, n)]
        /\ sent' = IF now = n THEN Append(sent, m) ELSE sent
        /\ intact' = /\ intact /\ ~Shared(c)
                     /\ fmt # 0 /\ d >= ExtMark =>
                            IF writer = "terse" THEN fmt # 3 ELSE now = n
        /\ chunkSize' = IF c = 2 THEN NewSize ELSE chunkSize

OtherWrite ==
    /\ writer # "own" /\ CanBegin
    /\ begun' = begun + 1
    /\ \E c \in Streams :
          /\ left[c] = <<>> /\ c # 6
          /\ \/ \E delta \in Stamps, len \in Lengths :
                   /\ c = 2 => (delta = SetMin(Stamps) /\ len = SetMin(Lengths))
                   /\ OtherBegin(c, 0, delta, IF c = 2 THEN 1 ELSE len)
             \/ /\ c \in Csids /\ last[c].msg.type # "none"
                /\ \/ \E delta \in Stamps, len \in Lengths : OtherBegin(c, 1, delta, len)
                   \/ \E delta \in Stamps : OtherBegin(c, 2, delta, 1)
                   \/ last[c].fmt # 0 /\ OtherBegin(c, 3, 0, 1)
    /\ UNCHANGED <<writer, cut, out, rVars>>

OtherContinue(c) ==
    /\ writer # "own" /\ left[c] # <<>> /\ ~cut
    /\ LET now == Least(Len(left[c]), chunkSize)
           l == last[c]
           d == IF l.fmt = 0 THEN l.msg.ts ELSE l.delta
       IN  /\ wire' = wire \o Chunk(3, c, d, l.msg, SubSeq(left[c], 1, now))
           /\ left' = [left EXCEPT ![c] = SubSeq(@, now + 1, Len(@))]
           /\ sent' = IF now = Len(left[c]) THEN Append(sent, l.msg) ELSE sent
    /\ UNCHANGED <<writer, cut, chunkSize, begun, out, last, rVars, intact>>

(* The connection is lost, in the middle of a chunk or when all is read    *)
(* (all that was written being read first is the same as a later loss).    *)
Cut ==
    /\ ~cut /\ intact /\ cut' = TRUE
    /\ wire' = SubSeq(wire, 1, Len(wire) - 1)
    /\ UNCHANGED <<wVars, rVars, sent, intact>>

-----------------------------------------------------------------------------
(* readChunk on the entry cs after header h.  A format 3 chunk begins a    *)
(* message like the last one when nothing remains; in the middle of one    *)
(* the extended time stamp is skipped if the next word looks like it.      *)
NoPeek(cs, next) == 1
Peek(cs, next) == IF next.k # "header" /\ next.v = cs.ts THEN 1 ELSE 0

BeginChunk(cs, h, next) ==
    LET ext == IF h.fmt = 3 THEN cs.exted ELSE h.ts = ExtMark
        raw == IF ext THEN (IF next.k = "header" THEN 0 ELSE next.v) ELSE h.ts
        d   == IF h.fmt = 3 /\ ~ext THEN cs.delta ELSE raw
        fmt == IF h.fmt = 3 THEN cs.fmt ELSE h.fmt
        len == IF h.fmt \in {0, 1} THEN h.len ELSE cs.len
    IN  [ts |-> IF fmt # 0 THEN cs.ts + d ELSE IF h.fmt = 3 /\ ~ext THEN cs.ts ELSE raw,
         delta |-> IF h.fmt \in {1, 2} THEN d ELSE cs.delta,
         type |-> IF h.fmt \in {0, 1} THEN h.type ELSE cs.type,
         len |-> len, fmt |-> fmt, exted |-> ext,
         remain |-> len, data |-> <<>>]     \* ChunkStream.new

(* handleControlMsg: the chunk size the other end announced.               *)
IgnoreControlMsg(m, size) == size
HandleControlMsg(m, size) ==
    IF m.type = "size" /\ m.data[1].k = "word" THEN m.data[1].v ELSE size

(* The entry cs after the header of w, with the chunk's first token next,  *)
(* the tokens skipped before the payload, and the words the chunk has.     *)
Second(w) == IF Len(w) > 1 THEN w[2] ELSE w[1]
ReadHeader(cs, w) == IF cs.remain # 0 THEN cs ELSE BeginChunk(cs, w[1], Second(w))
Skip(cs, w) ==
    IF ~ReadHeader(cs, w).exted THEN 0 ELSE IF cs.remain # 0 THEN Peek(cs, Second(w)) ELSE 1
Words(cs, w, size) == Least(ReadHeader(cs, w).remain, size)
Need(cs, w, size) == 1 + Skip(cs, w) + Words(cs, w, size)
Rejects(cs, w) == cs.remain # 0 /\ w[1].fmt # 3
ReadBody(cs, w, size) ==
    [ReadHeader(cs, w) EXCEPT !.remain = @ - Words(cs, w, size),
                              !.data = @ \o SubSeq(w, 2 + Skip(cs, w), Need(cs, w, size))]

ReadFails == status' = "error" /\ UNCHANGED <<wire, remote, chunks, received>>

(* One chunk: Conn.Read returns when it completes a message, after         *)
(* handleControlMsg.  With too few tokens it waits, or fails if the        *)
(* connection is gone; a payload word where a header should be is garbage. *)
ReadChunk ==
    /\ status = "ok" /\ (wire # <<>> \/ cut)
    /\ IF wire = <<>> \/ wire[1].k # "header" THEN ReadFails
       ELSE LET key  == Key(wire[1].csid)
                need == Need(chunks[key], wire, remote)
                new  == ReadBody(chunks[key], wire, remote)
                done == new.remain = 0
            IN  IF Rejects(chunks[key], wire) THEN ReadFails
                ELSE IF Len(wire) < need THEN cut /\ ReadFails
                ELSE /\ wire' = SubSeq(wire, need + 1, Len(wire))
                     /\ chunks' = [chunks EXCEPT ![key] = new]
                     /\ received' = IF ~done THEN received
                                    ELSE Append(received, [type |-> new.type, ts |-> new.ts,
                                                           data |-> new.data])
                     /\ remote' = IF done THEN HandleControlMsg(new, remote) ELSE remote
                     /\ UNCHANGED status
    /\ UNCHANGED <<cut, wVars, sent, intact>>

Next ==
    \/ OwnWrite \/ OwnChunk \/ OwnToken \/ OwnAck \/ OtherWrite
    \/ (\E c \in Streams : OtherContinue(c)) \/ Cut \/ ReadChunk

Spec == Init /\ [][Next]_vars

(* Fairness: the reader reads what has arrived, and a writer finishes the  *)
(* message it has begun.                                                   *)
FairSpec ==
    /\ Spec /\ WF_vars(ReadChunk) /\ WF_vars(OwnChunk) /\ WF_vars(OwnToken)
    /\ \A c \in Streams : WF_vars(OtherContinue(c))

-----------------------------------------------------------------------------
(* The type invariant.                                                     *)
TypeOK ==
    /\ status \in {"ok", "error"} /\ cut \in BOOLEAN /\ intact \in BOOLEAN
    /\ begun \in 0 .. MaxMessages /\ Len(sent) <= begun
    /\ {chunkSize} \subseteq {FirstSize, NewSize}
    /\ intact => /\ remote \in {FirstSize, NewSize}
                 /\ \A c \in DOMAIN chunks :
                       chunks[c].remain + Len(chunks[c].data) = chunks[c].len

(* The chunk layer is a channel of messages: they arrive complete,         *)
(* unchanged and in order, whatever the interleaving of chunk streams and  *)
(* the moment of a change of chunk size, and nothing else arrives.  Three  *)
(* things break it, and only they: an acknowledgement written while a      *)
(* message is, two chunk streams with ids from 64 on, and an extended time *)
(* delta on a message of several chunks (or one repeated by format 3).     *)
Channel == INSTANCE MsgChannel WITH sent <- sent, received <- received, intact <- intact
Implements == Channel!Spec

(* Every message that was written completely is returned by Read, unless   *)
(* the connection is lost.  (With the type invariant.)                     *)
Delivered == []TypeOK /\ []<>(Len(received) >= Len(sent) \/ ~intact \/ cut)
=============================================================================
