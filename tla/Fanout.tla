------------------------------- MODULE Fanout -------------------------------
(***************************************************************************)
(* The packets of one stream: the loop of Stream.TransStart                *)
(* (protocol/rtmp/stream.go) with its Cache (protocol/rtmp/cache), from    *)
(* the publisher's VirReader.Read to the Write of each writer.  Writers    *)
(* are added and close concurrently with the loop.                         *)
(*                                                                         *)
(* A writer that is new to the stream is sent the cache in place of the    *)
(* current packet; from then on it is sent every packet.                   *)
(***************************************************************************)
EXTENDS Integers, Sequences, FiniteSets

CONSTANTS
    Writers,    \* the writers that may be added
    Kinds,      \* the kinds of packet the publisher sends
    GopNum,     \* gop_num
    MaxPackets  \* bound: how many packets the publisher sends

(* meta: script data; vseq, aseq: sequence headers; key, inter, audio:     *)
(* media; short: a video message of less than five bytes, which DemuxH     *)
(* refuses; shortAudio: an AAC message of one byte, on which DemuxH panics *)
(* and VirReader.Read recovers without reporting an error.                 *)
ASSUME FanoutAssumption ==
    /\ Kinds \subseteq {"meta", "vseq", "aseq", "key", "inter", "audio",
                       "short", "shortAudio"}
    /\ GopNum \in Nat
    /\ MaxPackets \in Nat

VARIABLES
    pc,        \* where the loop is: "read", "cache", "deliver"
    input,     \* history: every packet read so far; the last is current
    hdr,       \* p.Header: the kind of the last packet DemuxH parsed
    metadata, videoSeq, audioSeq,  \* the special caches
    state,     \* each writer: "out", "fresh" (init false), "init", "gone"
    open,      \* writers whose Write still succeeds
    todo,      \* the writers the loop has still to visit
    got,       \* what each writer was sent
    joined,    \* history: how many packets had been read when it got the cache
    fromCache, \* history: how many packets it got from the cache
    garbled,   \* history: a header was taken from an earlier packet
    crashed

cacheVars  == <<metadata, videoSeq, audioSeq>>
writerVars == <<state, open, got, joined, fromCache>>
vars == <<pc, input, hdr, metadata, videoSeq, audioSeq, state, open, todo, got,
          joined, fromCache, garbled, crashed>>

Empty == [id |-> 0, kind |-> "none"]
Current == input[Len(input)]

Init ==
    /\ pc = "read"
    /\ input = <<>>
    /\ hdr = "none"
    /\ metadata = Empty /\ videoSeq = Empty /\ audioSeq = Empty
    /\ state = [w \in Writers |-> "out"]
    /\ open = Writers
    /\ todo = {}
    /\ got = [w \in Writers |-> <<>>]
    /\ joined = [w \in Writers |-> 0]
    /\ fromCache = [w \in Writers |-> 0]
    /\ garbled = FALSE
    /\ crashed = FALSE

-----------------------------------------------------------------------------
Unparsed == {"short", "shortAudio"}

(* Read: the packet variable is reused, so a packet DemuxH cannot parse    *)
(* keeps the header of the one before it.                                  *)
Read(k) ==
    /\ pc = "read"
    /\ Len(input) < MaxPackets
    /\ input' = Append(input, [id |-> Len(input) + 1, kind |-> k])
    /\ hdr' = IF k \in Unparsed THEN hdr ELSE k
    /\ garbled' = (garbled \/ (k = "short" /\ hdr = "vseq")
                              \/ (k = "shortAudio" /\ hdr = "aseq"))
    /\ pc' = "cache"
    /\ UNCHANGED <<cacheVars, writerVars, todo, crashed>>

IsVideo(x) == x.kind \in {"vseq", "key", "inter", "short"}
IsAudio(x) == x.kind \in {"aseq", "audio", "shortAudio"}

(* What Cache.Write asks of the header: an AVC or an AAC sequence header,  *)
(* or a video packet with no header at all.                                *)
VideoSeqNever == FALSE
VideoSeqNow == IsVideo(Current) /\ hdr = "vseq"

AudioSeqNow == IsAudio(Current) /\ hdr = "aseq"

NoHeaderNow == Current.kind = "short"
NoHeader == IsVideo(Current) /\ hdr = "none"

(* Cache.Write, then the snapshot of the writers.  Only sequence headers   *)
(* and metadata are kept: with any header at all the function returns      *)
(* before the GOP cache.  With none, a video packet ends in gop.Write's    *)
(* type assertion, which panics.                                           *)
CacheWrite ==
    /\ pc = "cache"
    /\ metadata' = IF Current.kind = "meta" THEN Current ELSE metadata
    /\ audioSeq' = IF AudioSeqNow THEN Current ELSE audioSeq
    /\ videoSeq' = IF VideoSeqNow THEN Current ELSE videoSeq
    /\ crashed' = NoHeader
    /\ todo' = {w \in Writers : state[w] \in {"fresh", "init"}}
    /\ pc' = "deliver"
    /\ UNCHANGED <<input, hdr, writerVars, garbled>>

(* What Cache.Send sends: metadata, video header, audio header, each       *)
(* unless its cache is empty (SpecialCache.Send); so is the GOP cache.     *)
Special(x) == IF x = Empty THEN <<>> ELSE <<x>>
CachedPackets == (Special(metadata) \o Special(videoSeq)) \o Special(audioSeq)

(* A fresh writer: Cache.Send.  Its last part computes a position modulo   *)
(* gop_num.  An empty cache writes nothing, so it cannot fail either.      *)
SendCache(w) ==
    /\ pc = "deliver"
    /\ w \in todo
    /\ state[w] = "fresh"
    /\ w \in open \/ CachedPackets = <<>>
    /\ got' = [got EXCEPT ![w] = @ \o CachedPackets]
    /\ crashed' = (GopNum = 0)
    /\ state' = [state EXCEPT ![w] = "init"]
    /\ joined' = [joined EXCEPT ![w] = Len(input)]
    /\ fromCache' = [fromCache EXCEPT ![w] = Len(CachedPackets)]
    /\ todo' = todo \ {w}
    /\ UNCHANGED <<pc, input, hdr, cacheVars, open, garbled>>

SendPacket(w) ==
    /\ pc = "deliver"
    /\ w \in todo
    /\ state[w] = "init"
    /\ w \in open
    /\ got' = [got EXCEPT ![w] = Append(@, Current)]
    /\ todo' = todo \ {w}
    /\ UNCHANGED <<pc, input, hdr, cacheVars, state, open, joined, fromCache, garbled,
                   crashed>>

(* A write that fails takes the writer off the list.                       *)
SendFails(w) ==
    /\ pc = "deliver"
    /\ w \in todo
    /\ w \notin open
    /\ state[w] = "init" \/ CachedPackets # <<>>
    /\ state' = [state EXCEPT ![w] = "gone"]
    /\ todo' = todo \ {w}
    /\ UNCHANGED <<pc, input, hdr, cacheVars, open, got, joined, fromCache, garbled,
                   crashed>>

Delivered ==
    /\ pc = "deliver"
    /\ todo = {}
    /\ pc' = "read"
    /\ UNCHANGED <<input, hdr, cacheVars, writerVars, todo, garbled, crashed>>

-----------------------------------------------------------------------------
AddWriterInit(w) ==
    /\ state[w] = "out"
    /\ state' = [state EXCEPT ![w] = "init"]
    /\ UNCHANGED <<pc, input, hdr, cacheVars, open, todo, got, joined, fromCache,
                   garbled, crashed>>
AddWriter(w) ==
    /\ state[w] = "out"
    /\ state' = [state EXCEPT ![w] = "fresh"]
    /\ UNCHANGED <<pc, input, hdr, cacheVars, open, todo, got, joined, fromCache,
                   garbled, crashed>>

WriterCloses(w) ==
    /\ w \in open
    /\ state[w] # "out"
    /\ open' = open \ {w}
    /\ UNCHANGED <<pc, input, hdr, cacheVars, state, todo, got, joined, fromCache,
                   garbled, crashed>>

Next ==
    /\ ~crashed
    /\ \/ \E k \in Kinds : Read(k)
       \/ CacheWrite
       \/ \E w \in Writers :
             SendCache(w) \/ SendPacket(w) \/ SendFails(w) \/ AddWriter(w) \/ WriterCloses(w)
       \/ Delivered

Spec == Init /\ [][Next]_vars

-----------------------------------------------------------------------------
Packets == [id : 1 .. MaxPackets, kind : Kinds]

(* The type invariant; a special cache only ever holds its own kind, or a  *)
(* packet that was too short to parse.                                     *)
TypeOK ==
    /\ pc \in {"read", "cache", "deliver"}
    /\ input \in Seq(Packets) /\ Len(input) <= MaxPackets
    /\ hdr \in Kinds \union {"none"}
    /\ metadata.kind \in {"none", "meta"}
    /\ videoSeq.kind \in {"none", "vseq", "short"}
    /\ audioSeq.kind \in {"none", "aseq", "shortAudio"}
    /\ state \in [Writers -> {"out", "fresh", "init", "gone"}]
    /\ open \subseteq Writers
    /\ todo \subseteq Writers
    /\ got \in [Writers -> Seq(Packets)]
    /\ joined \in [Writers -> 0 .. MaxPackets]
    /\ fromCache \in [Writers -> 0 .. 3]
    /\ garbled \in BOOLEAN /\ crashed \in BOOLEAN

(* The last packet of a kind in a sequence, Empty if there is none.        *)
LastOf(kind, seq) ==
    LET at == {i \in DOMAIN seq : seq[i].kind = kind}
    IN  IF at = {} THEN Empty ELSE seq[CHOOSE i \in at : \A j \in at : j <= i]

(* Whenever a writer is sent a video or an audio frame, the last sequence  *)
(* header it was sent is the one that was in force when the publisher sent *)
(* that frame, however its arrival and a change of header interleave.      *)
HeaderInForce ==
    ~garbled =>
        \A w \in Writers : \A i \in DOMAIN got[w] :
            LET x == got[w][i]
                before == SubSeq(got[w], 1, i - 1)
                source == SubSeq(input, 1, x.id)
            IN  /\ x.kind \in {"key", "inter"} => LastOf("vseq", before) = LastOf("vseq", source)
                /\ x.kind = "audio" => LastOf("aseq", before) = LastOf("aseq", source)

(* From the cache on a writer misses nothing: what it was sent after it is *)
(* exactly what the publisher sent since, up to the packet in delivery.    *)
(* (With the type invariant.)                                              *)
NoGap ==
    TypeOK /\ \A w \in Writers : state[w] = "init" =>
        LET live == SubSeq(got[w], fromCache[w] + 1, Len(got[w]))
            upto == IF pc = "cache" \/ w \in todo THEN Len(input) - 1 ELSE Len(input)
        IN  live = SubSeq(input, joined[w] + 1, upto)

(* The loop panics only on a stream that begins with a video message too   *)
(* short to parse, or if gop_num is zero.                                  *)
CrashOnlyAtStart ==
    crashed => \/ GopNum = 0
               \/ input # <<>> /\ \A i \in DOMAIN input : input[i].kind \in Unparsed
=============================================================================
