---------------------------- MODULE FanoutProofs ----------------------------
(***************************************************************************)
(* Theorems about Fanout, for any number of writers and packets, any kinds *)
(* of packet and any gop_num.                                              *)
(***************************************************************************)
EXTENDS Fanout, SequenceTheorems, WellFoundedInduction, TLAPS

(* A set of natural numbers that is not empty has a least element.         *)
LEMMA LeastExists ==
  ASSUME NEW T \in SUBSET Nat, T # {}
  PROVE  \E x \in T : \A y \in T : x <= y
  <1>1. PICK x \in T : \A y \in T : ~ (<<y, x>> \in OpToRel(<, Nat))
    BY NatLessThanWellFounded, WFMin, Zenon
  <1>2. \A y \in T : ~(y < x)
    BY <1>1 DEF OpToRel
  <1> QED
    BY <1>2

(* A set of positions of a sequence that is not empty has a last one.      *)
LEMMA GreatestExists ==
  ASSUME NEW N \in Nat, NEW T \in SUBSET (1 .. N), T # {}
  PROVE  \E x \in T : \A y \in T : y <= x
  <1> DEFINE U == {N - x : x \in T}
  <1>1. U \in SUBSET Nat /\ U # {}
    <2>1. \A x \in T : N - x \in Nat
      OBVIOUS
    <2>2. PICK t \in T : TRUE
      OBVIOUS
    <2>3. N - t \in U
      OBVIOUS
    <2> QED
      BY <2>1, <2>3
  <1>2. PICK u \in U : \A v \in U : u <= v
    BY <1>1, LeastExists
  <1>3. PICK x \in T : u = N - x
    OBVIOUS
  <1>4. \A y \in T : N - x <= N - y
    BY <1>2, <1>3
  <1> QED
    BY <1>4

(* A subsequence is a shorter one and its own last element.                *)
LEMMA SubSeqGrow ==
  ASSUME NEW S, NEW s \in Seq(S), NEW m \in Nat \ {0}, NEW n \in Nat,
         m <= n, n <= Len(s)
  PROVE  SubSeq(s, m, n) = Append(SubSeq(s, m, n - 1), s[n])
  <1>1. m \in 1 .. Len(s) /\ n \in m .. Len(s)
    OBVIOUS
  <1>2. SubSeq(s, m, n) = SubSeq(s, m, n - 1) \o <<s[n]>>
    BY <1>1, SubSeqRecursiveSecond
  <1>3. SubSeq(s, m, n - 1) \in Seq(S) /\ s[n] \in S
    BY <1>1, SubSeqProperties, ElementOfSeq
  <1> QED
    BY <1>2, <1>3, AppendIsConcat

(* What is appended does not show in a subsequence that ends before it.    *)
LEMMA SubSeqOfAppend ==
  ASSUME NEW S, NEW s \in Seq(S), NEW e \in S, NEW m \in Nat \ {0}, NEW n \in Int,
         n <= Len(s)
  PROVE  SubSeq(Append(s, e), m, n) = SubSeq(s, m, n)
  <1>1. CASE n < m
    BY <1>1, SubSeqEmpty
  <1>2. CASE m <= n
    <2>1. m \in 1 .. Len(s) /\ n \in 1 .. Len(s) /\ <<e>> \in Seq(S)
      BY <1>2
    <2>2. SubSeq(s \o <<e>>, m, n) = SubSeq(s, m, n)
      BY <2>1, SubSeqOfConcat1
    <2> QED
      BY <2>2, AppendIsConcat
  <1> QED
    BY <1>1, <1>2

(* If the end of g is the part of s up to its last element, and that       *)
(* element is appended to g, the end of g is the part of s up to its end.  *)
LEMMA TailFollows ==
  ASSUME NEW S, NEW g \in Seq(S), NEW s \in Seq(S), NEW f \in Nat, NEW j \in Nat,
         f <= Len(g), j <= Len(s) - 1,
         SubSeq(g, f + 1, Len(g)) = SubSeq(s, j + 1, Len(s) - 1)
  PROVE  SubSeq(Append(g, s[Len(s)]), f + 1, Len(g) + 1) = SubSeq(s, j + 1, Len(s))
  <1> DEFINE e == s[Len(s)]
             h == Append(g, e)
             m == Len(g) + 1
  <1>1. Len(g) \in Nat /\ Len(s) \in Nat /\ m \in Nat /\ m - 1 = Len(g)
    BY LenProperties
  <1>2. e \in S
    BY <1>1, ElementOfSeq
  <1>3. h \in Seq(S) /\ Len(h) = m /\ h[m] = e
    BY <1>2, AppendProperties
  <1>4. f + 1 \in Nat \ {0} /\ f + 1 <= m /\ m <= Len(h)
    BY <1>1, <1>3
  <1>5. SubSeq(h, f + 1, Len(g)) = SubSeq(g, f + 1, Len(g))
    BY <1>1, <1>2, SubSeqOfAppend
  <1>6. j + 1 \in Nat \ {0} /\ j + 1 <= Len(s) /\ Len(s) <= Len(s)
    BY <1>1
  <1> HIDE DEF e, h, m
  <1>7. SubSeq(h, f + 1, m) = Append(SubSeq(h, f + 1, m - 1), h[m])
    BY <1>1, <1>3, <1>4, SubSeqGrow
  <1>8. SubSeq(s, j + 1, Len(s)) = Append(SubSeq(s, j + 1, Len(s) - 1), s[Len(s)])
    BY <1>1, <1>6, SubSeqGrow, Zenon
  <1>9. SubSeq(h, f + 1, m) = Append(SubSeq(g, f + 1, Len(g)), e)
    <2>1. SubSeq(h, f + 1, m - 1) = SubSeq(g, f + 1, Len(g))
      BY <1>1, <1>5, Zenon
    <2> QED
      BY <1>3, <1>7, <2>1, Zenon
  <1>10. SubSeq(h, f + 1, m) = SubSeq(s, j + 1, Len(s))
    BY <1>8, <1>9 DEF e
  <1> QED
    BY <1>10, Zenon DEF e, h, m

-----------------------------------------------------------------------------
(* How many packets the cache, and a writer, have been given so far.       *)
Cached == IF pc = "cache" THEN Len(input) - 1 ELSE Len(input)
Upto(w) == IF pc = "cache" \/ w \in todo THEN Len(input) - 1 ELSE Len(input)

(* The loop: packets are numbered as they are read, and there is one in    *)
(* hand unless the loop is at Read; the writers still to be visited are    *)
(* those of the snapshot, none of which can have left.                     *)
LoopInv ==
    /\ pc # "read" => Len(input) > 0
    /\ pc # "deliver" => todo = {}
    /\ \A w \in todo : state[w] \in {"fresh", "init"}
    /\ \A i \in DOMAIN input : input[i].id = i
    /\ {metadata, videoSeq, audioSeq} \subseteq Packets \union {Empty}

(* The header in p.Header is that of the current packet if DemuxH parsed   *)
(* it, and there is one as soon as any packet has been parsed.             *)
ParseInv ==
    /\ pc = "cache" => (Current.kind \notin Unparsed => hdr = Current.kind)
    /\ hdr = "none" => \A i \in DOMAIN input : input[i].kind \in Unparsed

(* Each writer: nothing is sent before the cache is, and what follows the  *)
(* cache is what was read since.                                           *)
Joined(w) ==
    /\ state[w] \in {"out", "fresh"} => got[w] = <<>>
    /\ state[w] = "init" =>
          /\ fromCache[w] <= Len(got[w])
          /\ joined[w] <= Upto(w)
          /\ SubSeq(got[w], fromCache[w] + 1, Len(got[w]))
                = SubSeq(input, joined[w] + 1, Upto(w))
JoinInv == \A w \in Writers : Joined(w)

(* The inductive invariant behind NoGap and CrashOnlyAtStart.              *)
FanInv == TypeOK /\ LoopInv /\ ParseInv /\ JoinInv /\ CrashOnlyAtStart

-----------------------------------------------------------------------------
(* What the caches hold goes out in order: at most three packets.          *)
LEMMA CachedPacketsType ==
  ASSUME LoopInv
  PROVE  /\ CachedPackets \in Seq(Packets)
         /\ Len(CachedPackets) \in 0 .. 3
  <1>1. \A x \in Packets \union {Empty} :
           Special(x) \in Seq(Packets) /\ Len(Special(x)) \in 0 .. 1
    BY DEF Special
  <1>2. /\ Special(metadata) \in Seq(Packets) /\ Len(Special(metadata)) \in 0 .. 1
        /\ Special(videoSeq) \in Seq(Packets) /\ Len(Special(videoSeq)) \in 0 .. 1
        /\ Special(audioSeq) \in Seq(Packets) /\ Len(Special(audioSeq)) \in 0 .. 1
    BY <1>1 DEF LoopInv
  <1> QED
    BY <1>2, ConcatProperties DEF CachedPackets

(* The packet in hand is the last one read.                                *)
LEMMA CurrentType ==
  ASSUME TypeOK, LoopInv, pc # "read"
  PROVE  /\ Len(input) \in 1 .. MaxPackets
         /\ Current \in Packets
         /\ Current.id = Len(input)
  <1> USE FanoutAssumption DEF TypeOK, LoopInv
  <1>1. Len(input) \in Nat /\ DOMAIN input = 1 .. Len(input)
    BY LenProperties
  <1>2. Len(input) \in 1 .. Len(input)
    BY <1>1
  <1>3. input[Len(input)] \in Packets
    BY <1>2, ElementOfSeq
  <1>4. input[Len(input)].id = Len(input)
    BY <1>1, <1>2
  <1>5. Len(input) \in 1 .. MaxPackets
    BY <1>1, <1>2
  <1> QED
    BY <1>3, <1>4, <1>5 DEF Current

(* Each step keeps the types.                                              *)
LEMMA TypeKept ==
  ASSUME FanInv, Next PROVE TypeOK'
  <1> USE FanoutAssumption DEF FanInv, TypeOK, cacheVars, writerVars
  <1>1. ASSUME NEW k \in Kinds, Read(k) PROVE TypeOK'
    <2>1. Len(input) \in Nat
      BY LenProperties
    <2>2. [id |-> Len(input) + 1, kind |-> k] \in Packets
      BY <1>1, <2>1 DEF Read, Packets
    <2>3. input' \in Seq(Packets) /\ Len(input') = Len(input) + 1
      BY <1>1, <2>2, AppendProperties DEF Read
    <2> QED
      BY <1>1, <2>1, <2>3 DEF Read
  <1>2. CASE CacheWrite
    BY <1>2, CurrentType
    DEF CacheWrite, Packets, VideoSeqNow, AudioSeqNow, NoHeader, IsVideo, IsAudio,
        LoopInv, ParseInv, Unparsed
  <1>3. ASSUME NEW w \in Writers, SendCache(w) PROVE TypeOK'
    <2>1. got' \in [Writers -> Seq(Packets)]
      BY <1>3, CachedPacketsType, ConcatProperties DEF SendCache
    <2>2. Len(input) \in 0 .. MaxPackets
      BY LenProperties
    <2> QED
      BY <1>3, <2>1, <2>2, CachedPacketsType DEF SendCache
  <1>4. ASSUME NEW w \in Writers, SendPacket(w) PROVE TypeOK'
    <2>1. got' \in [Writers -> Seq(Packets)]
      BY <1>4, CurrentType, AppendProperties DEF SendPacket
    <2> QED
      BY <1>4, <2>1 DEF SendPacket
  <1>5. ASSUME NEW w \in Writers, SendFails(w) \/ AddWriter(w) \/ WriterCloses(w)
        PROVE  TypeOK'
    BY <1>5 DEF SendFails, AddWriter, WriterCloses
  <1>6. CASE Delivered
    BY <1>6 DEF Delivered
  <1> QED
    BY <1>1, <1>2, <1>3, <1>4, <1>5, <1>6 DEF Next

(* Each step keeps the order of the loop.                                  *)
LEMMA LoopKept ==
  ASSUME FanInv, Next PROVE LoopInv'
  <1> USE FanoutAssumption DEF FanInv, TypeOK, LoopInv, cacheVars, writerVars
  <1>1. ASSUME NEW k \in Kinds, Read(k) PROVE LoopInv'
    <2>1. Len(input) \in Nat /\ DOMAIN input = 1 .. Len(input)
      BY LenProperties
    <2>2. [id |-> Len(input) + 1, kind |-> k] \in Packets
      BY <1>1, <2>1 DEF Read, Packets
    <2>3. /\ input' \in Seq(Packets) /\ Len(input') = Len(input) + 1
          /\ \A i \in 1 .. Len(input) : input'[i] = input[i]
          /\ input'[Len(input) + 1].id = Len(input) + 1
      BY <1>1, <2>2, AppendProperties DEF Read
    <2>4. DOMAIN input' = 1 .. Len(input')
      BY <2>3, LenProperties
    <2>5. ASSUME NEW i \in DOMAIN input' PROVE input'[i].id = i
      <3>1. i \in 1 .. Len(input) \/ i = Len(input) + 1
        BY <2>1, <2>3, <2>4, <2>5
      <3>2. i \in 1 .. Len(input) => input[i].id = i
        BY <2>1
      <3> QED
        BY <2>3, <3>1, <3>2
    <2> QED
      BY <1>1, <2>1, <2>3, <2>5 DEF Read, Empty
  <1>2. CASE CacheWrite
    <2>1. Current \in Packets
      BY <1>2, CurrentType DEF CacheWrite
    <2> QED
      BY <1>2, <2>1 DEF CacheWrite
  <1>3. ASSUME NEW w \in Writers,
               \/ SendCache(w) \/ SendPacket(w) \/ SendFails(w)
               \/ AddWriter(w) \/ WriterCloses(w)
        PROVE  LoopInv'
    BY <1>3 DEF SendCache, SendPacket, SendFails, AddWriter, WriterCloses
  <1>4. CASE Delivered
    BY <1>4 DEF Delivered
  <1> QED
    BY <1>1, <1>2, <1>3, <1>4 DEF Next

(* Only Read changes the header.                                           *)
LEMMA ParseKept ==
  ASSUME FanInv, Next PROVE ParseInv'
  <1> USE FanoutAssumption DEF FanInv, TypeOK, ParseInv, cacheVars, writerVars
  <1>1. ASSUME NEW k \in Kinds, Read(k) PROVE ParseInv'
    <2>1. Len(input) \in Nat /\ DOMAIN input = 1 .. Len(input)
      BY LenProperties
    <2>2. [id |-> Len(input) + 1, kind |-> k] \in Packets
      BY <1>1, <2>1 DEF Read, Packets
    <2>3. /\ input' \in Seq(Packets) /\ Len(input') = Len(input) + 1
          /\ \A i \in 1 .. Len(input) : input'[i] = input[i]
          /\ input'[Len(input) + 1].kind = k
      BY <1>1, <2>2, AppendProperties DEF Read
    <2>4. DOMAIN input' = 1 .. Len(input')
      BY <2>3, LenProperties
    <2>5. Current'.kind = k
      BY <2>3 DEF Current
    <2>6. k \notin Unparsed => hdr' = k /\ hdr' # "none"
      BY <1>1 DEF Read
    <2>7. k \in Unparsed => hdr' = hdr
      BY <1>1 DEF Read
    <2>8. hdr' = "none" => \A i \in DOMAIN input' : input'[i].kind \in Unparsed
      BY <2>1, <2>3, <2>4, <2>6, <2>7
    <2> QED
      BY <2>5, <2>6, <2>8
  <1>2. CASE UNCHANGED <<input, hdr>> /\ (pc' = "cache" => pc = "cache")
    BY <1>2 DEF Current
  <1>3. ASSUME NEW w \in Writers,
               \/ SendCache(w) \/ SendPacket(w) \/ SendFails(w)
               \/ AddWriter(w) \/ WriterCloses(w)
        PROVE  UNCHANGED <<input, hdr, pc>>
    BY <1>3 DEF SendCache, SendPacket, SendFails, AddWriter, WriterCloses
  <1>4. CacheWrite \/ Delivered => UNCHANGED <<input, hdr>> /\ pc' # "cache"
    BY DEF CacheWrite, Delivered
  <1> QED
    BY <1>1, <1>2, <1>3, <1>4 DEF Next

(* Read and CacheWrite leave the writers behind by a packet; each writer   *)
(* catches up when it is visited, or gets the cache in its place.          *)
LEMMA JoinKept ==
  ASSUME FanInv, Next PROVE JoinInv'
  <1> USE DEF cacheVars, writerVars
  <1>0. /\ input \in Seq(Packets) /\ Len(input) \in Nat
        /\ got \in [Writers -> Seq(Packets)]
        /\ \A w \in Writers : /\ got[w] \in Seq(Packets) /\ Len(got[w]) \in Nat
                              /\ joined[w] \in Nat /\ fromCache[w] \in Nat
        /\ joined \in [Writers -> Nat] /\ fromCache \in [Writers -> Nat]
        /\ DOMAIN state = Writers
    <2>1. /\ input \in Seq(Packets) /\ got \in [Writers -> Seq(Packets)]
          /\ joined \in [Writers -> 0 .. MaxPackets]
          /\ fromCache \in [Writers -> 0 .. 3]
          /\ DOMAIN state = Writers
      BY DEF FanInv, TypeOK
    <2>2. 0 .. MaxPackets \subseteq Nat /\ 0 .. 3 \subseteq Nat
      BY FanoutAssumption
    <2>3. joined \in [Writers -> Nat] /\ fromCache \in [Writers -> Nat]
      BY <2>1, <2>2
    <2> QED
      BY <2>1, <2>3, LenProperties
  <1>01. \A w \in Writers : Joined(w)
    BY DEF FanInv, JoinInv
  <1>02. ASSUME NEW v \in Writers, Upto(v)' = Upto(v),
                input' = input, state'[v] = state[v], got'[v] = got[v],
                fromCache'[v] = fromCache[v], joined'[v] = joined[v]
         PROVE  Joined(v)'
    BY <1>01, <1>02 DEF Joined
  <1>1. ASSUME NEW k \in Kinds, Read(k), NEW v \in Writers PROVE Joined(v)'
    <2> DEFINE e == [id |-> Len(input) + 1, kind |-> k]
    <2>1. e \in Packets
      BY <1>1, <1>0, FanoutAssumption DEF Read, Packets
    <2>2. input' = Append(input, e) /\ Len(input') = Len(input) + 1
      BY <1>0, <1>1, <2>1, AppendProperties DEF Read
    <2> HIDE DEF e
    <2>3. Upto(v) = Len(input) /\ Upto(v)' = Len(input)
      BY <1>0, <1>1, <2>2 DEF Read, Upto, FanInv, LoopInv
    <2>4. /\ joined[v] + 1 \in Nat \ {0} /\ input \in Seq(Packets)
          /\ Len(input) \in Int /\ Len(input) <= Len(input)
      BY <1>0
    <2>5. SubSeq(input', joined[v] + 1, Len(input)) = SubSeq(input, joined[v] + 1, Len(input))
      <3>1. SubSeq(Append(input, e), joined[v] + 1, Len(input))
               = SubSeq(input, joined[v] + 1, Len(input))
        BY <2>1, <2>4, SubSeqOfAppend, Zenon
      <3> QED
        BY <2>2, <3>1
    <2>6. UNCHANGED <<state, got, joined, fromCache>>
      BY <1>1 DEF Read
    <2> QED
      BY <1>01, <2>3, <2>5, <2>6 DEF Joined
  <1>2. ASSUME CacheWrite, NEW v \in Writers PROVE Joined(v)'
    <2>1. UNCHANGED <<input, state, got, joined, fromCache>>
      BY <1>2 DEF CacheWrite
    <2>2. state[v] = "init" => Upto(v)' = Upto(v)
      BY <1>2 DEF CacheWrite, Upto
    <2> QED
      BY <1>01, <2>1, <2>2 DEF Joined
  <1>3. ASSUME NEW w \in Writers, SendCache(w), NEW v \in Writers PROVE Joined(v)'
    <2>1. CachedPackets \in Seq(Packets) /\ Len(CachedPackets) \in Nat
      BY CachedPacketsType, LenProperties DEF FanInv
    <2>2. got[w] = <<>> /\ got'[w] = CachedPackets
      BY <1>0, <1>01, <1>3, <2>1, ConcatEmptySeq DEF SendCache, Joined
    <2>3. Upto(w)' = Len(input) /\ (v # w => Upto(v)' = Upto(v))
      BY <1>3 DEF SendCache, Upto
    <2>4. /\ fromCache'[w] = Len(CachedPackets) /\ joined'[w] = Len(input)
          /\ state'[w] = "init" /\ input' = input
      BY <1>0, <1>3 DEF SendCache
    <2>5. SubSeq(got'[w], fromCache'[w] + 1, Len(got'[w])) = <<>>
      BY <2>1, <2>2, <2>4, SubSeqEmpty
    <2>6. SubSeq(input, joined'[w] + 1, Len(input)) = <<>>
      BY <1>0, <2>4, SubSeqEmpty
    <2>7. Joined(w)'
      BY <1>0, <2>1, <2>2, <2>3, <2>4, <2>5, <2>6 DEF Joined
    <2>8. v # w => /\ input' = input /\ state'[v] = state[v] /\ got'[v] = got[v]
                   /\ fromCache'[v] = fromCache[v] /\ joined'[v] = joined[v]
      BY <1>0, <1>3 DEF SendCache
    <2> QED
      BY <1>02, <2>3, <2>7, <2>8
  <1>4. ASSUME NEW w \in Writers, SendPacket(w), NEW v \in Writers PROVE Joined(v)'
    <2>1. /\ Current \in Packets /\ Len(input) > 0
          /\ got'[w] = Append(got[w], input[Len(input)])
          /\ UNCHANGED <<input, fromCache, joined, state>> /\ state[w] = "init"
      BY <1>0, <1>4, CurrentType DEF SendPacket, FanInv, Current
    <2>2. Upto(w)' = Len(input) /\ Upto(w) = Len(input) - 1 /\ (v # w => Upto(v)' = Upto(v))
      BY <1>4 DEF SendPacket, Upto
    <2>3. Len(got'[w]) = Len(got[w]) + 1
      BY <1>0, <2>1, AppendProperties DEF Current
    <2>4. /\ fromCache[w] <= Len(got[w]) /\ joined[w] <= Len(input) - 1
          /\ SubSeq(got[w], fromCache[w] + 1, Len(got[w]))
                = SubSeq(input, joined[w] + 1, Len(input) - 1)
      BY <1>01, <2>1, <2>2 DEF Joined
    <2>5. SubSeq(got'[w], fromCache[w] + 1, Len(got[w]) + 1)
             = SubSeq(input, joined[w] + 1, Len(input))
      <3>1. /\ got[w] \in Seq(Packets) /\ input \in Seq(Packets)
            /\ fromCache[w] \in Nat /\ joined[w] \in Nat
        BY <1>0
      <3>2. SubSeq(Append(got[w], input[Len(input)]), fromCache[w] + 1, Len(got[w]) + 1)
               = SubSeq(input, joined[w] + 1, Len(input))
        BY <3>1, <2>4, TailFollows, Zenon
      <3> QED
        BY <2>1, <3>2, Zenon
    <2>6. Joined(w)'
      <3>1. /\ state'[w] = "init" /\ fromCache'[w] = fromCache[w]
            /\ joined'[w] = joined[w] /\ input' = input
        BY <2>1
      <3>2. fromCache[w] <= Len(got'[w]) /\ joined[w] <= Len(input)
        BY <1>0, <2>3, <2>4
      <3>3. SubSeq(got'[w], fromCache[w] + 1, Len(got'[w]))
               = SubSeq(input, joined[w] + 1, Len(input))
        BY <2>3, <2>5, Zenon
      <3> QED
        BY <2>2, <3>1, <3>2, <3>3 DEF Joined
    <2>7. v # w => got'[v] = got[v]
      BY <1>0, <1>4 DEF SendPacket
    <2> QED
      BY <1>02, <2>1, <2>2, <2>6, <2>7
  <1>5. ASSUME NEW w \in Writers, SendFails(w), NEW v \in Writers PROVE Joined(v)'
    <2>1. v # w => Upto(v)' = Upto(v) /\ state'[v] = state[v]
      BY <1>0, <1>5 DEF SendFails, Upto
    <2>2. UNCHANGED <<input, got, joined, fromCache>> /\ state'[w] = "gone"
      BY <1>0, <1>5 DEF SendFails
    <2> QED
      BY <1>02, <2>1, <2>2 DEF Joined
  <1>6. ASSUME NEW w \in Writers, AddWriter(w) \/ WriterCloses(w), NEW v \in Writers
        PROVE  Joined(v)'
    <2>1. UNCHANGED <<input, got, joined, fromCache, pc, todo>>
      BY <1>6 DEF AddWriter, WriterCloses
    <2>2. state'[v] = state[v] \/ (state[v] = "out" /\ state'[v] = "fresh")
      BY <1>0, <1>6 DEF AddWriter, WriterCloses
    <2>3. Upto(v)' = Upto(v)
      BY <2>1 DEF Upto
    <2> QED
      BY <1>01, <1>02, <2>1, <2>2, <2>3 DEF Joined
  <1>7. ASSUME Delivered, NEW v \in Writers PROVE Joined(v)'
    <2>1. UNCHANGED <<input, got, joined, fromCache, state>> /\ Upto(v)' = Upto(v)
      BY <1>7 DEF Delivered, Upto
    <2> QED
      BY <1>02, <2>1
  <1> QED
    BY <1>1, <1>2, <1>3, <1>4, <1>5, <1>6, <1>7 DEF Next, JoinInv

(* The loop panics only where CrashOnlyAtStart says.                       *)
LEMMA CrashKept ==
  ASSUME FanInv, Next PROVE CrashOnlyAtStart'
  <1> USE DEF cacheVars, writerVars
  <1>1. ~crashed /\ crashed \in BOOLEAN
    BY DEF Next, FanInv, TypeOK
  <1>2. CASE CacheWrite
    <2>1. crashed' => hdr = "none" /\ input' = input /\ Len(input) > 0
      BY <1>2 DEF CacheWrite, NoHeader, FanInv, LoopInv
    <2>2. input # <<>> \/ ~(Len(input) > 0)
      BY DEF FanInv, TypeOK
    <2> QED
      BY <2>1, <2>2 DEF CrashOnlyAtStart, FanInv, ParseInv
  <1>3. ASSUME NEW w \in Writers, SendCache(w) PROVE CrashOnlyAtStart'
    BY <1>3 DEF SendCache, CrashOnlyAtStart
  <1>4. ASSUME NEW w \in Writers,
               SendPacket(w) \/ SendFails(w) \/ AddWriter(w) \/ WriterCloses(w)
        PROVE  crashed' = crashed
    BY <1>4 DEF SendPacket, SendFails, AddWriter, WriterCloses
  <1>5. ASSUME NEW k \in Kinds, Read(k) PROVE crashed' = crashed
    BY <1>5 DEF Read
  <1>6. Delivered => crashed' = crashed
    BY DEF Delivered
  <1> QED
    BY <1>1, <1>2, <1>3, <1>4, <1>5, <1>6 DEF Next, CrashOnlyAtStart

(* FanInv is inductive.                                                    *)
LEMMA FanInvariant == Spec => []FanInv
  <1>1. ASSUME Init PROVE FanInv
    <2>1. TypeOK
      <3>1. <<>> \in Seq(Packets) /\ Len(<<>>) = 0 /\ 0 <= MaxPackets
        BY FanoutAssumption, EmptySeq
      <3>2. /\ got \in [Writers -> Seq(Packets)]
            /\ joined \in [Writers -> 0 .. MaxPackets]
            /\ fromCache \in [Writers -> 0 .. 3]
        BY <1>1, <3>1, FanoutAssumption DEF Init
      <3> QED
        BY <1>1, <3>1, <3>2 DEF Init, TypeOK, Empty
    <2>2. LoopInv
      BY <1>1, EmptySeq DEF Init, LoopInv
    <2>3. ParseInv
      BY <1>1 DEF Init, ParseInv
    <2>4. JoinInv
      BY <1>1 DEF Init, JoinInv, Joined
    <2>5. CrashOnlyAtStart
      BY <1>1 DEF Init, CrashOnlyAtStart
    <2> QED
      BY <2>1, <2>2, <2>3, <2>4, <2>5 DEF FanInv
  <1>2. FanInv /\ [Next]_vars => FanInv'
    <2>1. ASSUME FanInv, Next PROVE FanInv'
      BY <2>1, TypeKept, LoopKept, ParseKept, JoinKept, CrashKept DEF FanInv
    <2>2. ASSUME FanInv, UNCHANGED vars PROVE FanInv'
      <3>1. TypeOK'
        BY <2>2 DEF vars, FanInv, TypeOK
      <3>2. LoopInv'
        BY <2>2 DEF vars, FanInv, LoopInv
      <3>3. ParseInv'
        BY <2>2 DEF vars, FanInv, ParseInv, Current
      <3>4. JoinInv'
        BY <2>2 DEF vars, FanInv, JoinInv, Joined, Upto
      <3>5. CrashOnlyAtStart'
        BY <2>2 DEF vars, FanInv, CrashOnlyAtStart
      <3> QED
        BY <3>1, <3>2, <3>3, <3>4, <3>5 DEF FanInv
    <2> QED
      BY <2>1, <2>2
  <1> QED
    BY <1>1, <1>2, PTL DEF Spec

(* From the cache on a writer misses nothing, whatever the other writers   *)
(* do; NoGap holds the type invariant of the module.                       *)
THEOREM NothingMissed == Spec => []NoGap
  <1>1. FanInv => NoGap
    BY DEF FanInv, NoGap, JoinInv, Joined, Upto
  <1> QED
    BY <1>1, FanInvariant, PTL

(* The transport panics only at the very start of a stream, or with        *)
(* gop_num zero.                                                           *)
THEOREM PanicsOnlyAtStart == Spec => []CrashOnlyAtStart
  BY FanInvariant, PTL DEF FanInv

-----------------------------------------------------------------------------
(* The last packet of a kind after one more packet.                        *)
LEMMA LastOfAppend ==
  ASSUME NEW S, NEW s \in Seq(S), NEW x \in S, NEW kind
  PROVE  LastOf(kind, Append(s, x)) = IF x.kind = kind THEN x ELSE LastOf(kind, s)
  <1> DEFINE t == Append(s, x)
             n == Len(s) + 1
             A == {i \in DOMAIN s : s[i].kind = kind}
             B == {i \in DOMAIN t : t[i].kind = kind}
             a == CHOOSE i \in A : \A j \in A : j <= i
             b == CHOOSE i \in B : \A j \in B : j <= i
  <1>1. /\ t \in Seq(S) /\ Len(t) = n /\ Len(s) \in Nat /\ n \in Nat \ {0}
        /\ \A i \in 1 .. Len(s) : t[i] = s[i]
        /\ t[n] = x
    BY AppendProperties, LenProperties
  <1>2. DOMAIN s = 1 .. Len(s) /\ DOMAIN t = 1 .. n
    BY <1>1, LenProperties
  <1>3. LastOf(kind, s) = IF A = {} THEN Empty ELSE s[a]
    BY DEF LastOf
  <1>4. LastOf(kind, t) = IF B = {} THEN Empty ELSE t[b]
    BY DEF LastOf
  <1> HIDE DEF t, n
  <1>5. CASE x.kind = kind
    <2>1. n \in B /\ \A j \in B : j <= n
      BY <1>1, <1>2, <1>5
    <2>2. b \in B /\ \A j \in B : j <= b
      BY <2>1
    <2>3. b = n
      BY <1>1, <1>2, <2>1, <2>2
    <2>4. t[b] = x /\ B # {}
      BY <1>1, <2>1, <2>3
    <2> QED
      BY <1>4, <1>5, <2>4 DEF t
  <1>6. CASE x.kind # kind
    <2>1. A \subseteq 1 .. Len(s)
      BY <1>2
    <2>2. B = A
      BY <1>1, <1>2, <1>6 DEF n
    <2>3. b = a
      BY <2>2
    <2>4. A # {} => a \in A
      BY <1>1, <2>1, GreatestExists
    <2>5. A # {} => t[a] = s[a]
      BY <1>1, <2>1, <2>4
    <2> HIDE DEF A, B, a, b
    <2>6. LastOf(kind, t) = LastOf(kind, s)
      BY <1>3, <1>4, <2>2, <2>3, <2>5
    <2> QED
      BY <1>6, <2>6 DEF t
  <1> QED
    BY <1>5, <1>6

(* No packet of the kind: Empty, and else a packet of the kind.            *)
LEMMA LastOfKind ==
  ASSUME NEW S, NEW s \in Seq(S), NEW kind
  PROVE  LastOf(kind, s) = Empty \/ LastOf(kind, s).kind = kind
  <1> DEFINE A == {i \in DOMAIN s : s[i].kind = kind}
             a == CHOOSE i \in A : \A j \in A : j <= i
  <1>1. LastOf(kind, s) = IF A = {} THEN Empty ELSE s[a]
    BY DEF LastOf
  <1>2. Len(s) \in Nat /\ A \in SUBSET (1 .. Len(s))
    BY LenProperties
  <1>3. A # {} => a \in A
    BY <1>2, GreatestExists
  <1>4. A # {} => s[a].kind = kind
    BY <1>3
  <1> HIDE DEF A, a
  <1> QED
    BY <1>1, <1>4

(* An empty cache adds nothing, a full one its packet.                     *)
LEMMA LastOfSpecial ==
  ASSUME NEW s \in Seq(Packets), NEW x \in Packets \union {Empty}, NEW kind, kind # "none"
  PROVE  LastOf(kind, s \o Special(x)) = IF x.kind = kind THEN x ELSE LastOf(kind, s)
  <1>1. CASE x = Empty
    <2>1. s \o Special(x) = s
      BY <1>1, ConcatEmptySeq DEF Special
    <2>2. x.kind # kind
      BY <1>1 DEF Empty
    <2> QED
      BY <2>1, <2>2
  <1>2. CASE x # Empty
    <2>1. x \in Packets /\ s \o Special(x) = Append(s, x)
      BY <1>2, AppendIsConcat DEF Special
    <2> QED
      BY <2>1, LastOfAppend
  <1> QED
    BY <1>1, <1>2

(* The headers a fresh writer is left with are those of the cache, and the *)
(* cache sends no frame.                                                   *)
LEMMA CacheSends ==
  ASSUME TypeOK, LoopInv
  PROVE  /\ LastOf("vseq", CachedPackets) = IF videoSeq.kind = "vseq" THEN videoSeq ELSE Empty
         /\ LastOf("aseq", CachedPackets) = IF audioSeq.kind = "aseq" THEN audioSeq ELSE Empty
         /\ \A i \in DOMAIN CachedPackets :
               CachedPackets[i] \in {metadata, videoSeq, audioSeq}
  <1> DEFINE P == Packets \union {Empty}
             m == Special(metadata)
             v == Special(videoSeq)
             a == Special(audioSeq)
  <1>1. metadata \in P /\ videoSeq \in P /\ audioSeq \in P
    BY DEF LoopInv
  <1>2. m \in Seq(Packets) /\ v \in Seq(Packets) /\ a \in Seq(Packets)
    BY <1>1 DEF Special
  <1>3. m \o v \in Seq(Packets) /\ CachedPackets = (m \o v) \o a
    BY <1>2, ConcatProperties DEF CachedPackets
  <1>4. \A kind \in {"vseq", "aseq"} : LastOf(kind, <<>>) = Empty
    BY DEF LastOf
  <1>5. /\ metadata.kind # "vseq" /\ metadata.kind # "aseq"
        /\ audioSeq.kind # "vseq" /\ videoSeq.kind # "aseq"
    BY DEF TypeOK
  <1>6. \A kind \in {"vseq", "aseq"} : LastOf(kind, m) = Empty
    <2>1. <<>> \o m = m
      BY <1>2, ConcatEmptySeq
    <2>2. <<>> \in Seq(Packets)
      OBVIOUS
    <2>3. LastOf("vseq", <<>> \o m) = LastOf("vseq", <<>>)
      BY <1>1, <1>5, <2>2, LastOfSpecial
    <2>4. LastOf("aseq", <<>> \o m) = LastOf("aseq", <<>>)
      BY <1>1, <1>5, <2>2, LastOfSpecial
    <2> QED
      BY <1>4, <2>1, <2>3, <2>4
  <1>7. /\ LastOf("vseq", m \o v) = IF videoSeq.kind = "vseq" THEN videoSeq ELSE LastOf("vseq", m)
        /\ LastOf("aseq", m \o v) = LastOf("aseq", m)
    BY <1>1, <1>2, <1>5, LastOfSpecial
  <1>8. /\ LastOf("vseq", (m \o v) \o a) = LastOf("vseq", m \o v)
        /\ LastOf("aseq", (m \o v) \o a) =
              IF audioSeq.kind = "aseq" THEN audioSeq ELSE LastOf("aseq", m \o v)
    <2> DEFINE mv == m \o v
    <2>1. mv \in Seq(Packets)
      BY <1>3
    <2> HIDE DEF mv
    <2>2. LastOf("vseq", mv \o Special(audioSeq)) = LastOf("vseq", mv)
      BY <1>1, <1>5, <2>1, LastOfSpecial
    <2>3. LastOf("aseq", mv \o Special(audioSeq)) =
             IF audioSeq.kind = "aseq" THEN audioSeq ELSE LastOf("aseq", mv)
      BY <1>1, <2>1, LastOfSpecial
    <2> QED
      BY <2>2, <2>3, Zenon DEF mv
  <1>9. ASSUME NEW i \in DOMAIN CachedPackets
        PROVE  CachedPackets[i] \in {metadata, videoSeq, audioSeq}
    <2>1. \A x \in P : Len(Special(x)) \in 0 .. 1 /\ (Len(Special(x)) = 1 => Special(x)[1] = x)
      BY DEF Special
    <2>2. /\ Len(m) \in 0 .. 1 /\ (Len(m) = 1 => m[1] = metadata)
          /\ Len(v) \in 0 .. 1 /\ (Len(v) = 1 => v[1] = videoSeq)
          /\ Len(a) \in 0 .. 1 /\ (Len(a) = 1 => a[1] = audioSeq)
      BY <1>1, <2>1
    <2> HIDE DEF m, v, a
    <2>3. /\ Len(m \o v) = Len(m) + Len(v)
          /\ \A j \in 1 .. Len(m) + Len(v) :
                (m \o v)[j] = IF j <= Len(m) THEN m[j] ELSE v[j - Len(m)]
      BY <1>2, ConcatProperties
    <2>4. \A j \in 1 .. Len(m \o v) : (m \o v)[j] \in {metadata, videoSeq}
      BY <2>2, <2>3
    <2>5. /\ CachedPackets \in Seq(Packets) /\ Len(CachedPackets) = Len(m \o v) + Len(a)
          /\ \A j \in 1 .. Len(m \o v) + Len(a) :
                CachedPackets[j] = IF j <= Len(m \o v) THEN (m \o v)[j] ELSE a[j - Len(m \o v)]
      BY <1>2, <1>3, ConcatProperties
    <2>6. DOMAIN CachedPackets = 1 .. Len(m \o v) + Len(a)
      BY <2>5, LenProperties
    <2> QED
      BY <2>2, <2>3, <2>4, <2>5, <2>6
  <1> QED
    BY <1>3, <1>6, <1>7, <1>8, <1>9

-----------------------------------------------------------------------------
(* No writer, and no cache, holds a packet that has not been read.         *)
KnownInv ==
    /\ \A w \in Writers : \A i \in DOMAIN got[w] : got[w][i].id <= Len(input)
    /\ \A x \in {metadata, videoSeq, audioSeq} : x.id <= Len(input)

(* Unless a stale header has been used, the one in hand is not stale.      *)
FreshHeader ==
    pc = "cache" /\ ~garbled => /\ ~(Current.kind = "short" /\ hdr = "vseq")
                               /\ ~(Current.kind = "shortAudio" /\ hdr = "aseq")

(* The caches hold the headers in force at the packet they were last given *)
(* and so does a writer, whose last packet is that one or the one before.  *)
CacheInv ==
    ~garbled => /\ videoSeq = LastOf("vseq", SubSeq(input, 1, Cached))
                /\ audioSeq = LastOf("aseq", SubSeq(input, 1, Cached))
SentInv ==
    ~garbled => \A w \in Writers : state[w] = "init" =>
        \A kind \in {"vseq", "aseq"} :
            LastOf(kind, got[w]) = LastOf(kind, SubSeq(input, 1, Upto(w)))

(* The inductive invariant behind HeaderInForce, beside FanInv.            *)
HeaderInv == KnownInv /\ FreshHeader /\ CacheInv /\ SentInv /\ HeaderInForce

(* What a Read adds: one packet of kind k, numbered as it comes.           *)
LEMMA ReadAppends ==
  ASSUME FanInv, NEW k \in Kinds, Read(k)
  PROVE  /\ input \in Seq(Packets) /\ Len(input) \in Nat
         /\ Len(input') = Len(input) + 1
         /\ Current'.kind = k
         /\ \A n \in 0 .. Len(input) : SubSeq(input', 1, n) = SubSeq(input, 1, n)
  <1> DEFINE e == [id |-> Len(input) + 1, kind |-> k]
  <1>1. input \in Seq(Packets) /\ Len(input) \in Nat
    BY LenProperties DEF FanInv, TypeOK
  <1>2. e \in Packets
    BY <1>1, FanoutAssumption DEF Read, Packets
  <1>3. input' = Append(input, e) /\ e.kind = k
    BY DEF Read
  <1> HIDE DEF e
  <1>4. Len(input') = Len(input) + 1 /\ input'[Len(input) + 1] = e
    BY <1>1, <1>2, <1>3, AppendProperties
  <1>5. ASSUME NEW n \in 0 .. Len(input)
        PROVE  SubSeq(input', 1, n) = SubSeq(input, 1, n)
    <2>1. n \in Int /\ n <= Len(input) /\ 1 \in Nat \ {0}
      BY <1>1
    <2>2. SubSeq(Append(input, e), 1, n) = SubSeq(input, 1, n)
      BY <1>1, <1>2, <2>1, SubSeqOfAppend, Zenon
    <2> QED
      BY <1>3, <2>2
  <1> QED
    BY <1>1, <1>3, <1>4, <1>5 DEF Current

(* The header in force at the packet in hand is that packet, or the one    *)
(* that was in force before it.                                            *)
LEMMA InForceNow ==
  ASSUME FanInv, pc # "read", NEW kind
  PROVE  LastOf(kind, SubSeq(input, 1, Len(input)))
            = IF Current.kind = kind THEN Current
              ELSE LastOf(kind, SubSeq(input, 1, Len(input) - 1))
  <1>1. /\ input \in Seq(Packets) /\ Len(input) \in Nat /\ Len(input) > 0
        /\ Current \in Packets
    BY CurrentType, LenProperties DEF FanInv, TypeOK
  <1>2. /\ 1 \in Nat \ {0} /\ 1 <= Len(input) /\ Len(input) <= Len(input)
        /\ Len(input) - 1 \in Int
    BY <1>1
  <1>3. SubSeq(input, 1, Len(input)) = Append(SubSeq(input, 1, Len(input) - 1), Current)
    BY <1>1, <1>2, SubSeqGrow, Zenon DEF Current
  <1>4. \A i \in 1 .. Len(input) - 1 : input[i] \in Packets
    BY <1>1, ElementOfSeq
  <1>5. SubSeq(input, 1, Len(input) - 1) \in Seq(Packets)
    BY <1>2, <1>4, SubSeqProperties
  <1>6. LastOf(kind, Append(SubSeq(input, 1, Len(input) - 1), Current))
            = IF Current.kind = kind THEN Current
              ELSE LastOf(kind, SubSeq(input, 1, Len(input) - 1))
    BY <1>1, <1>5, LastOfAppend, Zenon
  <1> QED
    BY <1>3, <1>6, Zenon

(* A packet is delivered after it was read.                                *)
LEMMA KnownKept ==
  ASSUME FanInv, HeaderInv, Next PROVE KnownInv'
  <1> USE DEF cacheVars, writerVars
  <1>0. Len(input) \in Nat /\ got \in [Writers -> Seq(Packets)]
    BY LenProperties DEF FanInv, TypeOK
  <1>01. KnownInv
    BY DEF HeaderInv
  <1>1. ASSUME NEW k \in Kinds, Read(k) PROVE KnownInv'
    <2>1. /\ Len(input') = Len(input) + 1
          /\ UNCHANGED <<got, metadata, videoSeq, audioSeq>>
      BY <1>1, ReadAppends DEF Read
    <2>2. ASSUME NEW w \in Writers, NEW i \in DOMAIN got[w]
          PROVE  got[w][i].id <= Len(input')
      <3>1. got[w][i] \in Packets
        BY <1>0, LenProperties, ElementOfSeq
      <3>2. got[w][i].id \in Int
        BY <3>1, FanoutAssumption DEF Packets
      <3> QED
        BY <1>0, <1>01, <2>1, <3>2 DEF KnownInv
    <2>3. \A x \in Packets \union {Empty} : x.id \in Int
      BY FanoutAssumption DEF Packets, Empty
    <2>4. \A x \in {metadata, videoSeq, audioSeq} : x.id <= Len(input')
      BY <1>0, <1>01, <2>1, <2>3 DEF KnownInv, FanInv, LoopInv
    <2> QED
      BY <2>1, <2>2, <2>4 DEF KnownInv
  <1>2. CASE CacheWrite
    <2>1. Current.id = Len(input)
      BY <1>2, CurrentType DEF CacheWrite, FanInv
    <2>2. \A x \in {metadata', videoSeq', audioSeq'} : x \in {metadata, videoSeq, audioSeq, Current}
      BY <1>2 DEF CacheWrite
    <2> QED
      BY <1>0, <1>2, <1>01, <2>1, <2>2 DEF CacheWrite, KnownInv
  <1>3. ASSUME NEW w \in Writers, SendCache(w) PROVE KnownInv'
    <2>1. CachedPackets \in Seq(Packets) /\ got[w] = <<>>
      BY <1>3, CachedPacketsType DEF SendCache, FanInv, JoinInv, Joined
    <2>2. got'[w] = CachedPackets
      BY <1>0, <1>3, <2>1, ConcatEmptySeq DEF SendCache
    <2>3. \A i \in DOMAIN CachedPackets : CachedPackets[i].id <= Len(input)
      BY <1>01, CacheSends DEF KnownInv, FanInv
    <2>4. \A v \in Writers \ {w} : got'[v] = got[v]
      BY <1>0, <1>3 DEF SendCache
    <2> QED
      BY <1>01, <1>3, <2>2, <2>3, <2>4 DEF SendCache, KnownInv
  <1>4. ASSUME NEW w \in Writers, SendPacket(w) PROVE KnownInv'
    <2>1. Current \in Packets /\ Current.id = Len(input)
      BY <1>4, CurrentType DEF SendPacket, FanInv
    <2>2. got'[w] = Append(got[w], Current) /\ \A v \in Writers \ {w} : got'[v] = got[v]
      BY <1>0, <1>4 DEF SendPacket
    <2>3. /\ got'[w] \in Seq(Packets) /\ Len(got'[w]) = Len(got[w]) + 1
          /\ Len(got[w]) \in Nat
          /\ \A i \in 1 .. Len(got[w]) : got'[w][i] = got[w][i]
          /\ got'[w][Len(got[w]) + 1] = Current
      BY <1>0, <2>1, <2>2, AppendProperties, LenProperties
    <2>4. DOMAIN got'[w] = 1 .. Len(got[w]) + 1 /\ DOMAIN got[w] = 1 .. Len(got[w])
      BY <1>0, <2>3, LenProperties
    <2>5. ASSUME NEW i \in DOMAIN got'[w] PROVE got'[w][i].id <= Len(input)
      <3>1. i \in 1 .. Len(got[w]) \/ i = Len(got[w]) + 1
        BY <2>3, <2>4
      <3> QED
        BY <1>0, <1>01, <2>1, <2>3, <2>4, <3>1 DEF KnownInv
    <2> QED
      BY <1>01, <1>4, <2>2, <2>5 DEF SendPacket, KnownInv
  <1>5. ASSUME NEW w \in Writers, SendFails(w) \/ AddWriter(w) \/ WriterCloses(w)
        PROVE  KnownInv'
    <2>1. UNCHANGED <<input, got, metadata, videoSeq, audioSeq>>
      BY <1>5 DEF SendFails, AddWriter, WriterCloses
    <2> QED
      BY <1>01, <2>1 DEF KnownInv
  <1>6. CASE Delivered
    BY <1>01, <1>6 DEF Delivered, KnownInv
  <1> QED
    BY <1>1, <1>2, <1>3, <1>4, <1>5, <1>6 DEF Next

(* Only Read changes the header, and it notes a stale one.                 *)
LEMMA FreshKept ==
  ASSUME FanInv, HeaderInv, Next PROVE FreshHeader'
  <1> USE DEF cacheVars, writerVars
  <1>1. ASSUME NEW k \in Kinds, Read(k) PROVE FreshHeader'
    <2>1. Current'.kind = k
      BY <1>1, ReadAppends
    <2>2. garbled \in BOOLEAN
      BY DEF FanInv, TypeOK
    <2> QED
      BY <1>1, <2>1, <2>2 DEF Read, FreshHeader, Unparsed
  <1>2. ASSUME NEW w \in Writers,
               \/ SendCache(w) \/ SendPacket(w) \/ SendFails(w)
               \/ AddWriter(w) \/ WriterCloses(w)
        PROVE  FreshHeader'
    <2>1. UNCHANGED <<input, hdr, pc, garbled>>
      BY <1>2 DEF SendCache, SendPacket, SendFails, AddWriter, WriterCloses
    <2> QED
      BY <2>1 DEF FreshHeader, HeaderInv, Current
  <1>3. CASE CacheWrite \/ Delivered
    BY <1>3 DEF CacheWrite, Delivered, FreshHeader
  <1> QED
    BY <1>1, <1>2, <1>3 DEF Next

(* CacheWrite stores the header that comes into force with the packet.     *)
LEMMA CacheKept ==
  ASSUME FanInv, HeaderInv, Next PROVE CacheInv'
  <1> USE DEF cacheVars, writerVars
  <1>0. Len(input) \in Nat /\ garbled \in BOOLEAN
    BY LenProperties DEF FanInv, TypeOK
  <1>01. CacheInv
    BY DEF HeaderInv
  <1>1. ASSUME NEW k \in Kinds, Read(k) PROVE CacheInv'
    <2>1. Cached' = Len(input) /\ Cached = Len(input)
      BY <1>0, <1>1, ReadAppends DEF Read, Cached
    <2>2. SubSeq(input', 1, Len(input)) = SubSeq(input, 1, Len(input))
      BY <1>0, <1>1, ReadAppends
    <2>3. UNCHANGED <<videoSeq, audioSeq>> /\ (~garbled' => ~garbled)
      BY <1>1 DEF Read
    <2> QED
      BY <1>01, <2>1, <2>2, <2>3 DEF CacheInv
  <1>2. CASE CacheWrite
    <2>1. Cached = Len(input) - 1 /\ Cached' = Len(input) /\ input' = input
      BY <1>2 DEF CacheWrite, Cached
    <2>2. \A kind : LastOf(kind, SubSeq(input, 1, Len(input)))
                       = IF Current.kind = kind THEN Current
                         ELSE LastOf(kind, SubSeq(input, 1, Len(input) - 1))
      BY <1>2, InForceNow DEF CacheWrite
    <2>3. ~garbled => /\ VideoSeqNow <=> Current.kind = "vseq"
                      /\ AudioSeqNow <=> Current.kind = "aseq"
      BY <1>2 DEF CacheWrite, VideoSeqNow, AudioSeqNow, IsVideo, IsAudio, FanInv,
                  ParseInv, HeaderInv, FreshHeader, Unparsed
    <2>4. /\ videoSeq' = IF VideoSeqNow THEN Current ELSE videoSeq
          /\ audioSeq' = IF AudioSeqNow THEN Current ELSE audioSeq
          /\ garbled' = garbled
      BY <1>2 DEF CacheWrite
    <2> QED
      BY <1>01, <2>1, <2>2, <2>3, <2>4 DEF CacheInv
  <1>3. ASSUME NEW w \in Writers,
               \/ SendCache(w) \/ SendPacket(w) \/ SendFails(w)
               \/ AddWriter(w) \/ WriterCloses(w)
        PROVE  CacheInv'
    <2>1. UNCHANGED <<input, pc, garbled, videoSeq, audioSeq>>
      BY <1>3 DEF SendCache, SendPacket, SendFails, AddWriter, WriterCloses
    <2> QED
      BY <1>01, <2>1 DEF CacheInv, Cached
  <1>4. CASE Delivered
    BY <1>01, <1>4 DEF Delivered, CacheInv, Cached
  <1> QED
    BY <1>1, <1>2, <1>3, <1>4 DEF Next

(* A writer is left by the cache, and by each packet, with the headers in  *)
(* force at the packet in hand.                                            *)
LEMMA SentKept ==
  ASSUME FanInv, HeaderInv, Next PROVE SentInv'
  <1> USE DEF cacheVars, writerVars
  <1> DEFINE Up(w) == \A kind \in {"vseq", "aseq"} :
                         LastOf(kind, got[w]) = LastOf(kind, SubSeq(input, 1, Upto(w)))
  <1>0. /\ Len(input) \in Nat /\ garbled \in BOOLEAN
        /\ got \in [Writers -> Seq(Packets)] /\ DOMAIN state = Writers
    BY LenProperties DEF FanInv, TypeOK
  <1>01. ~garbled => \A w \in Writers : state[w] = "init" => Up(w)
    BY DEF HeaderInv, SentInv
  <1>02. SUFFICES ASSUME ~garbled', NEW v \in Writers, state'[v] = "init" PROVE Up(v)'
    BY DEF SentInv
  <1>1. ASSUME NEW k \in Kinds, Read(k) PROVE Up(v)'
    <2>1. Upto(v)' = Len(input) /\ Upto(v) = Len(input)
      BY <1>0, <1>1, ReadAppends DEF Read, Upto, FanInv, LoopInv
    <2>2. SubSeq(input', 1, Len(input)) = SubSeq(input, 1, Len(input))
      BY <1>0, <1>1, ReadAppends
    <2>3. UNCHANGED <<got, state>> /\ ~garbled
      BY <1>1, <1>02 DEF Read
    <2> QED
      BY <1>01, <1>02, <2>1, <2>2, <2>3
  <1>2. CASE CacheWrite
    <2>1. UNCHANGED <<got, state, input, garbled>>
      BY <1>2 DEF CacheWrite
    <2>2. Upto(v)' = Upto(v)
      BY <1>02, <1>2, <2>1 DEF CacheWrite, Upto
    <2> QED
      BY <1>01, <1>02, <2>1, <2>2
  <1>3. ASSUME NEW w \in Writers, SendCache(w) PROVE Up(v)'
    <2>1. UNCHANGED <<pc, input, garbled>> /\ Upto(w)' = Len(input) /\ Cached = Len(input)
      BY <1>3 DEF SendCache, Upto, Cached
    <2>2. CASE v = w
      <3>1. CachedPackets \in Seq(Packets) /\ got[w] = <<>>
        BY <1>3, CachedPacketsType DEF SendCache, FanInv, JoinInv, Joined
      <3>2. got'[w] = CachedPackets
        BY <1>0, <1>3, <3>1, ConcatEmptySeq DEF SendCache
      <3>3. /\ videoSeq = LastOf("vseq", SubSeq(input, 1, Len(input)))
            /\ audioSeq = LastOf("aseq", SubSeq(input, 1, Len(input)))
        BY <1>02, <2>1 DEF HeaderInv, CacheInv
      <3>4. input \in Seq(Packets) /\ SubSeq(input, 1, Len(input)) = input
        BY SubSeqFull DEF FanInv, TypeOK
      <3>5. /\ videoSeq = Empty \/ videoSeq.kind = "vseq"
            /\ audioSeq = Empty \/ audioSeq.kind = "aseq"
        BY <3>3, <3>4, LastOfKind
      <3>6. /\ LastOf("vseq", CachedPackets) = videoSeq
            /\ LastOf("aseq", CachedPackets) = audioSeq
        BY <3>5, CacheSends DEF FanInv
      <3> QED
        BY <2>1, <2>2, <3>2, <3>3, <3>6
    <2>3. CASE v # w
      <3>1. got'[v] = got[v] /\ state'[v] = state[v] /\ Upto(v)' = Upto(v)
        BY <1>0, <1>3, <2>3 DEF SendCache, Upto
      <3> QED
        BY <1>01, <1>02, <2>1, <3>1
    <2> QED
      BY <2>2, <2>3
  <1>4. ASSUME NEW w \in Writers, SendPacket(w) PROVE Up(v)'
    <2>1. UNCHANGED <<pc, input, garbled, state>>
      BY <1>4 DEF SendPacket
    <2>2. CASE v = w
      <3>1. Current \in Packets /\ got[w] \in Seq(Packets)
        BY <1>0, <1>4, CurrentType DEF SendPacket, FanInv
      <3>2. /\ Upto(w)' = Len(input) /\ Upto(w) = Len(input) - 1
            /\ got'[w] = Append(got[w], Current)
        BY <1>0, <1>4 DEF SendPacket, Upto
      <3>3. \A kind : LastOf(kind, SubSeq(input, 1, Len(input)))
                         = IF Current.kind = kind THEN Current
                           ELSE LastOf(kind, SubSeq(input, 1, Len(input) - 1))
        BY <1>4, InForceNow DEF SendPacket
      <3>4. \A kind : LastOf(kind, got'[w])
                         = IF Current.kind = kind THEN Current ELSE LastOf(kind, got[w])
        BY <3>1, <3>2, LastOfAppend
      <3>5. \A kind \in {"vseq", "aseq"} :
               LastOf(kind, got[w]) = LastOf(kind, SubSeq(input, 1, Len(input) - 1))
        BY <1>01, <1>02, <2>1, <2>2, <3>2
      <3> QED
        BY <2>1, <2>2, <3>2, <3>3, <3>4, <3>5
    <2>3. CASE v # w
      <3>1. got'[v] = got[v] /\ Upto(v)' = Upto(v)
        BY <1>0, <1>4, <2>3 DEF SendPacket, Upto
      <3> QED
        BY <1>01, <1>02, <2>1, <3>1
    <2> QED
      BY <2>2, <2>3
  <1>5. ASSUME NEW w \in Writers, SendFails(w) \/ AddWriter(w) \/ WriterCloses(w)
        PROVE  Up(v)'
    <2>1. UNCHANGED <<pc, input, garbled, got>>
      BY <1>5 DEF SendFails, AddWriter, WriterCloses
    <2>2. state[v] = "init" /\ Upto(v)' = Upto(v)
      BY <1>0, <1>02, <1>5 DEF SendFails, AddWriter, WriterCloses, Upto
    <2> QED
      BY <1>01, <1>02, <2>1, <2>2
  <1>6. CASE Delivered
    <2>1. UNCHANGED <<input, garbled, got, state>> /\ Upto(v)' = Upto(v)
      BY <1>6 DEF Delivered, Upto
    <2> QED
      BY <1>01, <1>02, <2>1
  <1> QED
    BY <1>1, <1>2, <1>3, <1>4, <1>5, <1>6 DEF Next

(* What HeaderInForce says of the packet at one place of a writer.         *)
RightHeader(sent, read, i) ==
    /\ sent[i].kind \in {"key", "inter"} =>
          LastOf("vseq", SubSeq(sent, 1, i - 1)) = LastOf("vseq", SubSeq(read, 1, sent[i].id))
    /\ sent[i].kind = "audio" =>
          LastOf("aseq", SubSeq(sent, 1, i - 1)) = LastOf("aseq", SubSeq(read, 1, sent[i].id))

(* A frame is sent only by SendPacket, after the header in force at it;    *)
(* what was sent before, and what had been read by then, no longer change. *)
LEMMA InForceKept ==
  ASSUME FanInv, HeaderInv, Next PROVE HeaderInForce'
  <1> USE DEF cacheVars, writerVars
  <1>0. /\ Len(input) \in Nat /\ garbled \in BOOLEAN
        /\ got \in [Writers -> Seq(Packets)]
    BY LenProperties DEF FanInv, TypeOK
  <1>01. ~garbled => \A w \in Writers : \A i \in DOMAIN got[w] : RightHeader(got[w], input, i)
    BY DEF HeaderInv, HeaderInForce, RightHeader
  <1>02. SUFFICES ASSUME ~garbled', NEW v \in Writers, NEW i \in DOMAIN got'[v]
                  PROVE  RightHeader(got'[v], input', i)
    BY DEF HeaderInForce, RightHeader
  <1>1. ASSUME NEW k \in Kinds, Read(k) PROVE RightHeader(got'[v], input', i)
    <2>1. got' = got /\ ~garbled
      BY <1>02, <1>1 DEF Read
    <2>2. got[v][i] \in Packets /\ got[v][i].id <= Len(input)
      BY <1>0, <2>1, LenProperties, ElementOfSeq DEF HeaderInv, KnownInv
    <2>3. got[v][i].id \in 0 .. Len(input)
      BY <1>0, <2>2, FanoutAssumption DEF Packets
    <2>4. SubSeq(input', 1, got[v][i].id) = SubSeq(input, 1, got[v][i].id)
      BY <1>1, <2>3, ReadAppends
    <2> QED
      BY <1>01, <2>1, <2>4 DEF RightHeader
  <1>2. ASSUME NEW w \in Writers, SendCache(w) PROVE RightHeader(got'[v], input', i)
    <2>1. UNCHANGED <<input, garbled>>
      BY <1>2 DEF SendCache
    <2>2. CASE v = w
      <3>1. CachedPackets \in Seq(Packets) /\ got[w] = <<>>
        BY <1>2, CachedPacketsType DEF SendCache, FanInv, JoinInv, Joined
      <3>2. got'[w] = CachedPackets
        BY <1>0, <1>2, <3>1, ConcatEmptySeq DEF SendCache
      <3>3. CachedPackets[i] \in {metadata, videoSeq, audioSeq}
        BY <2>2, <3>2, CacheSends DEF FanInv
      <3>4. CachedPackets[i].kind \notin {"key", "inter", "audio"}
        BY <3>3 DEF FanInv, TypeOK
      <3> QED
        BY <2>2, <3>2, <3>4 DEF RightHeader
    <2>3. CASE v # w
      <3>1. got'[v] = got[v]
        BY <1>0, <1>2, <2>3 DEF SendCache
      <3> QED
        BY <1>01, <1>02, <2>1, <3>1
    <2> QED
      BY <2>2, <2>3
  <1>3. ASSUME NEW w \in Writers, SendPacket(w) PROVE RightHeader(got'[v], input', i)
    <2>1. UNCHANGED <<input, garbled, pc, state>> /\ pc # "read"
      BY <1>3 DEF SendPacket
    <2>2. CASE v # w
      <3>1. got'[v] = got[v]
        BY <1>0, <1>3, <2>2 DEF SendPacket
      <3> QED
        BY <1>01, <1>02, <2>1, <3>1
    <2>3. CASE v = w
      <3> DEFINE g == got[w]
                 h == got'[w]
      <3>1. Current \in Packets /\ g \in Seq(Packets) /\ Current.id = Len(input)
        BY <1>0, <1>3, <2>1, CurrentType DEF FanInv
      <3>2. h = Append(g, Current)
        BY <1>0, <1>3 DEF SendPacket
      <3>3. /\ h \in Seq(Packets) /\ Len(h) = Len(g) + 1 /\ Len(g) \in Nat
            /\ \A j \in 1 .. Len(g) : h[j] = g[j]
            /\ h[Len(g) + 1] = Current
        BY <3>1, <3>2, AppendProperties, LenProperties
      <3>4. DOMAIN h = 1 .. Len(g) + 1 /\ DOMAIN g = 1 .. Len(g)
        BY <3>1, <3>3, LenProperties
      <3>5. ASSUME NEW n \in 0 .. Len(g) PROVE SubSeq(h, 1, n) = SubSeq(g, 1, n)
        <4>1. n \in Int /\ n <= Len(g) /\ 1 \in Nat \ {0}
          BY <3>3
        <4>2. SubSeq(Append(g, Current), 1, n) = SubSeq(g, 1, n)
          BY <3>1, <4>1, SubSeqOfAppend, Zenon
        <4> QED
          BY <3>2, <4>2, Zenon
      <3>6. RightHeader(g, input, i) \/ i \notin DOMAIN g
        BY <1>01, <1>02, <2>1
      <3>7. \A kind \in {"vseq", "aseq"} :
               LastOf(kind, g) = LastOf(kind, SubSeq(input, 1, Len(input) - 1))
        <4>1. state[w] = "init" /\ Upto(w) = Len(input) - 1
          BY <1>3 DEF SendPacket, Upto
        <4> QED
          BY <1>02, <2>1, <4>1 DEF HeaderInv, SentInv
      <3>8. \A kind : LastOf(kind, SubSeq(input, 1, Len(input)))
                         = IF Current.kind = kind THEN Current
                           ELSE LastOf(kind, SubSeq(input, 1, Len(input) - 1))
        BY <2>1, InForceNow
      <3>9. i \in DOMAIN h /\ input' = input
        BY <1>02, <2>1, <2>3
      <3> HIDE DEF g, h
      <3>10. CASE i \in 1 .. Len(g)
        <4>1. h[i] = g[i] /\ SubSeq(h, 1, i - 1) = SubSeq(g, 1, i - 1)
          BY <3>3, <3>5, <3>10
        <4>2. RightHeader(g, input, i)
          BY <3>4, <3>6, <3>10
        <4> QED
          BY <2>1, <2>3, <3>9, <4>1, <4>2 DEF RightHeader, h
      <3>11. CASE i = Len(g) + 1
        <4>1. h[i] = Current /\ i - 1 = Len(g)
          BY <3>3, <3>11
        <4>2. SubSeq(h, 1, i - 1) = g
          BY <3>1, <3>3, <3>5, <4>1, SubSeqFull
        <4> QED
          BY <2>3, <3>1, <3>7, <3>8, <3>9, <4>1, <4>2 DEF RightHeader, h
      <3> QED
        BY <3>3, <3>4, <3>9, <3>10, <3>11
    <2> QED
      BY <2>2, <2>3
  <1>4. ASSUME NEW w \in Writers, SendFails(w) \/ AddWriter(w) \/ WriterCloses(w)
        PROVE  RightHeader(got'[v], input', i)
    <2>1. UNCHANGED <<input, garbled, got>>
      BY <1>4 DEF SendFails, AddWriter, WriterCloses
    <2> QED
      BY <1>01, <1>02, <2>1
  <1>5. CASE CacheWrite \/ Delivered
    <2>1. UNCHANGED <<input, garbled, got>>
      BY <1>5 DEF CacheWrite, Delivered
    <2> QED
      BY <1>01, <1>02, <2>1
  <1> QED
    BY <1>1, <1>2, <1>3, <1>4, <1>5 DEF Next

(* Every frame a writer is sent follows the sequence header that was in    *)
(* force when the publisher sent it, however joins, leaves, deliveries and *)
(* changes of header interleave (unless a stale header was taken for one). *)
THEOREM FramesFollowHeaders == Spec => []HeaderInForce
  <1>1. ASSUME Init PROVE HeaderInv
    <2>1. /\ input = <<>> /\ Len(input) = 0 /\ pc = "read"
          /\ \A w \in Writers : got[w] = <<>> /\ state[w] = "out"
          /\ metadata = Empty /\ videoSeq = Empty /\ audioSeq = Empty
      BY <1>1 DEF Init
    <2>2. DOMAIN <<>> = {}
      OBVIOUS
    <2>3. SubSeq(input, 1, Cached) = <<>>
      BY <2>1, SubSeqEmpty DEF Cached
    <2>4. \A kind : LastOf(kind, <<>>) = Empty
      BY <2>2 DEF LastOf
    <2>5. KnownInv /\ FreshHeader
      BY <2>1, <2>2 DEF KnownInv, FreshHeader, Empty
    <2>6. CacheInv /\ SentInv
      BY <2>1, <2>3, <2>4 DEF CacheInv, SentInv
    <2>7. HeaderInForce
      BY <2>1, <2>2 DEF HeaderInForce
    <2> QED
      BY <2>5, <2>6, <2>7 DEF HeaderInv
  <1>2. FanInv /\ HeaderInv /\ [Next]_vars => HeaderInv'
    <2>1. ASSUME FanInv, HeaderInv, Next PROVE HeaderInv'
      BY <2>1, KnownKept, FreshKept, CacheKept, SentKept, InForceKept DEF HeaderInv
    <2>2. ASSUME HeaderInv, UNCHANGED vars PROVE HeaderInv'
      <3>1. UNCHANGED <<pc, input, hdr, metadata, videoSeq, audioSeq, state, todo, got,
                        garbled>>
        BY <2>2 DEF vars
      <3>2. KnownInv' /\ FreshHeader'
        BY <2>2, <3>1 DEF HeaderInv, KnownInv, FreshHeader, Current
      <3>3. CacheInv' /\ SentInv'
        BY <2>2, <3>1 DEF HeaderInv, CacheInv, SentInv, Cached, Upto
      <3>4. HeaderInForce'
        BY <2>2, <3>1 DEF HeaderInv, HeaderInForce
      <3> QED
        BY <3>2, <3>3, <3>4 DEF HeaderInv
    <2> QED
      BY <2>1, <2>2
  <1>3. HeaderInv => HeaderInForce
    BY DEF HeaderInv
  <1> QED
    BY <1>1, <1>2, <1>3, FanInvariant, PTL DEF Spec

=============================================================================
