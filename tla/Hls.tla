-------------------------------- MODULE Hls --------------------------------
(***************************************************************************)
(* One HLS source (protocol/hls): a transport writes packets on its queue, *)
(* the SendPacket goroutine cuts them into segments at key frames, the     *)
(* playlist offers the last few, Close and checkStop end it.  A packet is  *)
(* [id, kind, ts]: "key" and "inter" video frames, "audio" frames,         *)
(* "head" and "meta" for what is read and not muxed (sequence headers;     *)
(* metadata; frames of other codecs are like one or the other) and "bad"   *)
(* for what Demux refuses, which keeps the header of the packet before it. *)
(***************************************************************************)
EXTENDS Integers, Sequences, FiniteSets, SequencesExt

CONSTANTS
    QueueCap,    \* maxQueueNum, 512 in the code
    HighMark,    \* maxQueueNum - 24: from here on Write drops
    Rounds,      \* maxQueueNum - 84: packets DropPacket looks at
    Duration,    \* of a segment, 3000 ms in the code
    MaxFrames,   \* cacheMaxFrames, 6 in the code
    Window,      \* maxTSCacheNum, 3 in the code
    KeepAfterEnd,\* the configuration's hls_keep_after_end
    Steps        \* bound: what the n-th packet may be, <<kind, time since the last>>

Kinds == {"key", "inter", "audio", "head", "meta", "bad"}

ASSUME HlsAssumption ==
    /\ QueueCap \in Nat \ {0} /\ HighMark \in 1 .. QueueCap /\ Rounds \in 1 .. QueueCap
    /\ MaxFrames \in Nat \ {0} /\ Window \in Nat \ {0}
    /\ Duration \in Nat \ {0} /\ KeepAfterEnd \in BOOLEAN
    /\ Steps \in Seq(SUBSET (Kinds \X Int))

Video(p) == p.kind \in {"key", "inter"}

VARIABLES
    queue, qclosed,
    closed,     \* the source's flag
    buffers,    \* TRUE until cleanup sets the buffers and tsCache to nil
    wpc, round, \* the transport: "idle", "drop" in DropPacket, "gone"
    written,    \* packets it has tried to write
    now,        \* the time stamp of the last of them
    spc, p,     \* the SendPacket goroutine and the packet it holds
    segment,    \* btswriter: the frames in it, or <<>> while there is none
    cache,      \* the audio frames in the audioCache
    first, last,\* stat: first time stamp, -1 when it is not set, and last
    seq, ll, lm,\* segments so far; tsCache: list of names, name -> segment number
    name,       \* the second of the last file name
    cpc,        \* Close: "no", "closing" (queue closed), "nil", "done"
    muxed,      \* history: the frames given to tsMux
    segments,   \* history: the contents of every segment that was cut
    collided    \* history: two segments got the same file name

segVars == <<segment, cache, first, last, seq, ll, lm, name, muxed, segments, collided>>
wVars   == <<wpc, round, written, now>>
endVars == <<qclosed, buffers, cpc>>
vars == <<queue, closed, spc, p, segVars, wVars, endVars>>

None == [id |-> 0, kind |-> "meta", ts |-> 0]

Init ==
    /\ queue = <<>> /\ qclosed = FALSE /\ closed = FALSE /\ buffers = TRUE
    /\ wpc = "idle" /\ round = 0 /\ written = 0 /\ now = 0
    /\ spc = "loop" /\ p = None
    /\ segment = <<>> /\ cache = <<>> /\ first = -1 /\ last = 0
    /\ seq = 0 /\ ll = <<>> /\ lm = <<>> /\ name = 1
    /\ cpc = "no"
    /\ muxed = <<>> /\ segments = <<>> /\ collided = FALSE

-----------------------------------------------------------------------------
(* Write.  A send on a closed queue panics and is recovered: the transport *)
(* gets an error, as it does from a closed source, and lets the writer go. *)
Write ==
    /\ wpc = "idle" /\ written < Len(Steps)
    /\ IF closed THEN wpc' = "gone" /\ UNCHANGED <<queue, round, written, now>>
       ELSE /\ written' = written + 1
            /\ \E s \in Steps[written'] :
                  /\ now' = now + s[2] /\ now' >= 0   \* it may go back
                  /\ IF Len(queue) >= HighMark
                     THEN wpc' = "drop" /\ round' = 0 /\ UNCHANGED queue
                     ELSE /\ wpc' = IF qclosed THEN "gone" ELSE "idle"
                          /\ queue' = IF qclosed THEN queue
                                      ELSE Append(queue, [id |-> written', kind |-> s[1],
                                                          ts |-> now'])
                          /\ UNCHANGED round
    /\ UNCHANGED <<closed, spc, p, segVars, endVars>>

(* A round of DropPacket: audio, key frames and headers go back.  With one *)
(* transport the queue never reaches the marks at which a second packet is *)
(* taken.  The receive waits while the queue is empty and open; the send   *)
(* panics on a closed one.                                                 *)
DropPacket ==
    /\ wpc = "drop"
    /\ queue # <<>> \/ qclosed
    /\ round' = round + 1
    /\ \E back \in BOOLEAN :
          /\ IF queue = <<>> THEN ~back
             ELSE Head(queue).kind # "bad" => back = (Head(queue).kind \in {"audio", "key", "head"})
          /\ queue' = IF queue = <<>> THEN queue
                      ELSE IF back /\ ~qclosed THEN Append(Tail(queue), Head(queue))
                      ELSE Tail(queue)
          /\ wpc' = IF back /\ qclosed THEN "gone"
                    ELSE IF round' = Rounds THEN "idle" ELSE "drop"
    /\ UNCHANGED <<closed, written, now, spc, p, segVars, endVars>>

-----------------------------------------------------------------------------
(* SendPacket: the flag, then the receive.                                 *)
SendLoop ==
    /\ spc = "loop"
    /\ spc' = IF closed THEN "ended" ELSE "recv"
    /\ UNCHANGED <<queue, closed, p, segVars, wVars, endVars>>

SendRecv ==
    /\ spc = "recv"
    /\ \/ /\ queue # <<>>
          /\ queue' = Tail(queue) /\ p' = Head(queue)
          /\ \/ p'.kind \in {"head", "meta"} /\ spc' = "loop" /\ UNCHANGED closed
             \/ p'.kind = "bad" /\ spc' = "ended" /\ closed' = TRUE
             \/ p'.kind \in {"key", "inter", "audio"} /\ spc' = "parse" /\ UNCHANGED closed
       \/ queue = <<>> /\ qclosed /\ spc' = "ended" /\ closed' = TRUE /\ UNCHANGED <<queue, p>>
    /\ UNCHANGED <<segVars, wVars, endVars>>

(* cut: a first segment, a new one after Duration, or none.  The cached    *)
(* audio goes into the segment that ends.                                  *)
CutKeepsAudio ==
    /\ p.kind = "key" /\ segment # <<>> /\ last - first >= Duration
    /\ seq' = seq + 1
    /\ segments' = Append(segments, segment)
    /\ segment' = <<>> /\ first' = -1
    /\ name' \in {name, name + 1}
    /\ UNCHANGED <<cache, last>>
Cut ==
    /\ p.kind = "key" /\ segment # <<>> /\ last - first >= Duration
    /\ seq' = seq + 1
    /\ segments' = Append(segments, segment \o cache)
    /\ segment' = <<>> /\ cache' = <<>> /\ first' = -1
    /\ name' \in {name, name + 1}       \* time.Now().Unix()
    /\ UNCHANGED last

SetItemEvictsNewest ==
    LET full == Len(ll) = Window
        left == IF full THEN Front(ll) ELSE ll
        kept == IF full THEN DOMAIN lm \ {Last(ll)} ELSE DOMAIN lm
    IN  /\ ll' = Append(left, name')
        /\ lm' = [n \in kept \cup {name'} |-> IF n = name' THEN seq' ELSE lm[n]]
(* TSCacheItem.SetItem                                                     *)
SetItem ==
    LET full == Len(ll) = Window
        left == IF full THEN Tail(ll) ELSE ll
        kept == IF full THEN DOMAIN lm \ {Head(ll)} ELSE DOMAIN lm
    IN  /\ ll' = Append(left, name')
        /\ lm' = [n \in kept \cup {name'} |-> IF n = name' THEN seq' ELSE lm[n]]

SendCut ==
    /\ spc = "parse" /\ buffers
    /\ \/ /\ Cut /\ SetItem
          /\ collided' = (collided \/ (seq > 0 /\ name' = name))
       \/ /\ ~(p.kind = "key" /\ segment # <<>> /\ last - first >= Duration)
          /\ UNCHANGED <<segment, cache, first, last, seq, ll, lm, name, segments, collided>>
    /\ spc' = "mux"
    /\ UNCHANGED <<queue, closed, p, muxed, wVars, endVars>>

SendMuxLoses ==
    /\ spc = "mux" /\ buffers
    /\ IF segment = <<>> /\ p.kind # "key"
       THEN UNCHANGED <<segment, cache, first, last, muxed>>
       ELSE /\ first' = IF first = -1 THEN p.ts ELSE first
            /\ last' = p.ts
            /\ muxed' = Append(muxed, p)
            /\ IF Video(p) THEN segment' = Append(segment, p) /\ UNCHANGED cache
               ELSE IF Len(cache) + 1 < MaxFrames THEN cache' = Append(cache, p) /\ UNCHANGED segment
               ELSE segment' = segment \o cache /\ cache' = <<>>
    /\ spc' = "loop"
    /\ UNCHANGED <<queue, closed, p, seq, ll, lm, name, segments, collided, wVars, endVars>>
(* stat.update and tsMux, once there is a segment: only a key frame starts *)
(* one.  Audio is collected and written MaxFrames at a time.               *)
SendMux ==
    /\ spc = "mux" /\ buffers
    /\ IF segment = <<>> /\ p.kind # "key"
       THEN UNCHANGED <<segment, cache, first, last, muxed>>
       ELSE /\ first' = IF first = -1 THEN p.ts ELSE first
            /\ last' = p.ts
            /\ muxed' = Append(muxed, p)
            /\ IF Video(p) THEN segment' = Append(segment, p) /\ UNCHANGED cache
               ELSE IF Len(cache) + 1 < MaxFrames THEN cache' = Append(cache, p) /\ UNCHANGED segment
               ELSE segment' = segment \o Append(cache, p) /\ cache' = <<>>
    /\ spc' = "loop"
    /\ UNCHANGED <<queue, closed, p, seq, ll, lm, name, segments, collided, wVars, endVars>>

(* With the buffers gone the packet is skipped or a nil buffer panics,     *)
(* which SendPacket recovers from by returning.                            *)
SendNil ==
    /\ spc \in {"parse", "mux"} /\ ~buffers
    /\ spc' \in {"loop", "ended"}
    /\ UNCHANGED <<queue, closed, p, segVars, wVars, endVars>>

-----------------------------------------------------------------------------
CloseTestLeavesOpen ==
    /\ cpc = "no"
    /\ IF closed \/ KeepAfterEnd THEN cpc' = "nil" /\ UNCHANGED qclosed
       ELSE cpc' = "closing" /\ UNCHANGED qclosed
    /\ UNCHANGED <<queue, closed, spc, p, segVars, wVars, buffers>>
(* Close, which the sweeper or the ending transport calls: cleanup closes  *)
(* the queue and drops the buffers before the flag is set.                 *)
CloseTest ==
    /\ cpc = "no"
    /\ IF closed \/ KeepAfterEnd THEN cpc' = "nil" /\ UNCHANGED qclosed
       ELSE cpc' = "closing" /\ qclosed' = TRUE
    /\ UNCHANGED <<queue, closed, spc, p, segVars, wVars, buffers>>

CloseCleanup ==
    /\ cpc = "closing"
    /\ buffers' = FALSE /\ cpc' = "nil"
    /\ UNCHANGED <<queue, closed, spc, p, segVars, wVars, qclosed>>

CloseFlag ==
    /\ cpc = "nil"
    /\ closed' = TRUE /\ cpc' = "done"
    /\ UNCHANGED <<queue, spc, p, segVars, wVars, qclosed, buffers>>

-----------------------------------------------------------------------------
SendPacket == SendLoop \/ SendRecv \/ SendCut \/ SendMux \/ SendNil
Close      == CloseTest \/ CloseCleanup \/ CloseFlag

Next == Write \/ DropPacket \/ SendPacket \/ Close

Spec == Init /\ [][Next]_vars

(* Fairness: goroutines that can run do run.  No packet has to come and    *)
(* nobody has to call Close.                                               *)
FairSpec ==
    /\ Spec
    /\ WF_vars(SendPacket) /\ WF_vars(DropPacket)
    /\ WF_vars(CloseCleanup \/ CloseFlag)

-----------------------------------------------------------------------------
(* What GenM3U8PlayList offers: the segments of the entries of ll, without *)
(* those that lm no longer has.                                            *)
Playlist == [k \in {j \in DOMAIN ll : ll[j] \in DOMAIN lm} |-> lm[ll[k]]]

(* Where the frames are: <<k, n>> is the n-th frame of the k-th segment,    *)
(* the one being filled and the audio cache coming last.                   *)
Parts == segments \o <<segment, cache>>
Places == UNION {{<<k, n>> : n \in DOMAIN Parts[k]} : k \in DOMAIN Parts}
At(a) == Parts[a[1]][a[2]]
NotAfter(a, b) == a[1] < b[1] \/ (a[1] = b[1] /\ a[2] <= b[2])

(* The type invariant.                                                     *)
TypeOK ==
    /\ Len(queue) <= QueueCap /\ \A k \in DOMAIN queue : queue[k].kind \in Kinds
    /\ wpc \in {"idle", "drop", "gone"} /\ round \in 0 .. Rounds
    /\ spc \in {"loop", "recv", "parse", "mux", "ended"}
    /\ cpc \in {"no", "closing", "nil", "done"}
    /\ {qclosed, closed, buffers, collided} \subseteq BOOLEAN
    /\ now \in Nat /\ first \in Nat \cup {-1} /\ last \in Nat
    /\ Len(ll) <= Window /\ DOMAIN lm \subseteq ToSet(ll)
    /\ Len(cache) < MaxFrames

(* Every frame from the first key frame on is in exactly one place (a      *)
(* segment, the one being filled, the audio cache), nothing else is, and   *)
(* video and audio each keep their order.                                  *)
MediaInOrder ==
    /\ {At(a) : a \in Places} = ToSet(muxed)
    /\ \A a \in Places, i \in DOMAIN muxed : At(a) = muxed[i] =>
          \A b \in Places, j \in i .. Len(muxed) :
             (At(b) = muxed[j] /\ (Video(At(a)) <=> Video(At(b)))) => NotAfter(a, b)

(* A segment can be played on its own: it begins with a key frame, and     *)
(* audio that came before the next segment's key frame is not in the next  *)
(* segment.  It lasts at least Duration up to its last frame.              *)
SegmentBoundary ==
    /\ \A k \in DOMAIN segments :
          /\ segments[k][1].kind = "key"
          /\ LET stamps == {segments[k][n].ts : n \in DOMAIN segments[k]}
             IN  \E x, y \in stamps : y - x >= Duration
    /\ \A n \in DOMAIN muxed :
          (segment # <<>> /\ muxed[n] \in ToSet(segment \o cache)) =>
              \E m \in 1 .. n : muxed[m] = segment[1]

(* The playlist offers the last Window segments, in order and without a    *)
(* hole, as long as no two were cut within one second of the clock: the    *)
(* file name is the second (source.go:209), so they would share an entry.  *)
(* (With the type invariant.)                                              *)
PlaylistWindow ==
    TypeOK /\ (~collided =>
        Playlist = [k \in 1 .. Len(ll) |-> seq - Len(ll) + k]
          /\ Len(ll) = (IF seq < Window THEN seq ELSE Window))

(* The sending goroutine ends after Close, even if it was in the middle of *)
(* a packet when its buffers went away, unless hls_keep_after_end leaves   *)
(* the queue open.                                                         *)
SenderEnds == (cpc = "done" /\ ~KeepAfterEnd) ~> (spc = "ended")
=============================================================================
