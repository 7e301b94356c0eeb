------------------------------- MODULE Streams -------------------------------
(***************************************************************************)
(* The stream registry of the RTMP server: protocol/rtmp/stream.go, with   *)
(* the part of rtmp.go and httpflv/server.go that feeds it.  A connection  *)
(* handler runs HandleReader (publishers) or HandleWriter (players, and    *)
(* for a publisher its HLS source and its FLV recording); AddReader starts *)
(* a transport goroutine per publisher; a sweeper calls CheckAlive.  They  *)
(* share the concurrent map of streams and the unlocked fields isStart and *)
(* r of each Stream, so every access to one of those is a step of its own. *)
(*                                                                         *)
(* Abstracted: packets (module Fanout has them), relays (StaticPush), and  *)
(* the players' queues (VirWriter).  IterBuffered is a snapshot taken in   *)
(* one step.                                                               *)
(***************************************************************************)
EXTENDS Integers, FiniteSets

CONSTANTS
    Publishers,  \* publishing connections, each with its own UID
    Players,     \* playing connections
    HttpPlayers, \* the players that come through httpflv
    Keys,        \* "app/room" names
    KeyOf,       \* the key of each connection
    NoPub,       \* s.r = nil
    HasHls,      \* Server.getter is not nil: the HLS server runs
    MaxStreams   \* bound: how many Stream objects are ever created

Conns == Publishers \union Players

ASSUME StreamsAssumption ==
    /\ Publishers \intersect Players = {}
    /\ HttpPlayers \subseteq Players
    /\ KeyOf \in [Conns -> Keys]
    /\ NoPub \notin Publishers
    /\ HasHls \in BOOLEAN
    /\ MaxStreams \in Nat

(* The writers: a player's VirWriter or FLV writer, the HLS source made    *)
(* for a publisher, the FLV recording of a publisher.                      *)
Player(q)   == <<"player", q>>
Source(p)   == <<"hls", p>>
Recorder(p) == <<"dvr", p>>
Writers == {Player(q) : q \in Players} \union {Source(p) : p \in Publishers}
             \union {Recorder(p) : p \in Publishers}

(* Info().IsInterval(): true for players and HLS sources, not for the DVR. *)
Interval(w) == w[1] \in {"player", "hls"}

Nil       == 0
StreamIds == 1 .. MaxStreams

VARIABLES
    streams,    \* Streams.streams: key -> stream, Nil when absent
    nextStream, \* the next Stream object
    isStart,    \* Stream.isStart
    rd,         \* Stream.r
    ws,         \* Stream.ws
    open,       \* connections and writers not closed
    hlsConns,   \* hls.Server.conns: key -> the publisher whose source it holds
    hpc,        \* where each connection handler is
    hs,         \* the stream the handler works on (locals are reset after use)
    ho,         \* the stream HandleReader copies from
    hcopy,      \* the writers Copy has still to move
    hw,         \* the writer HandleWriter was called with
    tpc,        \* where the transport of each publisher is
    ts,         \* the stream of the transport
    tr,         \* the reader its Read call is on
    todo,       \* the writers its loop has still to visit
    doomed,     \* the sweeper counted 0 and is about to Remove(key)
    anomaly     \* history: the races that have happened

streamVars  == <<isStart, rd, ws>>
handlerVars == <<hpc, hs, ho, hcopy, hw>>
transVars   == <<tpc, ts, tr, todo>>
vars == <<streams, nextStream, isStart, rd, ws, open, hlsConns, hpc, hs, ho,
          hcopy, hw, tpc, ts, tr, todo, doomed, anomaly>>

NoWriter == <<"none", NoPub>>

Init ==
    /\ streams = [k \in Keys |-> Nil]
    /\ nextStream = 1
    /\ isStart = [s \in StreamIds |-> FALSE]
    /\ rd = [s \in StreamIds |-> NoPub]
    /\ ws = [s \in StreamIds |-> {}]
    /\ open = Publishers \union {Player(q) : q \in Players}
    /\ hlsConns = [k \in Keys |-> NoPub]
    /\ hpc = [h \in Conns |-> "new"]
    /\ hs = [h \in Conns |-> Nil]
    /\ ho = [h \in Conns |-> Nil]
    /\ hcopy = [h \in Conns |-> {}]
    /\ hw = [h \in Conns |-> NoWriter]
    /\ tpc = [p \in Publishers |-> "none"]
    /\ ts = [p \in Publishers |-> Nil]
    /\ tr = [p \in Publishers |-> NoPub]
    /\ todo = [p \in Publishers |-> {}]
    /\ doomed = [k \in Keys |-> FALSE]
    /\ anomaly = {}

(* NewStream; the object is filled in by the caller.                       *)
NewStream(s) == s = nextStream /\ s \in StreamIds /\ nextStream' = s + 1

Transporting(s) == {p \in Publishers : ts[p] = s /\ tpc[p] \notin {"none", "done"}}

-----------------------------------------------------------------------------
(***************************************************************************)
(* HandleReader.                                                           *)
(***************************************************************************)
InHandleReader == {"stop", "flag", "id", "copy", "set", "add"}

HandleReaderGet(p) ==
    LET s == streams[KeyOf[p]] IN
    /\ hpc[p] = "new"
    /\ IF s # Nil
       THEN /\ hs' = [hs EXCEPT ![p] = s]
            /\ hpc' = [hpc EXCEPT ![p] = "stop"]
            /\ UNCHANGED nextStream
       ELSE \E n \in StreamIds :
            /\ NewStream(n)
            /\ hs' = [hs EXCEPT ![p] = n]
            /\ hpc' = [hpc EXCEPT ![p] = "set"]
    /\ anomaly' = IF \E q \in Publishers : KeyOf[q] = KeyOf[p] /\ hpc[q] \in InHandleReader
                  THEN anomaly \union {"overlap"} ELSE anomaly
    /\ UNCHANGED <<streams, streamVars, open, hlsConns, ho, hcopy, hw, transVars,
                   doomed>>

(* TransStop: close the reader if the stream has started ...               *)
TransStopClose(p) ==
    LET s == hs[p] IN
    /\ hpc[p] = "stop"
    /\ open' = IF isStart[s] /\ rd[s] # NoPub THEN open \ {rd[s]} ELSE open
    /\ hpc' = [hpc EXCEPT ![p] = "flag"]
    /\ anomaly' = IF \E q \in Transporting(s) : tpc[q] = "spawned"
                  THEN anomaly \union {"missed"} ELSE anomaly
    /\ UNCHANGED <<streams, nextStream, streamVars, hlsConns, hs, ho, hcopy, hw,
                   transVars, doomed>>

(* ... and clear the flag its transport tests.                             *)
TransStopKeepsFlag(p) ==
    /\ hpc[p] = "flag"
    /\ hpc' = [hpc EXCEPT ![p] = "id"]
    /\ UNCHANGED <<streams, nextStream, streamVars, open, hlsConns, hs, ho, hcopy, hw,
                   transVars, doomed, anomaly>>
TransStopFlag(p) ==
    /\ hpc[p] = "flag"
    /\ isStart' = [isStart EXCEPT ![hs[p]] = FALSE]
    /\ hpc' = [hpc EXCEPT ![p] = "id"]
    /\ UNCHANGED <<streams, nextStream, rd, ws, open, hlsConns, hs, ho, hcopy, hw,
                   transVars, doomed, anomaly>>

(* A stream that has had a reader is replaced by a new one, a stream that  *)
(* never had one is used as it is.                                         *)
ReplaceOrReuse(p) ==
    LET s == hs[p] IN
    /\ hpc[p] = "id"
    /\ IF rd[s] \notin {NoPub, p}
       THEN \E n \in StreamIds :
            /\ NewStream(n)
            /\ hs' = [hs EXCEPT ![p] = n]
            /\ ho' = [ho EXCEPT ![p] = s]
            /\ hcopy' = [hcopy EXCEPT ![p] = ws[s]]
            /\ hpc' = [hpc EXCEPT ![p] = "copy"]
       ELSE /\ hpc' = [hpc EXCEPT ![p] = "add"]
            /\ UNCHANGED <<nextStream, hs, ho, hcopy>>
    /\ UNCHANGED <<streams, streamVars, open, hlsConns, hw, transVars, doomed,
                   anomaly>>

(* Copy moves one writer: remove it from the old stream, add it to the new.*)
CopyKeepsOld(p, w) ==
    /\ hpc[p] = "copy"
    /\ w \in hcopy[p]
    /\ ws' = [ws EXCEPT ![hs[p]] = @ \union {w}]
    /\ hcopy' = [hcopy EXCEPT ![p] = @ \ {w}]
    /\ UNCHANGED <<streams, nextStream, isStart, rd, open, hlsConns, hpc, hs, ho,
                   hw, transVars, doomed, anomaly>>
Copy(p, w) ==
    /\ hpc[p] = "copy"
    /\ w \in hcopy[p]
    /\ ws' = [ws EXCEPT ![ho[p]] = @ \ {w}, ![hs[p]] = @ \union {w}]
    /\ hcopy' = [hcopy EXCEPT ![p] = @ \ {w}]
    /\ UNCHANGED <<streams, nextStream, isStart, rd, open, hlsConns, hpc, hs, ho,
                   hw, transVars, doomed, anomaly>>

(* rs.streams.Set(info.Key, ...)                                           *)
HandleReaderSetsNewOnly(p) ==
    /\ hpc[p] = "set" \/ (hpc[p] = "copy" /\ hcopy[p] = {})
    /\ streams' = IF hpc[p] = "set" THEN [streams EXCEPT ![KeyOf[p]] = hs[p]] ELSE streams
    /\ hpc' = [hpc EXCEPT ![p] = "add"]
    /\ UNCHANGED <<nextStream, streamVars, open, hlsConns, hs, ho, hcopy, hw,
                   transVars, doomed, anomaly>>
HandleReaderSet(p) ==
    /\ hpc[p] = "set" \/ (hpc[p] = "copy" /\ hcopy[p] = {})
    /\ streams' = [streams EXCEPT ![KeyOf[p]] = hs[p]]
    /\ hpc' = [hpc EXCEPT ![p] = "add"]
    /\ anomaly' = IF streams[KeyOf[p]] \notin {Nil, ho[p]}
                  THEN anomaly \union {"clobbered"} ELSE anomaly
    /\ UNCHANGED <<nextStream, streamVars, open, hlsConns, hs, ho, hcopy, hw,
                   transVars, doomed>>

(* handleConn goes on with flv.Dvr's writer, whose file is created first.  *)
NextIsRecorder(p) ==
    /\ hw' = [hw EXCEPT ![p] = Recorder(p)]
    /\ hpc' = [hpc EXCEPT ![p] = "has"]
    /\ open' = open \union {Recorder(p)}

(* AddReader: set r and start the transport.                               *)
AddReader(p) ==
    /\ hpc[p] = "add"
    /\ rd' = [rd EXCEPT ![hs[p]] = p]
    /\ tpc' = [tpc EXCEPT ![p] = "spawned"]
    /\ ts' = [ts EXCEPT ![p] = hs[p]]
    /\ IF HasHls
       THEN hpc' = [hpc EXCEPT ![p] = "hls"] /\ UNCHANGED <<open, hw>>
       ELSE NextIsRecorder(p)
    /\ hs' = [hs EXCEPT ![p] = Nil]
    /\ UNCHANGED <<streams, nextStream, isStart, ws, hlsConns, ho, hcopy, tr,
                   todo, doomed, anomaly>>

-----------------------------------------------------------------------------
(***************************************************************************)
(* HandleWriter, for a player and for the two writers of a publisher.      *)
(***************************************************************************)
(* hls.Server.Writer: a source is kept per key and handed out again.       *)
HlsWriter(p) ==
    LET k == KeyOf[p] IN
    /\ hpc[p] = "hls"
    /\ IF hlsConns[k] = NoPub
       THEN /\ hlsConns' = [hlsConns EXCEPT ![k] = p]
            /\ open' = open \union {Source(p)}
            /\ hw' = [hw EXCEPT ![p] = Source(p)]
       ELSE /\ hw' = [hw EXCEPT ![p] = Source(hlsConns[k])]
            /\ UNCHANGED <<hlsConns, open>>
    /\ hpc' = [hpc EXCEPT ![p] = "has"]
    /\ UNCHANGED <<streams, nextStream, streamVars, hs, ho, hcopy, transVars, doomed,
                   anomaly>>

(* hls.Server.checkStop forgets a source without traffic.                  *)
HlsCheckStop(k) ==
    /\ hlsConns[k] # NoPub
    /\ hlsConns' = [hlsConns EXCEPT ![k] = NoPub]
    /\ UNCHANGED <<streams, nextStream, streamVars, open, handlerVars, transVars,
                   doomed, anomaly>>

PlayerArrives(q) ==
    /\ hpc[q] = "new"
    /\ hpc' = [hpc EXCEPT ![q] = IF q \in HttpPlayers THEN "check" ELSE "has"]
    /\ hw' = [hw EXCEPT ![q] = Player(q)]
    /\ UNCHANGED <<streams, nextStream, streamVars, open, hlsConns, hs, ho, hcopy,
                   transVars, doomed, anomaly>>

(* httpflv handleConn: 404 unless the key has a stream with a reader.      *)
HasPublisher(k) == streams[k] # Nil /\ rd[streams[k]] # NoPub
HttpFlvCheck(q) ==
    /\ hpc[q] = "check"
    /\ IF HasPublisher(KeyOf[q])
       THEN hpc' = [hpc EXCEPT ![q] = "has"] /\ UNCHANGED open
       ELSE hpc' = [hpc EXCEPT ![q] = "done"] /\ open' = open \ {Player(q)}
    /\ UNCHANGED <<streams, nextStream, streamVars, hlsConns, hs, ho, hcopy, hw,
                   transVars, doomed, anomaly>>

HandleWriterHas(h) ==
    /\ hpc[h] = "has"
    /\ hpc' = [hpc EXCEPT ![h] = IF streams[KeyOf[h]] = Nil THEN "create" ELSE "get"]
    /\ UNCHANGED <<streams, nextStream, streamVars, open, hlsConns, hs, ho, hcopy, hw,
                   transVars, doomed, anomaly>>

HandleWriterReturns(h) ==
    IF hw[h][1] = "hls"
    THEN NextIsRecorder(h)
    ELSE /\ hpc' = [hpc EXCEPT ![h] = "done"]
         /\ hw' = [hw EXCEPT ![h] = NoWriter]
         /\ UNCHANGED open

(* No stream: an empty one is registered and the writer is not added.      *)
HandleWriterCreate(h) ==
    /\ hpc[h] = "create"
    /\ \E n \in StreamIds :
         /\ NewStream(n)
         /\ streams' = [streams EXCEPT ![KeyOf[h]] = n]
    /\ HandleWriterReturns(h)
    /\ anomaly' = IF streams[KeyOf[h]] # Nil THEN anomaly \union {"clobbered"} ELSE anomaly
    /\ UNCHANGED <<streamVars, hlsConns, hs, ho, hcopy, transVars, doomed>>

HandleWriterGet(h) ==
    LET s == streams[KeyOf[h]] IN
    /\ hpc[h] = "get"
    /\ IF s # Nil
       THEN /\ hs' = [hs EXCEPT ![h] = s]
            /\ hpc' = [hpc EXCEPT ![h] = "attach"]
            /\ UNCHANGED <<hw, open>>
       ELSE /\ HandleWriterReturns(h)
            /\ UNCHANGED hs
    /\ UNCHANGED <<streams, nextStream, streamVars, hlsConns, ho, hcopy, transVars,
                   doomed, anomaly>>

(* Copy has begun on the stream, or it is no longer registered.            *)
Abandoned(s) == (\A k \in Keys : streams[k] # s) \/ (\E p \in Publishers : ho[p] = s)

AddWriter(h) ==
    /\ hpc[h] = "attach"
    /\ ws' = [ws EXCEPT ![hs[h]] = @ \union {hw[h]}]
    /\ hs' = [hs EXCEPT ![h] = Nil]
    /\ HandleWriterReturns(h)
    /\ anomaly' = IF Abandoned(hs[h]) THEN anomaly \union {"stray"} ELSE anomaly
    /\ UNCHANGED <<streams, nextStream, isStart, rd, hlsConns, ho, hcopy,
                   transVars, doomed>>

-----------------------------------------------------------------------------
(***************************************************************************)
(* TransStart, the goroutine AddReader starts.                             *)
(***************************************************************************)
TransBegin(p) ==
    /\ tpc[p] = "spawned"
    /\ isStart' = [isStart EXCEPT ![ts[p]] = TRUE]
    /\ tpc' = [tpc EXCEPT ![p] = "loop"]
    /\ UNCHANGED <<streams, nextStream, rd, ws, open, hlsConns, handlerVars, ts, tr,
                   todo, doomed, anomaly>>

(* closeInter's snapshot: the interval writers of the stream.              *)
CloseInter(p) == todo' = [todo EXCEPT ![p] = {w \in ws[ts[p]] : Interval(w)}]

TransStopped(p) ==
    /\ tpc[p] = "loop"
    /\ ~isStart[ts[p]]
    /\ CloseInter(p)
    /\ tpc' = [tpc EXCEPT ![p] = "stopping"]
    /\ UNCHANGED <<streams, nextStream, streamVars, open, hlsConns, handlerVars, ts,
                   tr, doomed, anomaly>>

TransRead(p) ==
    /\ tpc[p] = "loop"
    /\ isStart[ts[p]]
    /\ tr' = [tr EXCEPT ![p] = rd[ts[p]]]
    /\ tpc' = [tpc EXCEPT ![p] = "reading"]
    /\ UNCHANGED <<streams, nextStream, streamVars, open, hlsConns, handlerVars, ts,
                   todo, doomed, anomaly>>

TransReadFails(p) ==
    /\ tpc[p] = "reading"
    /\ tr[p] \notin open
    /\ tr' = [tr EXCEPT ![p] = NoPub]
    /\ CloseInter(p)
    /\ tpc' = [tpc EXCEPT ![p] = "failing"]
    /\ UNCHANGED <<streams, nextStream, streamVars, open, hlsConns, handlerVars, ts,
                   doomed, anomaly>>

TransPacket(p) ==
    /\ tpc[p] = "reading"
    /\ tr[p] \in open
    /\ tr' = [tr EXCEPT ![p] = NoPub]
    /\ todo' = [todo EXCEPT ![p] = ws[ts[p]]]
    /\ tpc' = [tpc EXCEPT ![p] = "deliver"]
    /\ UNCHANGED <<streams, nextStream, streamVars, open, hlsConns, handlerVars, ts,
                   doomed, anomaly>>

(* Write to one writer; a closed writer fails and is removed, and so does  *)
(* a recording whose disk fails.  A writer that is new to the stream is    *)
(* sent the cache: if that is empty nothing is written and nothing fails.  *)
TransDeliver(p, w) ==
    /\ tpc[p] = "deliver"
    /\ w \in todo[p]
    /\ todo' = [todo EXCEPT ![p] = @ \ {w}]
    /\ \/ UNCHANGED ws
       \/ /\ w \notin open \/ w[1] = "dvr"
          /\ ws' = [ws EXCEPT ![ts[p]] = @ \ {w}]
    /\ UNCHANGED <<streams, nextStream, isStart, rd, open, hlsConns, handlerVars,
                   tpc, ts, tr, doomed, anomaly>>

TransDelivered(p) ==
    /\ tpc[p] = "deliver"
    /\ todo[p] = {}
    /\ tpc' = [tpc EXCEPT ![p] = "loop"]
    /\ UNCHANGED <<streams, nextStream, streamVars, open, hlsConns, handlerVars, ts,
                   tr, todo, doomed, anomaly>>

(* closeInter closes one writer and takes it off the list.                 *)
TransCloseWriter(p, w) ==
    /\ tpc[p] \in {"stopping", "failing"}
    /\ w \in todo[p]
    /\ todo' = [todo EXCEPT ![p] = @ \ {w}]
    /\ open' = open \ {w}
    /\ ws' = [ws EXCEPT ![ts[p]] = @ \ {w}]
    /\ UNCHANGED <<streams, nextStream, isStart, rd, hlsConns, handlerVars, tpc, ts,
                   tr, doomed, anomaly>>

(* Only the transport whose Read failed clears the flag.                   *)
TransEnd(p) ==
    /\ tpc[p] \in {"stopping", "failing"}
    /\ todo[p] = {}
    /\ isStart' = IF tpc[p] = "failing" THEN [isStart EXCEPT ![ts[p]] = FALSE] ELSE isStart
    /\ tpc' = [tpc EXCEPT ![p] = "done"]
    /\ UNCHANGED <<streams, nextStream, rd, ws, open, hlsConns, handlerVars, ts, tr,
                   todo, doomed, anomaly>>

-----------------------------------------------------------------------------
(***************************************************************************)
(* The sweeper.  Alive is a timeout of ten seconds without traffic, so a   *)
(* silent connection may be found dead while it is open, and a closed one  *)
(* may still count as alive for a while.                                   *)
(***************************************************************************)
(* Dead writers leave the list while the stream runs and count as alive    *)
(* once it has stopped.                                                    *)
WritersLeftAll(s, dead) == ws[s]
WritersLeft(s, dead) == IF isStart[s] THEN ws[s] \ dead ELSE ws[s]

StreamCheckAlive(k, rdead, dead) ==
    LET s == streams[k]
        reader == isStart[s] /\ rd[s] # NoPub
        left == WritersLeft(s, dead)
    IN
    /\ s # Nil
    /\ ~doomed[k]
    /\ rdead => reader
    /\ dead \subseteq ws[s]
    /\ ws' = [ws EXCEPT ![s] = left]
    /\ open' = open \ ((IF rdead THEN {rd[s]} ELSE {})
                         \union (IF isStart[s] THEN dead ELSE {}))
    /\ doomed' = [doomed EXCEPT ![k] = left = {} /\ (~reader \/ rdead)]
    /\ UNCHANGED <<streams, nextStream, isStart, rd, hlsConns, handlerVars, transVars,
                   anomaly>>

SweepCount(k) ==
    /\ streams[k] # Nil
    /\ \E rdead \in BOOLEAN, dead \in SUBSET ws[streams[k]] :
          StreamCheckAlive(k, rdead, dead)

(* rs.streams.Remove(item.Key), whatever the key maps to by now.           *)
InUse(s) == s # Nil /\ (ws[s] # {} \/ Transporting(s) # {}
                          \/ \E p \in Publishers : hs[p] = s /\ hpc[p] \in InHandleReader)
SweepRemoveForgotten(k) ==
    /\ doomed[k]
    /\ doomed' = [doomed EXCEPT ![k] = FALSE]
    /\ UNCHANGED <<streams, nextStream, streamVars, open, hlsConns, handlerVars,
                   transVars, anomaly>>
SweepRemove(k) ==
    /\ doomed[k]
    /\ streams' = [streams EXCEPT ![k] = Nil]
    /\ doomed' = [doomed EXCEPT ![k] = FALSE]
    /\ anomaly' = IF InUse(streams[k]) THEN anomaly \union {"evicted"} ELSE anomaly
    /\ UNCHANGED <<nextStream, streamVars, open, hlsConns, handlerVars, transVars>>

-----------------------------------------------------------------------------
(* A connection is lost or its peer leaves.                                *)
Leave(h) ==
    LET c == IF h \in Publishers THEN h ELSE Player(h) IN
    /\ hpc[h] # "new"
    /\ c \in open
    /\ open' = open \ {c}
    /\ UNCHANGED <<streams, nextStream, streamVars, hlsConns, handlerVars, transVars,
                   doomed, anomaly>>

HandleReader(p) ==
    \/ HandleReaderGet(p) \/ TransStopClose(p) \/ TransStopFlag(p)
    \/ ReplaceOrReuse(p) \/ (\E w \in hcopy[p] : Copy(p, w))
    \/ HandleReaderSet(p) \/ AddReader(p) \/ HlsWriter(p)

HandleWriter(h) ==
    HandleWriterHas(h) \/ HandleWriterCreate(h) \/ HandleWriterGet(h) \/ AddWriter(h)

TransStart(p) ==
    \/ TransBegin(p) \/ TransStopped(p) \/ TransRead(p) \/ TransReadFails(p)
    \/ (\E w \in todo[p] : TransDeliver(p, w) \/ TransCloseWriter(p, w))
    \/ TransDelivered(p) \/ TransEnd(p)

Next ==
    \/ \E p \in Publishers : HandleReader(p) \/ TransStart(p) \/ TransPacket(p)
    \/ \E q \in Players : PlayerArrives(q) \/ HttpFlvCheck(q)
    \/ \E h \in Conns : HandleWriter(h) \/ Leave(h)
    \/ \E k \in Keys : SweepCount(k) \/ SweepRemove(k) \/ HlsCheckStop(k)

Spec == Init /\ [][Next]_vars

(***************************************************************************)
(* Fairness: a goroutine that can run does run, and the sweeper comes      *)
(* round every five seconds and finds dead what is closed.  Nobody has to  *)
(* connect, to leave or to send a packet.                                  *)
(***************************************************************************)
SweepDue(k) ==
    /\ streams[k] # Nil
    /\ StreamCheckAlive(k, /\ isStart[streams[k]] /\ rd[streams[k]] # NoPub
                           /\ rd[streams[k]] \notin open,
                        ws[streams[k]] \ open)

FairSpec ==
    /\ Spec
    /\ \A p \in Publishers :
          /\ WF_vars(hpc[p] # "new" /\ HandleReader(p))
          /\ WF_vars(TransStart(p))
    /\ \A h \in Conns : WF_vars(HandleWriter(h))
    /\ \A q \in Players : WF_vars(HttpFlvCheck(q))
    /\ \A k \in Keys : WF_vars(SweepDue(k)) /\ WF_vars(SweepRemove(k))

-----------------------------------------------------------------------------
(***************************************************************************)
(* Properties.                                                             *)
(***************************************************************************)
(* The type invariant; streams not yet created are blank.                  *)
TypeOK ==
    /\ streams \in [Keys -> StreamIds \union {Nil}]
    /\ nextStream \in 1 .. MaxStreams + 1
    /\ isStart \in [StreamIds -> BOOLEAN]
    /\ rd \in [StreamIds -> Publishers \union {NoPub}]
    /\ ws \in [StreamIds -> SUBSET Writers]
    /\ open \subseteq Publishers \union Writers
    /\ hlsConns \in [Keys -> Publishers \union {NoPub}]
    /\ hpc \in [Conns -> {"new", "stop", "flag", "id", "copy", "set", "add", "hls",
                          "check", "has", "create", "get", "attach", "done"}]
    /\ hs \in [Conns -> StreamIds \union {Nil}]
    /\ ho \in [Conns -> StreamIds \union {Nil}]
    /\ hcopy \in [Conns -> SUBSET Writers]
    /\ hw \in [Conns -> Writers \union {NoWriter}]
    /\ tpc \in [Publishers -> {"none", "spawned", "loop", "reading", "deliver",
                               "stopping", "failing", "done"}]
    /\ ts \in [Publishers -> StreamIds \union {Nil}]
    /\ tr \in [Publishers -> Publishers \union {NoPub}]
    /\ todo \in [Publishers -> SUBSET Writers]
    /\ doomed \in [Keys -> BOOLEAN]
    /\ anomaly \subseteq {"overlap", "missed", "evicted", "clobbered", "stray"}
    /\ \A s \in StreamIds : s >= nextStream =>
           ~isStart[s] /\ rd[s] = NoPub /\ ws[s] = {}

(* A player and a recording are on the list of at most one stream, so they *)
(* receive one publisher's packets: Copy hands them over and AddWriter     *)
(* adds them once.  It takes two publishers inside HandleReader of one key *)
(* at the same time (stream.go:40-49) to list a writer twice.  (With the   *)
(* type invariant.)                                                        *)
OneHome ==
    TypeOK /\ ("overlap" \notin anomaly =>
        \A w \in Writers : w[1] # "hls" =>
            \A s, t \in StreamIds : w \in ws[s] /\ w \in ws[t] => s = t)

(* A transport that has not been told to stop carries the stream players   *)
(* find under its key.  The races that break it are exactly four: two      *)
(* concurrent HandleReaders, a TransStop that comes before the transport   *)
(* has set isStart, a sweep that removes a key on a count it made earlier, *)
(* and a HandleWriter or HandleReader that found no stream and sets its    *)
(* own over one registered since.                                          *)
TransportRegistered ==
    anomaly \subseteq {"stray"} =>
        \A p \in Publishers :
            (\/ tpc[p] = "spawned"
             \/ tpc[p] \in {"loop", "reading", "deliver"} /\ isStart[ts[p]])
            => streams[KeyOf[p]] = ts[p]

(* An open player that is on some list is on the list of the registered    *)
(* stream or of the one about to replace it, unless HandleWriter used a    *)
(* stream it looked up before a new publisher took over (stream.go:71-74). *)
PlayerServed ==
    anomaly \subseteq {"missed"} =>
        \A q \in Players : Player(q) \in open =>
            \A s \in StreamIds : Player(q) \in ws[s] =>
                \/ streams[KeyOf[q]] = s
                \/ \E p \in Publishers : hpc[p] = "copy" /\ hs[p] = s
                \/ \E p \in Publishers : hpc[p] = "copy" /\ Player(q) \in hcopy[p]

(* A closed writer does not stay on the list of a running registered       *)
(* stream, even if the publisher sends nothing.                            *)
DeadDetached ==
    \A w \in Writers, k \in Keys, s \in StreamIds :
        (w \notin open /\ w \in ws[s] /\ streams[k] = s /\ isStart[s])
            ~> (w \notin ws[s] \/ streams[k] # s \/ ~isStart[s])

(* A registered stream with neither reader nor writers is forgotten.       *)
Idle(s) == ws[s] = {} /\ (rd[s] = NoPub \/ ~isStart[s])
IdleForgotten ==
    \A k \in Keys, s \in StreamIds :
        (streams[k] = s /\ Idle(s)) ~> (streams[k] # s \/ ~Idle(s))

=============================================================================
