---------------------------- MODULE StreamsProofs ----------------------------
(***************************************************************************)
(* Theorems about Streams, for any number of publishers, players and keys, *)
(* any assignment of keys and any number of streams.                       *)
(***************************************************************************)
EXTENDS Streams, TLAPS

(* TypeOK in its two halves: the types, and that streams not created yet   *)
(* are blank.                                                              *)
Pcs == {"new", "stop", "flag", "id", "copy", "set", "add", "hls",
        "check", "has", "create", "get", "attach", "done"}

TransPcs == {"none", "spawned", "loop", "reading", "deliver", "stopping",
             "failing", "done"}

Types ==
    /\ streams \in [Keys -> StreamIds \union {Nil}]
    /\ nextStream \in 1 .. MaxStreams + 1
    /\ isStart \in [StreamIds -> BOOLEAN]
    /\ rd \in [StreamIds -> Publishers \union {NoPub}]
    /\ ws \in [StreamIds -> SUBSET Writers]
    /\ open \subseteq Publishers \union Writers
    /\ hlsConns \in [Keys -> Publishers \union {NoPub}]
    /\ hpc \in [Conns -> Pcs]
    /\ hs \in [Conns -> StreamIds \union {Nil}]
    /\ ho \in [Conns -> StreamIds \union {Nil}]
    /\ hcopy \in [Conns -> SUBSET Writers]
    /\ hw \in [Conns -> Writers \union {NoWriter}]
    /\ tpc \in [Publishers -> TransPcs]
    /\ ts \in [Publishers -> StreamIds \union {Nil}]
    /\ tr \in [Publishers -> Publishers \union {NoPub}]
    /\ todo \in [Publishers -> SUBSET Writers]
    /\ doomed \in [Keys -> BOOLEAN]
    /\ anomaly \subseteq {"overlap", "missed", "evicted", "clobbered", "stray"}

Blank == \A s \in StreamIds : s >= nextStream =>
             ~isStart[s] /\ rd[s] = NoPub /\ ws[s] = {}

(* Somebody of key k has stream s: the map, a handler, a transport or a    *)
(* player on its list.  A stream belongs to one key and has been created.  *)
Refers(k, s) ==
    \/ streams[k] = s
    \/ \E h \in Conns : KeyOf[h] = k /\ (hs[h] = s \/ ho[h] = s)
    \/ \E p \in Publishers : KeyOf[p] = k /\ ts[p] = s
    \/ \E q \in Players : KeyOf[q] = k /\ Player(q) \in ws[s]

KeyInv ==
    \A s \in StreamIds, k \in Keys :
        Refers(k, s) => s < nextStream /\ \A l \in Keys : Refers(l, s) => l = k

(* What a handler's locals are at each of its steps; a player's handler    *)
(* adds the player's own writer, a publisher's its source and recording.   *)
StageOf(h) ==
    /\ hpc[h] \in InHandleReader \union {"hls"} => h \in Publishers
    /\ hpc[h] \in InHandleReader \union {"attach"} => hs[h] # Nil
    /\ hpc[h] \in {"new", "stop", "flag", "id", "set"} => ho[h] = Nil
    /\ hpc[h] = "copy" => ho[h] # Nil /\ ho[h] # hs[h]
    /\ hcopy[h] # {} => hpc[h] = "copy"
    /\ hpc[h] \in {"check", "has", "create", "get", "attach"} => hw[h] # NoWriter
    /\ hw[h][1] \in {"player", "dvr"} => hw[h][2] = h
    /\ hw[h][1] \in {"hls", "dvr"} => h \in Publishers
StageInv == \A h \in Conns : StageOf(h)

(* A transport that was started has a stream.                              *)
TransInv == \A p \in Publishers : tpc[p] # "none" => ts[p] # Nil

(* The players being copied are players of the publisher's key.            *)
CopyKey == \A p \in Publishers, q \in Players :
               Player(q) \in hcopy[p] => KeyOf[q] = KeyOf[p]

(* Without an overlap at most one publisher of a key is inside             *)
(* HandleReader.                                                           *)
Single ==
    "overlap" \notin anomaly =>
        \A p, q \in Publishers :
            KeyOf[p] = KeyOf[q] /\ hpc[p] \in InHandleReader /\ hpc[q] \in InHandleReader
                => p = q

BaseInv == TypeOK /\ KeyInv /\ StageInv /\ TransInv /\ CopyKey /\ Single

(* What makes OneHome inductive: a player or a recording that Copy still   *)
(* has to move is on no list but the old stream's, is moved by one         *)
(* publisher only, and has been through AddWriter, so that nobody adds it  *)
(* again.                                                                  *)
HomeOf(w) ==
    /\ \A s, t \in StreamIds : w \in ws[s] /\ w \in ws[t] => s = t
    /\ \A p \in Publishers, s \in StreamIds : w \in hcopy[p] /\ w \in ws[s] => s = ho[p]
    /\ \A p, q \in Publishers : w \in hcopy[p] /\ w \in hcopy[q] => p = q
    /\ \A s \in StreamIds : w \in ws[s] => hpc[w[2]] = "done"
    /\ \A p \in Publishers : w \in hcopy[p] => hpc[w[2]] = "done"

AtHome == \A w \in Writers : w[1] # "hls" => HomeOf(w)

HomeInv == "overlap" \notin anomaly => AtHome

(* What makes TransportRegistered inductive: from its Get to its AddReader *)
(* a publisher works on the registered stream, and once TransStop is over  *)
(* no transport runs, or is about to run, on the stream it replaces.       *)
Spawned(s) == \E q \in Publishers : ts[q] = s /\ tpc[q] = "spawned"

TakeOver(p) ==
    /\ hpc[p] \in {"stop", "flag", "id", "add"} => streams[KeyOf[p]] = hs[p]
    /\ hpc[p] \in {"flag", "id"} => ~Spawned(hs[p])
    /\ hpc[p] = "id" => ~isStart[hs[p]]
    /\ hpc[p] = "copy" => ~Spawned(ho[p]) /\ ~isStart[ho[p]]

Carrying == {"loop", "reading", "deliver"}
Running == Carrying \union {"spawned"}
Live(p) == tpc[p] = "spawned" \/ (tpc[p] \in Carrying /\ isStart[ts[p]])

Registered ==
    /\ \A p \in Publishers : TakeOver(p)
    /\ \A p \in Publishers : Live(p) => streams[KeyOf[p]] = ts[p]
RegisterInv == anomaly \subseteq {"stray"} => Registered

(* What makes PlayerServed inductive: Copy's snapshot misses no player of  *)
(* the old stream.                                                         *)
CopiesAll(p) ==
    hpc[p] = "copy" =>
        \A q \in Players : Player(q) \in ws[ho[p]] => Player(q) \in hcopy[p]
ServedOn(q, s) ==
    \/ streams[KeyOf[q]] = s
    \/ \E p \in Publishers : hpc[p] = "copy" /\ hs[p] = s
    \/ \E p \in Publishers : hpc[p] = "copy" /\ Player(q) \in hcopy[p]

Served ==
    /\ \A p \in Publishers : CopiesAll(p)
    /\ \A q \in Players, s \in StreamIds :
           Player(q) \in open /\ Player(q) \in ws[s] => ServedOn(q, s)
ServeInv == anomaly \subseteq {"missed"} => Served

(* The inductive invariant.                                                *)
StreamsInv == BaseInv /\ HomeInv /\ RegisterInv /\ ServeInv
-----------------------------------------------------------------------------
(* The three kinds of writers.                                             *)
LEMMA WriterForm ==
  ASSUME NEW w \in Writers
  PROVE  /\ w = <<w[1], w[2]>> /\ w[1] \in {"player", "hls", "dvr"}
         /\ w[1] = "player" => w[2] \in Players /\ w = Player(w[2])
         /\ w[1] # "player" => w[2] \in Publishers
         /\ w[1] = "hls" => w = Source(w[2])
         /\ w[1] = "dvr" => w = Recorder(w[2])
  BY DEF Writers, Player, Source, Recorder

LEMMA IsWriter ==
  /\ \A q \in Players : Player(q) \in Writers
  /\ \A p \in Publishers : Source(p) \in Writers /\ Recorder(p) \in Writers
  BY DEF Writers

LEMMA TypeParts == TypeOK <=> Types /\ Blank
  BY DEF TypeOK, Types, Blank, Pcs, TransPcs


(* What the actions with alternatives do, one alternative at a time.       *)
LEMMA GetEffect ==
  ASSUME NEW p \in Publishers, HandleReaderGet(p)
  PROVE  \/ /\ streams[KeyOf[p]] # Nil
            /\ hs' = [hs EXCEPT ![p] = streams[KeyOf[p]]]
            /\ hpc' = [hpc EXCEPT ![p] = "stop"]
            /\ nextStream' = nextStream
         \/ /\ streams[KeyOf[p]] = Nil /\ nextStream \in StreamIds
            /\ hs' = [hs EXCEPT ![p] = nextStream]
            /\ hpc' = [hpc EXCEPT ![p] = "set"]
            /\ nextStream' = nextStream + 1
  BY DEF HandleReaderGet, NewStream

LEMMA ReplaceEffect ==
  ASSUME NEW p \in Publishers, ReplaceOrReuse(p)
  PROVE  \/ /\ nextStream \in StreamIds
            /\ hs' = [hs EXCEPT ![p] = nextStream]
            /\ ho' = [ho EXCEPT ![p] = hs[p]]
            /\ hcopy' = [hcopy EXCEPT ![p] = ws[hs[p]]]
            /\ hpc' = [hpc EXCEPT ![p] = "copy"]
            /\ nextStream' = nextStream + 1
         \/ /\ hpc' = [hpc EXCEPT ![p] = "add"]
            /\ UNCHANGED <<nextStream, hs, ho, hcopy>>
  BY DEF ReplaceOrReuse, NewStream

LEMMA ReturnEffect ==
  ASSUME NEW h \in Conns, HandleWriterReturns(h)
  PROVE  \/ /\ hw[h][1] = "hls"
            /\ hw' = [hw EXCEPT ![h] = Recorder(h)]
            /\ hpc' = [hpc EXCEPT ![h] = "has"]
            /\ open' = open \union {Recorder(h)}
         \/ /\ hw[h][1] # "hls"
            /\ hw' = [hw EXCEPT ![h] = NoWriter]
            /\ hpc' = [hpc EXCEPT ![h] = "done"]
            /\ open' = open
  BY DEF HandleWriterReturns, NextIsRecorder

LEMMA AddReaderEffect ==
  ASSUME NEW p \in Publishers, AddReader(p)
  PROVE  \/ /\ hpc' = [hpc EXCEPT ![p] = "hls"]
            /\ UNCHANGED <<open, hw>>
         \/ /\ hw' = [hw EXCEPT ![p] = Recorder(p)]
            /\ hpc' = [hpc EXCEPT ![p] = "has"]
            /\ open' = open \union {Recorder(p)}
  BY DEF AddReader, NextIsRecorder

LEMMA HlsEffect ==
  ASSUME NEW p \in Publishers, HlsWriter(p)
  PROVE  \/ /\ hlsConns' = [hlsConns EXCEPT ![KeyOf[p]] = p]
            /\ open' = open \union {Source(p)}
            /\ hw' = [hw EXCEPT ![p] = Source(p)]
         \/ /\ hlsConns[KeyOf[p]] # NoPub
            /\ hw' = [hw EXCEPT ![p] = Source(hlsConns[KeyOf[p]])]
            /\ UNCHANGED <<hlsConns, open>>
  BY DEF HlsWriter

LEMMA CreateEffect ==
  ASSUME NEW h \in Conns, HandleWriterCreate(h)
  PROVE  /\ nextStream \in StreamIds /\ nextStream' = nextStream + 1
         /\ streams' = [streams EXCEPT ![KeyOf[h]] = nextStream]
         /\ HandleWriterReturns(h)
  BY DEF HandleWriterCreate, NewStream

LEMMA WGetEffect ==
  ASSUME NEW h \in Conns, HandleWriterGet(h)
  PROVE  \/ /\ streams[KeyOf[h]] # Nil
            /\ hs' = [hs EXCEPT ![h] = streams[KeyOf[h]]]
            /\ hpc' = [hpc EXCEPT ![h] = "attach"]
            /\ UNCHANGED <<hw, open>>
         \/ HandleWriterReturns(h) /\ hs' = hs
  BY DEF HandleWriterGet

(* Copy takes one writer from the old stream to the new one.               *)
LEMMA CopyEffect ==
  ASSUME Types, StageInv, NEW p \in Publishers, NEW w \in hcopy[p], Copy(p, w)
  PROVE  /\ w \in Writers
         /\ hs[p] \in StreamIds /\ ho[p] \in StreamIds /\ hs[p] # ho[p]
         /\ ws' \in [StreamIds -> SUBSET Writers]
         /\ \A s \in StreamIds : ws'[s] = IF s = ho[p] THEN ws[s] \ {w}
                                          ELSE IF s = hs[p] THEN ws[s] \union {w}
                                          ELSE ws[s]
  <1>1. w \in Writers /\ hpc[p] = "copy"
    BY DEF Types, Conns, Copy
  <1>2. hs[p] \in StreamIds /\ ho[p] \in StreamIds /\ hs[p] # ho[p]
    BY <1>1 DEF Types, Conns, StageInv, StageOf, InHandleReader
  <1> DEFINE gone == [ws EXCEPT ![ho[p]] = @ \ {w}]
  <1>3. ws \in [StreamIds -> SUBSET Writers]
    BY DEF Types
  <1>4. gone \in [StreamIds -> SUBSET Writers]
    BY <1>1, <1>3
  <1>5. ws' = [gone EXCEPT ![hs[p]] = @ \union {w}]
    BY DEF Copy
  <1>6. \A s \in StreamIds : gone[s] = IF s = ho[p] THEN ws[s] \ {w} ELSE ws[s]
    BY <1>2, <1>3
  <1> HIDE DEF gone
  <1>7. ws' \in [StreamIds -> SUBSET Writers]
    BY <1>1, <1>4, <1>5
  <1>8. \A s \in StreamIds : ws'[s] = IF s = hs[p] THEN gone[s] \union {w} ELSE gone[s]
    BY <1>2, <1>4, <1>5
  <1> QED
    BY <1>1, <1>2, <1>6, <1>7, <1>8

(* Each step keeps the types.                                              *)
LEMMA TypesKept ==
  ASSUME Types, StageInv, TransInv, [Next]_vars PROVE Types'
  <1>1. ASSUME NEW p \in Publishers, HandleReaderGet(p) PROVE Types'
    <2>1. hs' \in [Conns -> StreamIds \union {Nil}]
      BY <1>1, GetEffect, StreamsAssumption DEF Types, Conns
    <2>2. hpc' \in [Conns -> Pcs]
      BY <1>1, GetEffect DEF Types, Pcs, Conns
    <2>3. nextStream' \in 1 .. MaxStreams + 1
      BY <1>1, GetEffect, StreamsAssumption DEF Types, StreamIds
    <2>4. anomaly' \subseteq {"overlap", "missed", "evicted", "clobbered", "stray"}
      BY <1>1 DEF Types, HandleReaderGet
    <2> QED
      BY <1>1, <2>1, <2>2, <2>3, <2>4
      DEF HandleReaderGet, Types, streamVars, handlerVars, transVars
  <1>2. ASSUME NEW p \in Publishers, TransStopClose(p) PROVE Types'
    <2>1. open' \subseteq Publishers \union Writers
      BY <1>2, IsWriter DEF Types, TransStopClose
    <2>2. hpc' \in [Conns -> Pcs]
      BY <1>2 DEF Types, TransStopClose, Pcs, Conns
    <2>3. anomaly' \subseteq {"overlap", "missed", "evicted", "clobbered", "stray"}
      BY <1>2 DEF Types, TransStopClose
    <2> QED
      BY <1>2, <2>1, <2>2, <2>3
      DEF TransStopClose, Types, streamVars, handlerVars, transVars
  <1>3. ASSUME NEW p \in Publishers, TransStopFlag(p) PROVE Types'
    <2>1. isStart' \in [StreamIds -> BOOLEAN]
      BY <1>3 DEF Types, TransStopFlag
    <2>2. hpc' \in [Conns -> Pcs]
      BY <1>3 DEF Types, TransStopFlag, Pcs, Conns
    <2> QED
      BY <1>3, <2>1, <2>2
      DEF TransStopFlag, Types, streamVars, handlerVars, transVars
  <1>4. ASSUME NEW p \in Publishers, ReplaceOrReuse(p) PROVE Types'
    <2>1. hs[p] \in StreamIds /\ ws[hs[p]] \subseteq Writers
      BY <1>4 DEF ReplaceOrReuse, StageInv, StageOf, InHandleReader, Types, Conns
    <2>2. nextStream' \in 1 .. MaxStreams + 1
      BY <1>4, ReplaceEffect, StreamsAssumption DEF Types, StreamIds
    <2>3. hs' \in [Conns -> StreamIds \union {Nil}]
      BY <1>4, <2>1, ReplaceEffect, StreamsAssumption DEF Types, Conns
    <2>4. ho' \in [Conns -> StreamIds \union {Nil}]
      BY <1>4, <2>1, ReplaceEffect DEF Types, Conns
    <2>5. hcopy' \in [Conns -> SUBSET Writers]
      BY <1>4, <2>1, ReplaceEffect DEF Types, Conns
    <2>6. hpc' \in [Conns -> Pcs]
      BY <1>4, <2>1, ReplaceEffect DEF Types, Pcs, Conns
    <2> QED
      BY <1>4, <2>1, <2>2, <2>3, <2>4, <2>5, <2>6
      DEF ReplaceOrReuse, Types, streamVars, handlerVars, transVars
  <1>5. ASSUME NEW p \in Publishers, NEW w \in hcopy[p], Copy(p, w) PROVE Types'
    <2>1. ws' \in [StreamIds -> SUBSET Writers]
      BY <1>5, CopyEffect
    <2>2. hcopy' \in [Conns -> SUBSET Writers]
      BY <1>5 DEF Types, Copy, Conns
    <2> QED
      BY <1>5, <2>1, <2>2
      DEF Copy, Types, streamVars, handlerVars, transVars
  <1>6. ASSUME NEW p \in Publishers, HandleReaderSet(p) PROVE Types'
    <2>1. streams' \in [Keys -> StreamIds \union {Nil}]
      BY <1>6, StreamsAssumption DEF Types, HandleReaderSet, Conns
    <2>2. hpc' \in [Conns -> Pcs]
      BY <1>6 DEF Types, HandleReaderSet, Pcs, Conns
    <2>3. anomaly' \subseteq {"overlap", "missed", "evicted", "clobbered", "stray"}
      BY <1>6 DEF Types, HandleReaderSet
    <2> QED
      BY <1>6, <2>1, <2>2, <2>3
      DEF HandleReaderSet, Types, streamVars, handlerVars, transVars
  <1>7. ASSUME NEW p \in Publishers, AddReader(p) PROVE Types'
    <2>1. rd' \in [StreamIds -> Publishers \union {NoPub}]
      BY <1>7 DEF Types, AddReader
    <2>2. tpc' \in [Publishers -> TransPcs]
      BY <1>7 DEF Types, AddReader, TransPcs
    <2>3. ts' \in [Publishers -> StreamIds \union {Nil}]
      BY <1>7 DEF Types, AddReader, Conns
    <2>4. hpc' \in [Conns -> Pcs]
      BY <1>7, AddReaderEffect DEF Types, Pcs, Conns
    <2>5. open' \subseteq Publishers \union Writers
      BY <1>7, AddReaderEffect, IsWriter DEF Types
    <2>6. hw' \in [Conns -> Writers \union {NoWriter}]
      BY <1>7, AddReaderEffect, IsWriter DEF Types, Conns
    <2>7. hs' \in [Conns -> StreamIds \union {Nil}]
      BY <1>7, StreamsAssumption DEF Types, AddReader, Conns
    <2> QED
      BY <1>7, <2>1, <2>2, <2>3, <2>4, <2>5, <2>6, <2>7
      DEF AddReader, Types, streamVars, handlerVars, transVars
  <1>8. ASSUME NEW p \in Publishers, HlsWriter(p) PROVE Types'
    <2>1. hlsConns' \in [Keys -> Publishers \union {NoPub}]
      BY <1>8, HlsEffect, StreamsAssumption DEF Types
    <2>2. open' \subseteq Publishers \union Writers
      BY <1>8, HlsEffect, IsWriter DEF Types
    <2>3. hw' \in [Conns -> Writers \union {NoWriter}]
      BY <1>8, HlsEffect, IsWriter, StreamsAssumption DEF Types, Conns
    <2>4. hpc' \in [Conns -> Pcs]
      BY <1>8 DEF Types, HlsWriter, Pcs, Conns
    <2> QED
      BY <1>8, <2>1, <2>2, <2>3, <2>4
      DEF HlsWriter, Types, streamVars, handlerVars, transVars
  <1>9. ASSUME NEW p \in Publishers, TransBegin(p) PROVE Types'
    <2>1. isStart' \in [StreamIds -> BOOLEAN]
      BY <1>9 DEF Types, TransBegin
    <2>2. tpc' \in [Publishers -> TransPcs]
      BY <1>9 DEF Types, TransBegin, TransPcs
    <2> QED
      BY <1>9, <2>1, <2>2
      DEF TransBegin, Types, streamVars, handlerVars, transVars
  <1>10. ASSUME NEW p \in Publishers, TransStopped(p) PROVE Types'
    <2>1. ts[p] \in StreamIds
      BY <1>10 DEF TransStopped, TransInv, Types
    <2>2. todo' \in [Publishers -> SUBSET Writers]
      BY <1>10, <2>1 DEF Types, TransStopped, CloseInter
    <2>3. tpc' \in [Publishers -> TransPcs]
      BY <1>10, <2>1 DEF Types, TransStopped, TransPcs
    <2> QED
      BY <1>10, <2>1, <2>2, <2>3
      DEF TransStopped, Types, streamVars, handlerVars, transVars
  <1>11. ASSUME NEW p \in Publishers, TransRead(p) PROVE Types'
    <2>1. ts[p] \in StreamIds
      BY <1>11 DEF TransRead, TransInv, Types
    <2>2. tr' \in [Publishers -> Publishers \union {NoPub}]
      BY <1>11, <2>1 DEF Types, TransRead
    <2>3. tpc' \in [Publishers -> TransPcs]
      BY <1>11, <2>1 DEF Types, TransRead, TransPcs
    <2> QED
      BY <1>11, <2>1, <2>2, <2>3
      DEF TransRead, Types, streamVars, handlerVars, transVars
  <1>12. ASSUME NEW p \in Publishers, TransReadFails(p) PROVE Types'
    <2>1. ts[p] \in StreamIds
      BY <1>12 DEF TransReadFails, TransInv, Types
    <2>2. tr' \in [Publishers -> Publishers \union {NoPub}]
      BY <1>12, <2>1 DEF Types, TransReadFails
    <2>3. todo' \in [Publishers -> SUBSET Writers]
      BY <1>12, <2>1 DEF Types, TransReadFails, CloseInter
    <2>4. tpc' \in [Publishers -> TransPcs]
      BY <1>12, <2>1 DEF Types, TransReadFails, TransPcs
    <2> QED
      BY <1>12, <2>1, <2>2, <2>3, <2>4
      DEF TransReadFails, Types, streamVars, handlerVars, transVars
  <1>13. ASSUME NEW p \in Publishers, NEW w \in todo[p], TransDeliver(p, w) PROVE Types'
    <2>1. todo' \in [Publishers -> SUBSET Writers]
      BY <1>13 DEF Types, TransDeliver, CloseInter
    <2>2. ws' \in [StreamIds -> SUBSET Writers]
      BY <1>13 DEF Types, TransDeliver, WritersLeft
    <2> QED
      BY <1>13, <2>1, <2>2
      DEF TransDeliver, Types, streamVars, handlerVars, transVars
  <1>14. ASSUME NEW p \in Publishers, NEW w \in todo[p], TransCloseWriter(p, w) PROVE Types'
    <2>1. todo' \in [Publishers -> SUBSET Writers]
      BY <1>14 DEF Types, TransCloseWriter, CloseInter
    <2>2. open' \subseteq Publishers \union Writers
      BY <1>14, IsWriter DEF Types, TransCloseWriter
    <2>3. ws' \in [StreamIds -> SUBSET Writers]
      BY <1>14 DEF Types, TransCloseWriter, WritersLeft
    <2> QED
      BY <1>14, <2>1, <2>2, <2>3
      DEF TransCloseWriter, Types, streamVars, handlerVars, transVars
  <1>15. ASSUME NEW p \in Publishers, TransDelivered(p) PROVE Types'
    <2>1. tpc' \in [Publishers -> TransPcs]
      BY <1>15 DEF Types, TransDelivered, TransPcs
    <2> QED
      BY <1>15, <2>1
      DEF TransDelivered, Types, streamVars, handlerVars, transVars
  <1>16. ASSUME NEW p \in Publishers, TransEnd(p) PROVE Types'
    <2>1. isStart' \in [StreamIds -> BOOLEAN]
      BY <1>16 DEF Types, TransEnd
    <2>2. tpc' \in [Publishers -> TransPcs]
      BY <1>16 DEF Types, TransEnd, TransPcs
    <2> QED
      BY <1>16, <2>1, <2>2
      DEF TransEnd, Types, streamVars, handlerVars, transVars
  <1>17. ASSUME NEW p \in Publishers, TransPacket(p) PROVE Types'
    <2>1. ts[p] \in StreamIds
      BY <1>17 DEF TransPacket, TransInv, Types
    <2>2. tr' \in [Publishers -> Publishers \union {NoPub}]
      BY <1>17, <2>1 DEF Types, TransPacket
    <2>3. todo' \in [Publishers -> SUBSET Writers]
      BY <1>17, <2>1 DEF Types, TransPacket, CloseInter
    <2>4. tpc' \in [Publishers -> TransPcs]
      BY <1>17, <2>1 DEF Types, TransPacket, TransPcs
    <2> QED
      BY <1>17, <2>1, <2>2, <2>3, <2>4
      DEF TransPacket, Types, streamVars, handlerVars, transVars
  <1>18. ASSUME NEW q \in Players, PlayerArrives(q) PROVE Types'
    <2>1. hpc' \in [Conns -> Pcs]
      BY <1>18 DEF Types, PlayerArrives, Pcs, Conns
    <2>2. hw' \in [Conns -> Writers \union {NoWriter}]
      BY <1>18, IsWriter DEF Types, PlayerArrives, Conns
    <2> QED
      BY <1>18, <2>1, <2>2
      DEF PlayerArrives, Types, streamVars, handlerVars, transVars
  <1>19. ASSUME NEW q \in Players, HttpFlvCheck(q) PROVE Types'
    <2>1. hpc' \in [Conns -> Pcs]
      BY <1>19 DEF Types, HttpFlvCheck, Pcs, Conns
    <2>2. open' \subseteq Publishers \union Writers
      BY <1>19, IsWriter DEF Types, HttpFlvCheck
    <2> QED
      BY <1>19, <2>1, <2>2
      DEF HttpFlvCheck, Types, streamVars, handlerVars, transVars
  <1>20. ASSUME NEW h \in Conns, HandleWriterHas(h) PROVE Types'
    <2>1. hpc' \in [Conns -> Pcs]
      BY <1>20 DEF Types, HandleWriterHas, Pcs, Conns
    <2> QED
      BY <1>20, <2>1
      DEF HandleWriterHas, Types, streamVars, handlerVars, transVars
  <1>21. ASSUME NEW h \in Conns, HandleWriterCreate(h) PROVE Types'
    <2>1. hw[h] \in Writers /\ (hw[h][1] = "hls" => Recorder(h) \in Writers)
      BY <1>21, IsWriter DEF HandleWriterCreate, StageInv, StageOf, Types
    <2>2. HandleWriterReturns(h)
      BY <1>21 DEF HandleWriterCreate
    <2>3. nextStream' \in 1 .. MaxStreams + 1
      BY <1>21, <2>1, <2>2, CreateEffect, StreamsAssumption DEF Types, StreamIds
    <2>4. streams' \in [Keys -> StreamIds \union {Nil}]
      BY <1>21, <2>1, <2>2, CreateEffect, StreamsAssumption DEF Types
    <2>5. hpc' \in [Conns -> Pcs]
      BY <1>21, <2>1, <2>2, ReturnEffect DEF Types, Pcs, Conns
    <2>6. hw' \in [Conns -> Writers \union {NoWriter}]
      BY <1>21, <2>1, <2>2, ReturnEffect, IsWriter DEF Types, Conns
    <2>7. open' \subseteq Publishers \union Writers
      BY <1>21, <2>1, <2>2, ReturnEffect, IsWriter DEF Types
    <2>8. anomaly' \subseteq {"overlap", "missed", "evicted", "clobbered", "stray"}
      BY <1>21, <2>1, <2>2 DEF Types, HandleWriterCreate
    <2> QED
      BY <1>21, <2>1, <2>2, <2>3, <2>4, <2>5, <2>6, <2>7, <2>8
      DEF HandleWriterCreate, Types, streamVars, handlerVars, transVars
  <1>22. ASSUME NEW h \in Conns, HandleWriterGet(h) PROVE Types'
    <2>1. hw[h] \in Writers /\ (hw[h][1] = "hls" => Recorder(h) \in Writers)
      BY <1>22, IsWriter DEF HandleWriterGet, StageInv, StageOf, Types
    <2>2. HandleWriterReturns(h) \/ (hpc' = [hpc EXCEPT ![h] = "attach"] /\ UNCHANGED <<hw, open>>)
      BY <1>22 DEF HandleWriterGet
    <2>3. hs' \in [Conns -> StreamIds \union {Nil}]
      BY <1>22, <2>1, <2>2, WGetEffect, StreamsAssumption DEF Types, Conns
    <2>4. hpc' \in [Conns -> Pcs]
      BY <1>22, <2>1, <2>2, ReturnEffect DEF Types, Pcs, Conns
    <2>5. hw' \in [Conns -> Writers \union {NoWriter}]
      BY <1>22, <2>1, <2>2, ReturnEffect, IsWriter DEF Types, Conns
    <2>6. open' \subseteq Publishers \union Writers
      BY <1>22, <2>1, <2>2, ReturnEffect, IsWriter DEF Types
    <2> QED
      BY <1>22, <2>1, <2>2, <2>3, <2>4, <2>5, <2>6
      DEF HandleWriterGet, Types, streamVars, handlerVars, transVars
  <1>23. ASSUME NEW h \in Conns, AddWriter(h) PROVE Types'
    <2>1. hw[h] \in Writers /\ (hw[h][1] = "hls" => Recorder(h) \in Writers)
      BY <1>23, IsWriter DEF AddWriter, StageInv, StageOf, Types
    <2>2. HandleWriterReturns(h)
      BY <1>23 DEF AddWriter
    <2>3. ws' \in [StreamIds -> SUBSET Writers]
      BY <1>23, <2>1, <2>2 DEF Types, AddWriter, WritersLeft
    <2>4. hs' \in [Conns -> StreamIds \union {Nil}]
      BY <1>23, <2>1, <2>2, StreamsAssumption DEF Types, AddWriter, Conns
    <2>5. hpc' \in [Conns -> Pcs]
      BY <1>23, <2>1, <2>2, ReturnEffect DEF Types, Pcs, Conns
    <2>6. hw' \in [Conns -> Writers \union {NoWriter}]
      BY <1>23, <2>1, <2>2, ReturnEffect, IsWriter DEF Types, Conns
    <2>7. open' \subseteq Publishers \union Writers
      BY <1>23, <2>1, <2>2, ReturnEffect, IsWriter DEF Types
    <2>8. anomaly' \subseteq {"overlap", "missed", "evicted", "clobbered", "stray"}
      BY <1>23, <2>1, <2>2 DEF Types, AddWriter
    <2> QED
      BY <1>23, <2>1, <2>2, <2>3, <2>4, <2>5, <2>6, <2>7, <2>8
      DEF AddWriter, Types, streamVars, handlerVars, transVars
  <1>24. ASSUME NEW h \in Conns, Leave(h) PROVE Types'
    <2>1. open' \subseteq Publishers \union Writers
      BY <1>24, IsWriter DEF Types, Leave
    <2> QED
      BY <1>24, <2>1
      DEF Leave, Types, streamVars, handlerVars, transVars
  <1>25. ASSUME NEW k \in Keys, NEW r \in BOOLEAN, NEW d \in SUBSET ws[streams[k]],
                StreamCheckAlive(k, r, d) PROVE Types'
    <2>1. ws' \in [StreamIds -> SUBSET Writers]
      BY <1>25 DEF Types, StreamCheckAlive, WritersLeft
    <2>2. open' \subseteq Publishers \union Writers
      BY <1>25, IsWriter DEF Types, StreamCheckAlive
    <2>3. doomed' \in [Keys -> BOOLEAN]
      BY <1>25 DEF Types, StreamCheckAlive
    <2> QED
      BY <1>25, <2>1, <2>2, <2>3
      DEF StreamCheckAlive, Types, streamVars, handlerVars, transVars
  <1>26. ASSUME NEW k \in Keys, SweepRemove(k) PROVE Types'
    <2>1. streams' \in [Keys -> StreamIds \union {Nil}]
      BY <1>26, StreamsAssumption DEF Types, SweepRemove
    <2>2. doomed' \in [Keys -> BOOLEAN]
      BY <1>26 DEF Types, SweepRemove
    <2>3. anomaly' \subseteq {"overlap", "missed", "evicted", "clobbered", "stray"}
      BY <1>26 DEF Types, SweepRemove
    <2> QED
      BY <1>26, <2>1, <2>2, <2>3
      DEF SweepRemove, Types, streamVars, handlerVars, transVars
  <1>27. ASSUME NEW k \in Keys, HlsCheckStop(k) PROVE Types'
    <2>1. hlsConns' \in [Keys -> Publishers \union {NoPub}]
      BY <1>27, StreamsAssumption DEF Types, HlsCheckStop
    <2> QED
      BY <1>27, <2>1
      DEF HlsCheckStop, Types, streamVars, handlerVars, transVars
  <1>28. CASE UNCHANGED vars
    BY <1>28 DEF vars, Types
  <1> QED
    BY <1>1, <1>2, <1>3, <1>4, <1>5, <1>6, <1>7, <1>8, <1>9, <1>10, <1>11, <1>12,
       <1>13, <1>14, <1>15, <1>16, <1>17, <1>18, <1>19, <1>20, <1>21, <1>22, <1>23,
       <1>24, <1>25, <1>26, <1>27, <1>28
    DEF Next, HandleReader, TransStart, HandleWriter, SweepCount

(* Steps of the transports, of connections that leave and of the sweeper's *)
(* count touch no handler and no key, and only take writers off lists.     *)
Background ==
    \/ \E p \in Publishers : TransStart(p) \/ TransPacket(p)
    \/ \E h \in Conns : Leave(h)
    \/ \E k \in Keys : SweepCount(k) \/ HlsCheckStop(k)

LEMMA BackgroundEffect ==
  ASSUME Types, Background
  PROVE  /\ UNCHANGED <<streams, nextStream, rd, hpc, hs, ho, hcopy, hw, ts, anomaly>>
         /\ open' \subseteq open
         /\ \A s \in StreamIds : ws'[s] \subseteq ws[s]
         /\ \A p \in Publishers : /\ tpc[p] = "none" => tpc'[p] = "none"
                                  /\ tpc'[p] = "spawned" => tpc[p] = "spawned"
                                  /\ tpc'[p] \in Carrying => tpc[p] \in Running
         /\ \A s \in StreamIds : isStart'[s] => isStart[s] \/ Spawned(s)
  <1> DEFINE Goal == /\ UNCHANGED <<streams, nextStream, rd, hpc, hs, ho, hcopy, hw, ts, anomaly>>
                     /\ open' \subseteq open
                     /\ \A s \in StreamIds : ws'[s] \subseteq ws[s]
                     /\ \A p \in Publishers : /\ tpc[p] = "none" => tpc'[p] = "none"
                                              /\ tpc'[p] = "spawned" => tpc[p] = "spawned"
                                              /\ tpc'[p] \in Carrying => tpc[p] \in Running
                     /\ \A s \in StreamIds : isStart'[s] => isStart[s] \/ Spawned(s)
  <1> USE DEF Types, Spawned, Carrying, Running, streamVars, handlerVars, transVars
  <1>1. ASSUME NEW p \in Publishers, TransBegin(p) PROVE Goal
    BY <1>1 DEF TransBegin
  <1>2. ASSUME NEW p \in Publishers, TransStopped(p) PROVE Goal
    BY <1>2 DEF TransStopped
  <1>3. ASSUME NEW p \in Publishers, TransRead(p) PROVE Goal
    BY <1>3 DEF TransRead
  <1>4. ASSUME NEW p \in Publishers, TransReadFails(p) PROVE Goal
    BY <1>4 DEF TransReadFails
  <1>5. ASSUME NEW p \in Publishers, NEW w \in todo[p], TransDeliver(p, w) PROVE Goal
    BY <1>5 DEF TransDeliver
  <1>6. ASSUME NEW p \in Publishers, NEW w \in todo[p], TransCloseWriter(p, w) PROVE Goal
    BY <1>6 DEF TransCloseWriter
  <1>7. ASSUME NEW p \in Publishers, TransDelivered(p) PROVE Goal
    BY <1>7 DEF TransDelivered
  <1>8. ASSUME NEW p \in Publishers, TransEnd(p) PROVE Goal
    BY <1>8 DEF TransEnd
  <1>9. ASSUME NEW p \in Publishers, TransPacket(p) PROVE Goal
    BY <1>9 DEF TransPacket
  <1>10. ASSUME NEW h \in Conns, Leave(h) PROVE Goal
    BY <1>10 DEF Leave
  <1>11. ASSUME NEW k \in Keys, NEW r \in BOOLEAN, NEW d \in SUBSET ws[streams[k]],
                StreamCheckAlive(k, r, d) PROVE Goal
    BY <1>11 DEF StreamCheckAlive, WritersLeft
  <1>12. ASSUME NEW k \in Keys, HlsCheckStop(k) PROVE Goal
    BY <1>12 DEF HlsCheckStop
  <1> HIDE DEF Goal
  <1>13. Goal
    BY <1>1, <1>2, <1>3, <1>4, <1>5, <1>6, <1>7, <1>8, <1>9, <1>10, <1>11, <1>12
    DEF Background, TransStart, SweepCount
  <1> QED
    BY <1>13 DEF Goal

(* The steps of the handlers and the sweeper's removal, one by one.        *)
LEMMA Cases ==
  ASSUME Next
  PROVE  \/ Background
         \/ \E p \in Publishers : \/ HandleReaderGet(p) \/ TransStopClose(p) \/ TransStopFlag(p)
                                  \/ ReplaceOrReuse(p) \/ (\E w \in hcopy[p] : Copy(p, w))
                                  \/ HandleReaderSet(p) \/ AddReader(p) \/ HlsWriter(p)
         \/ \E q \in Players : PlayerArrives(q) \/ HttpFlvCheck(q)
         \/ \E h \in Conns : \/ HandleWriterHas(h) \/ HandleWriterCreate(h)
                             \/ HandleWriterGet(h) \/ AddWriter(h)
         \/ \E k \in Keys : SweepRemove(k)
  BY DEF Next, Background, HandleReader, HandleWriter

(* Races are recorded for good.                                            *)
LEMMA AnomalyGrows ==
  ASSUME Types, [Next]_vars PROVE anomaly \subseteq anomaly'
  <1>1. CASE Background
    BY <1>1, BackgroundEffect
  <1>2. CASE UNCHANGED vars
    BY <1>2 DEF vars
  <1>3. CASE Next /\ ~Background
    BY <1>3, Cases
    DEF HandleReaderGet, TransStopClose, TransStopFlag, ReplaceOrReuse, Copy,
          HandleReaderSet, AddReader, HlsWriter, PlayerArrives, HttpFlvCheck,
          HandleWriterHas, HandleWriterCreate, HandleWriterGet, AddWriter, SweepRemove
  <1> QED
    BY <1>1, <1>2, <1>3

(* Streams that somebody has in hand have been created.                    *)
LEMMA InHandCreated ==
  ASSUME Types, KeyInv
  PROVE  /\ \A h \in Conns : hs[h] # Nil => hs[h] \in StreamIds /\ hs[h] < nextStream
         /\ \A h \in Conns : ho[h] # Nil => ho[h] \in StreamIds /\ ho[h] < nextStream
         /\ \A p \in Publishers : ts[p] # Nil => ts[p] \in StreamIds /\ ts[p] < nextStream
         /\ \A k \in Keys : streams[k] # Nil => streams[k] \in StreamIds /\ streams[k] < nextStream
  BY StreamsAssumption DEF Types, KeyInv, Refers, Conns

(* A step of one handler leaves the others where they are.                 *)
LEMMA StageOther ==
  ASSUME StageInv, NEW x \in Conns, StageOf(x)',
         \A g \in Conns : g # x => /\ hpc'[g] = hpc[g] /\ hs'[g] = hs[g] /\ ho'[g] = ho[g]
                                   /\ hcopy'[g] = hcopy[g] /\ hw'[g] = hw[g]
  PROVE  StageInv'
  <1> SUFFICES ASSUME NEW g \in Conns, g # x PROVE StageOf(g)'
    BY DEF StageInv
  <1> QED
    BY DEF StageInv, StageOf

(* Each handler stays where its locals fit.                                *)
LEMMA StageKept ==
  ASSUME Types, KeyInv, StageInv, [Next]_vars PROVE StageInv'
  <1>1. ASSUME NEW p \in Publishers, HandleReaderGet(p) PROVE StageInv'
    <2>1. p \in Conns
      BY DEF Conns
    <2>2. \A g \in Conns : g # p => /\ hpc'[g] = hpc[g] /\ hs'[g] = hs[g] /\ ho'[g] = ho[g]
                                    /\ hcopy'[g] = hcopy[g] /\ hw'[g] = hw[g]
      BY <1>1, GetEffect DEF HandleReaderGet, Types
    <2>3. StageOf(p)
      BY <2>1 DEF StageInv
    <2>4. StageOf(p)'
      BY <1>1, <2>1, <2>3, GetEffect, StreamsAssumption
      DEF HandleReaderGet, Types, StageOf, InHandleReader, Conns, Nil, StreamIds,
          NoWriter, Player, Recorder, Source
    <2> QED
      BY <2>1, <2>2, <2>4, StageOther
  <1>2. ASSUME NEW p \in Publishers, TransStopClose(p) PROVE StageInv'
    <2>1. p \in Conns
      BY DEF Conns
    <2>2. \A g \in Conns : g # p => /\ hpc'[g] = hpc[g] /\ hs'[g] = hs[g] /\ ho'[g] = ho[g]
                                    /\ hcopy'[g] = hcopy[g] /\ hw'[g] = hw[g]
      BY <1>2 DEF TransStopClose, Types
    <2>3. StageOf(p)
      BY <2>1 DEF StageInv
    <2>4. StageOf(p)'
      BY <1>2, <2>1, <2>3, StreamsAssumption
      DEF TransStopClose, Types, StageOf, InHandleReader, Conns, Nil, StreamIds,
          NoWriter, Player, Recorder, Source
    <2> QED
      BY <2>1, <2>2, <2>4, StageOther
  <1>3. ASSUME NEW p \in Publishers, TransStopFlag(p) PROVE StageInv'
    <2>1. p \in Conns
      BY DEF Conns
    <2>2. \A g \in Conns : g # p => /\ hpc'[g] = hpc[g] /\ hs'[g] = hs[g] /\ ho'[g] = ho[g]
                                    /\ hcopy'[g] = hcopy[g] /\ hw'[g] = hw[g]
      BY <1>3 DEF TransStopFlag, Types
    <2>3. StageOf(p)
      BY <2>1 DEF StageInv
    <2>4. StageOf(p)'
      BY <1>3, <2>1, <2>3, StreamsAssumption
      DEF TransStopFlag, Types, StageOf, InHandleReader, Conns, Nil, StreamIds,
          NoWriter, Player, Recorder, Source
    <2> QED
      BY <2>1, <2>2, <2>4, StageOther
  <1>4. ASSUME NEW p \in Publishers, ReplaceOrReuse(p) PROVE StageInv'
    <2>1. p \in Conns
      BY DEF Conns
    <2>2. \A g \in Conns : g # p => /\ hpc'[g] = hpc[g] /\ hs'[g] = hs[g] /\ ho'[g] = ho[g]
                                    /\ hcopy'[g] = hcopy[g] /\ hw'[g] = hw[g]
      BY <1>4, ReplaceEffect DEF ReplaceOrReuse, Types
    <2>3. StageOf(p)
      BY <2>1 DEF StageInv
    <2>4. StageOf(p)'
      <3>1. hpc[p] = "id" /\ hw' = hw
        BY <1>4 DEF ReplaceOrReuse
      <3>2. CASE /\ nextStream \in StreamIds
                 /\ hs' = [hs EXCEPT ![p] = nextStream]
                 /\ ho' = [ho EXCEPT ![p] = hs[p]]
                 /\ hcopy' = [hcopy EXCEPT ![p] = ws[hs[p]]]
                 /\ hpc' = [hpc EXCEPT ![p] = "copy"]
        <4>1. hs[p] # Nil /\ hs[p] # nextStream
          BY <2>1, <2>3, <3>1, InHandCreated
          DEF StageOf, InHandleReader, Types, StreamIds
        <4>2. /\ hpc'[p] = "copy" /\ hs'[p] = nextStream /\ ho'[p] = hs[p]
              /\ hw'[p] = hw[p] /\ nextStream # Nil
          BY <2>1, <3>1, <3>2 DEF Types, StreamIds, Nil
        <4> QED
          BY <2>3, <3>1, <4>1, <4>2 DEF StageOf, InHandleReader
      <3>3. CASE hpc' = [hpc EXCEPT ![p] = "add"] /\ UNCHANGED <<nextStream, hs, ho, hcopy>>
        <4>1. hpc'[p] = "add" /\ hw'[p] = hw[p]
          BY <2>1, <3>1, <3>3 DEF Types
        <4> QED
          BY <2>3, <3>1, <3>3, <4>1 DEF StageOf, InHandleReader
      <3> QED
        BY <1>4, <3>2, <3>3, ReplaceEffect
    <2> QED
      BY <2>1, <2>2, <2>4, StageOther
  <1>5. ASSUME NEW p \in Publishers, NEW w \in hcopy[p], Copy(p, w) PROVE StageInv'
    <2>1. p \in Conns
      BY DEF Conns
    <2>2. \A g \in Conns : g # p => /\ hpc'[g] = hpc[g] /\ hs'[g] = hs[g] /\ ho'[g] = ho[g]
                                    /\ hcopy'[g] = hcopy[g] /\ hw'[g] = hw[g]
      BY <1>5 DEF Copy, Types
    <2>3. StageOf(p)
      BY <2>1 DEF StageInv
    <2>4. StageOf(p)'
      BY <1>5, <2>1, <2>3, StreamsAssumption
      DEF Copy, Types, StageOf, InHandleReader, Conns, Nil, StreamIds, NoWriter,
          Player, Recorder, Source
    <2> QED
      BY <2>1, <2>2, <2>4, StageOther
  <1>6. ASSUME NEW p \in Publishers, HandleReaderSet(p) PROVE StageInv'
    <2>1. p \in Conns
      BY DEF Conns
    <2>2. \A g \in Conns : g # p => /\ hpc'[g] = hpc[g] /\ hs'[g] = hs[g] /\ ho'[g] = ho[g]
                                    /\ hcopy'[g] = hcopy[g] /\ hw'[g] = hw[g]
      BY <1>6 DEF HandleReaderSet, Types
    <2>3. StageOf(p)
      BY <2>1 DEF StageInv
    <2>4. StageOf(p)'
      BY <1>6, <2>1, <2>3, StreamsAssumption
      DEF HandleReaderSet, Types, StageOf, InHandleReader, Conns, Nil, StreamIds,
          NoWriter, Player, Recorder, Source
    <2> QED
      BY <2>1, <2>2, <2>4, StageOther
  <1>7. ASSUME NEW p \in Publishers, AddReader(p) PROVE StageInv'
    <2>1. p \in Conns
      BY DEF Conns
    <2>2. \A g \in Conns : g # p => /\ hpc'[g] = hpc[g] /\ hs'[g] = hs[g] /\ ho'[g] = ho[g]
                                    /\ hcopy'[g] = hcopy[g] /\ hw'[g] = hw[g]
      <3>1. UNCHANGED <<ho, hcopy>> /\ hs' = [hs EXCEPT ![p] = Nil]
        BY <1>7 DEF AddReader
      <3>2. hpc' = [hpc EXCEPT ![p] = "hls"] \/ hpc' = [hpc EXCEPT ![p] = "has"]
        BY <1>7, AddReaderEffect
      <3>3. hw' = hw \/ hw' = [hw EXCEPT ![p] = Recorder(p)]
        BY <1>7, AddReaderEffect
      <3> QED
        BY <3>1, <3>2, <3>3 DEF Types
    <2>3. StageOf(p)
      BY <2>1 DEF StageInv
    <2>4. StageOf(p)'
      <3>1. hpc[p] = "add" /\ UNCHANGED <<ho, hcopy>>
        BY <1>7 DEF AddReader
      <3>2. CASE hpc' = [hpc EXCEPT ![p] = "hls"] /\ UNCHANGED <<open, hw>>
        <4>1. hpc'[p] = "hls" /\ hw'[p] = hw[p]
          BY <2>1, <3>2 DEF Types
        <4> QED
          BY <2>3, <3>1, <4>1 DEF StageOf, InHandleReader
      <3>3. CASE hw' = [hw EXCEPT ![p] = Recorder(p)] /\ hpc' = [hpc EXCEPT ![p] = "has"]
        <4>1. hpc'[p] = "has" /\ hw'[p] = Recorder(p)
          BY <2>1, <3>3 DEF Types
        <4> QED
          BY <2>3, <3>1, <4>1 DEF StageOf, InHandleReader, Recorder, NoWriter
      <3> QED
        BY <1>7, <3>2, <3>3, AddReaderEffect
    <2> QED
      BY <2>1, <2>2, <2>4, StageOther
  <1>8. ASSUME NEW p \in Publishers, HlsWriter(p) PROVE StageInv'
    <2>1. p \in Conns
      BY DEF Conns
    <2>2. \A g \in Conns : g # p => /\ hpc'[g] = hpc[g] /\ hs'[g] = hs[g] /\ ho'[g] = ho[g]
                                    /\ hcopy'[g] = hcopy[g] /\ hw'[g] = hw[g]
      BY <1>8, HlsEffect DEF HlsWriter, Types
    <2>3. StageOf(p)
      BY <2>1 DEF StageInv
    <2>4. StageOf(p)'
      BY <1>8, <2>1, <2>3, HlsEffect, StreamsAssumption
      DEF HlsWriter, Types, StageOf, InHandleReader, Conns, Nil, StreamIds, NoWriter,
          Player, Recorder, Source
    <2> QED
      BY <2>1, <2>2, <2>4, StageOther
  <1>9. ASSUME NEW q \in Players, PlayerArrives(q) PROVE StageInv'
    <2>1. q \in Conns
      BY DEF Conns
    <2>2. \A g \in Conns : g # q => /\ hpc'[g] = hpc[g] /\ hs'[g] = hs[g] /\ ho'[g] = ho[g]
                                    /\ hcopy'[g] = hcopy[g] /\ hw'[g] = hw[g]
      BY <1>9 DEF PlayerArrives, Types
    <2>3. StageOf(q)
      BY <2>1 DEF StageInv
    <2>4. StageOf(q)'
      BY <1>9, <2>1, <2>3, StreamsAssumption
      DEF PlayerArrives, Types, StageOf, InHandleReader, Conns, Nil, StreamIds,
          NoWriter, Player, Recorder, Source
    <2> QED
      BY <2>1, <2>2, <2>4, StageOther
  <1>10. ASSUME NEW q \in Players, HttpFlvCheck(q) PROVE StageInv'
    <2>1. q \in Conns
      BY DEF Conns
    <2>2. \A g \in Conns : g # q => /\ hpc'[g] = hpc[g] /\ hs'[g] = hs[g] /\ ho'[g] = ho[g]
                                    /\ hcopy'[g] = hcopy[g] /\ hw'[g] = hw[g]
      BY <1>10 DEF HttpFlvCheck, Types
    <2>3. StageOf(q)
      BY <2>1 DEF StageInv
    <2>4. StageOf(q)'
      BY <1>10, <2>1, <2>3, StreamsAssumption
      DEF HttpFlvCheck, Types, StageOf, InHandleReader, Conns, Nil, StreamIds,
          NoWriter, Player, Recorder, Source
    <2> QED
      BY <2>1, <2>2, <2>4, StageOther
  <1>11. ASSUME NEW h \in Conns, HandleWriterHas(h) PROVE StageInv'
    <2>1. h \in Conns
      BY DEF Conns
    <2>2. \A g \in Conns : g # h => /\ hpc'[g] = hpc[g] /\ hs'[g] = hs[g] /\ ho'[g] = ho[g]
                                    /\ hcopy'[g] = hcopy[g] /\ hw'[g] = hw[g]
      BY <1>11 DEF HandleWriterHas, Types
    <2>3. StageOf(h)
      BY <2>1 DEF StageInv
    <2>4. StageOf(h)'
      BY <1>11, <2>1, <2>3, StreamsAssumption
      DEF HandleWriterHas, Types, StageOf, InHandleReader, Conns, Nil, StreamIds,
          NoWriter, Player, Recorder, Source
    <2> QED
      BY <2>1, <2>2, <2>4, StageOther
  <1>12. ASSUME NEW h \in Conns, HandleWriterCreate(h) PROVE StageInv'
    <2>1. h \in Conns
      BY DEF Conns
    <2>2. \A g \in Conns : g # h => /\ hpc'[g] = hpc[g] /\ hs'[g] = hs[g] /\ ho'[g] = ho[g]
                                    /\ hcopy'[g] = hcopy[g] /\ hw'[g] = hw[g]
      BY <1>12, CreateEffect, ReturnEffect DEF HandleWriterCreate, Types
    <2>3. StageOf(h)
      BY <2>1 DEF StageInv
    <2>4. StageOf(h)'
      <3>1. hpc[h] = "create" /\ UNCHANGED <<hs, ho, hcopy>> /\ HandleWriterReturns(h)
        BY <1>12 DEF HandleWriterCreate
      <3>2. hcopy[h] = {}
        BY <2>3, <3>1 DEF StageOf
      <3>3. CASE /\ hw[h][1] = "hls" /\ hw' = [hw EXCEPT ![h] = Recorder(h)]
                 /\ hpc' = [hpc EXCEPT ![h] = "has"]
        <4>1. hpc'[h] = "has" /\ hw'[h] = Recorder(h)
          BY <2>1, <3>3 DEF Types
        <4> QED
          BY <2>3, <3>1, <3>2, <3>3, <4>1
          DEF StageOf, InHandleReader, Recorder, NoWriter
      <3>4. CASE hw' = [hw EXCEPT ![h] = NoWriter] /\ hpc' = [hpc EXCEPT ![h] = "done"]
        <4>1. hpc'[h] = "done" /\ hw'[h] = NoWriter
          BY <2>1, <3>4 DEF Types
        <4> QED
          BY <3>1, <3>2, <4>1 DEF StageOf, InHandleReader, NoWriter
      <3> QED
        BY <3>1, <3>3, <3>4, ReturnEffect
    <2> QED
      BY <2>1, <2>2, <2>4, StageOther
  <1>13. ASSUME NEW h \in Conns, HandleWriterGet(h) PROVE StageInv'
    <2>1. h \in Conns
      BY DEF Conns
    <2>2. \A g \in Conns : g # h => /\ hpc'[g] = hpc[g] /\ hs'[g] = hs[g] /\ ho'[g] = ho[g]
                                    /\ hcopy'[g] = hcopy[g] /\ hw'[g] = hw[g]
      BY <1>13, WGetEffect, ReturnEffect DEF HandleWriterGet, Types
    <2>3. StageOf(h)
      BY <2>1 DEF StageInv
    <2>4. StageOf(h)'
      BY <1>13, <2>1, <2>3, WGetEffect, ReturnEffect, StreamsAssumption
      DEF HandleWriterGet, Types, StageOf, InHandleReader, Conns, Nil, StreamIds,
          NoWriter, Player, Recorder, Source
    <2> QED
      BY <2>1, <2>2, <2>4, StageOther
  <1>14. ASSUME NEW h \in Conns, AddWriter(h) PROVE StageInv'
    <2>1. h \in Conns
      BY DEF Conns
    <2>2. \A g \in Conns : g # h => /\ hpc'[g] = hpc[g] /\ hs'[g] = hs[g] /\ ho'[g] = ho[g]
                                    /\ hcopy'[g] = hcopy[g] /\ hw'[g] = hw[g]
      BY <1>14, ReturnEffect DEF AddWriter, Types
    <2>3. StageOf(h)
      BY <2>1 DEF StageInv
    <2>4. StageOf(h)'
      BY <1>14, <2>1, <2>3, ReturnEffect, StreamsAssumption
      DEF AddWriter, Types, StageOf, InHandleReader, Conns, Nil, StreamIds, NoWriter,
          Player, Recorder, Source
    <2> QED
      BY <2>1, <2>2, <2>4, StageOther
  <1>15. ASSUME NEW k \in Keys, SweepRemove(k) PROVE StageInv'
    BY <1>15 DEF SweepRemove, handlerVars, StageInv, StageOf
  <1>16. CASE Background
    <2>1. UNCHANGED <<hpc, hs, ho, hcopy, hw>>
      BY <1>16, BackgroundEffect
    <2> QED
      BY <2>1 DEF StageInv, StageOf
  <1>17. CASE UNCHANGED vars
    BY <1>17 DEF vars, StageInv, StageOf
  <1> QED
    BY <1>1, <1>2, <1>3, <1>4, <1>5, <1>6, <1>7, <1>8, <1>9, <1>10, <1>11, <1>12,
       <1>13, <1>14, <1>15, <1>16, <1>17, Cases

(* A transport that has begun has a stream.                                *)
LEMMA TransKept ==
  ASSUME Types, StageInv, TransInv, [Next]_vars PROVE TransInv'
  <1>1. ASSUME NEW p \in Publishers, HandleReaderGet(p) PROVE TransInv'
    BY <1>1, GetEffect
    DEF HandleReaderGet, Types, StageInv, StageOf, TransInv, InHandleReader, Conns,
        Nil, transVars
  <1>2. ASSUME NEW p \in Publishers, TransStopClose(p) PROVE TransInv'
    BY <1>2
    DEF TransStopClose, Types, StageInv, StageOf, TransInv, InHandleReader, Conns,
        Nil, transVars
  <1>3. ASSUME NEW p \in Publishers, TransStopFlag(p) PROVE TransInv'
    BY <1>3
    DEF TransStopFlag, Types, StageInv, StageOf, TransInv, InHandleReader, Conns,
        Nil, transVars
  <1>4. ASSUME NEW p \in Publishers, ReplaceOrReuse(p) PROVE TransInv'
    BY <1>4, ReplaceEffect
    DEF ReplaceOrReuse, Types, StageInv, StageOf, TransInv, InHandleReader, Conns,
        Nil, transVars
  <1>5. ASSUME NEW p \in Publishers, NEW w \in hcopy[p], Copy(p, w) PROVE TransInv'
    BY <1>5
    DEF Copy, Types, StageInv, StageOf, TransInv, InHandleReader, Conns, Nil,
        transVars
  <1>6. ASSUME NEW p \in Publishers, HandleReaderSet(p) PROVE TransInv'
    BY <1>6
    DEF HandleReaderSet, Types, StageInv, StageOf, TransInv, InHandleReader, Conns,
        Nil, transVars
  <1>7. ASSUME NEW p \in Publishers, AddReader(p) PROVE TransInv'
    BY <1>7, AddReaderEffect
    DEF AddReader, Types, StageInv, StageOf, TransInv, InHandleReader, Conns, Nil,
        transVars
  <1>8. ASSUME NEW p \in Publishers, HlsWriter(p) PROVE TransInv'
    BY <1>8, HlsEffect
    DEF HlsWriter, Types, StageInv, StageOf, TransInv, InHandleReader, Conns, Nil,
        transVars
  <1>9. ASSUME NEW q \in Players, PlayerArrives(q) PROVE TransInv'
    BY <1>9
    DEF PlayerArrives, Types, StageInv, StageOf, TransInv, InHandleReader, Conns,
        Nil, transVars
  <1>10. ASSUME NEW q \in Players, HttpFlvCheck(q) PROVE TransInv'
    BY <1>10
    DEF HttpFlvCheck, Types, StageInv, StageOf, TransInv, InHandleReader, Conns,
        Nil,
        transVars
  <1>11. ASSUME NEW h \in Conns, HandleWriterHas(h) PROVE TransInv'
    BY <1>11
    DEF HandleWriterHas, Types, StageInv, StageOf, TransInv, InHandleReader, Conns,
        Nil, transVars
  <1>12. ASSUME NEW h \in Conns, HandleWriterCreate(h) PROVE TransInv'
    BY <1>12, CreateEffect, ReturnEffect
    DEF HandleWriterCreate, Types, StageInv, StageOf, TransInv, InHandleReader,
        Conns, Nil, transVars
  <1>13. ASSUME NEW h \in Conns, HandleWriterGet(h) PROVE TransInv'
    BY <1>13, WGetEffect, ReturnEffect
    DEF HandleWriterGet, Types, StageInv, StageOf, TransInv, InHandleReader, Conns,
        Nil, transVars
  <1>14. ASSUME NEW h \in Conns, AddWriter(h) PROVE TransInv'
    BY <1>14, ReturnEffect
    DEF AddWriter, Types, StageInv, StageOf, TransInv, InHandleReader, Conns, Nil,
        transVars
  <1>15. ASSUME NEW k \in Keys, SweepRemove(k) PROVE TransInv'
    BY <1>15
    DEF SweepRemove, Types, StageInv, StageOf, TransInv, InHandleReader, Conns, Nil,
        transVars
  <1>16. CASE Background
    <2>1. UNCHANGED ts /\ \A p \in Publishers : tpc[p] = "none" => tpc'[p] = "none"
      BY <1>16, BackgroundEffect, Zenon
    <2> QED
      BY <2>1 DEF TransInv
  <1>17. CASE UNCHANGED vars
    BY <1>17
    DEF vars, Types, StageInv, StageOf, TransInv, InHandleReader, Conns, Nil,
        transVars
  <1> QED
    BY <1>1, <1>2, <1>3, <1>4, <1>5, <1>6, <1>7, <1>8, <1>9, <1>10, <1>11, <1>12,
       <1>13, <1>14, <1>15, <1>16, <1>17, Cases

(* A step that takes no publisher into HandleReader makes no overlap.      *)
LEMMA SingleFrame ==
  ASSUME Single, anomaly \subseteq anomaly',
         \A g \in Publishers : hpc'[g] \in InHandleReader => hpc[g] \in InHandleReader
  PROVE  Single'
  BY DEF Single

(* One publisher of a key at a time is inside HandleReader.                *)
LEMMA SingleKept ==
  ASSUME Types, Single, [Next]_vars PROVE Single'
  <1>1. ASSUME NEW p \in Publishers, HandleReaderGet(p) PROVE Single'
    <2> SUFFICES ASSUME "overlap" \notin anomaly' PROVE Single'
      BY DEF Single
    <2>1. \A g \in Publishers : KeyOf[g] = KeyOf[p] => hpc[g] \notin InHandleReader
      BY <1>1 DEF HandleReaderGet
    <2>2. \A g \in Publishers : g # p => hpc'[g] = hpc[g]
      BY <1>1, GetEffect DEF Types, Conns
    <2> QED
      BY <2>1, <2>2, AnomalyGrows DEF Single
  <1>2. ASSUME NEW p \in Publishers, TransStopClose(p) PROVE Single'
    <2>1. \A g \in Publishers : hpc'[g] \in InHandleReader => hpc[g] \in InHandleReader
      BY <1>2 DEF TransStopClose, Types, Conns, InHandleReader, handlerVars
    <2> QED
      BY <2>1, AnomalyGrows, SingleFrame
  <1>3. ASSUME NEW p \in Publishers, TransStopFlag(p) PROVE Single'
    <2>1. \A g \in Publishers : hpc'[g] \in InHandleReader => hpc[g] \in InHandleReader
      BY <1>3 DEF TransStopFlag, Types, Conns, InHandleReader, handlerVars
    <2> QED
      BY <2>1, AnomalyGrows, SingleFrame
  <1>4. ASSUME NEW p \in Publishers, ReplaceOrReuse(p) PROVE Single'
    <2>1. \A g \in Publishers : hpc'[g] \in InHandleReader => hpc[g] \in InHandleReader
      BY <1>4, ReplaceEffect
      DEF ReplaceOrReuse, Types, Conns, InHandleReader, handlerVars
    <2> QED
      BY <2>1, AnomalyGrows, SingleFrame
  <1>5. ASSUME NEW p \in Publishers, NEW w \in hcopy[p], Copy(p, w) PROVE Single'
    <2>1. \A g \in Publishers : hpc'[g] \in InHandleReader => hpc[g] \in InHandleReader
      BY <1>5 DEF Copy, Types, Conns, InHandleReader, handlerVars
    <2> QED
      BY <2>1, AnomalyGrows, SingleFrame
  <1>6. ASSUME NEW p \in Publishers, HandleReaderSet(p) PROVE Single'
    <2>1. \A g \in Publishers : hpc'[g] \in InHandleReader => hpc[g] \in InHandleReader
      BY <1>6 DEF HandleReaderSet, Types, Conns, InHandleReader, handlerVars
    <2> QED
      BY <2>1, AnomalyGrows, SingleFrame
  <1>7. ASSUME NEW p \in Publishers, AddReader(p) PROVE Single'
    <2>1. hpc' = [hpc EXCEPT ![p] = "hls"] \/ hpc' = [hpc EXCEPT ![p] = "has"]
      BY <1>7, AddReaderEffect
    <2>2. \A g \in Publishers : hpc'[g] \in InHandleReader => hpc[g] \in InHandleReader
      BY <2>1 DEF Types, Conns, InHandleReader
    <2> QED
      BY <2>2, AnomalyGrows, SingleFrame
  <1>8. ASSUME NEW p \in Publishers, HlsWriter(p) PROVE Single'
    <2>1. \A g \in Publishers : hpc'[g] \in InHandleReader => hpc[g] \in InHandleReader
      BY <1>8, HlsEffect DEF HlsWriter, Types, Conns, InHandleReader, handlerVars
    <2> QED
      BY <2>1, AnomalyGrows, SingleFrame
  <1>9. ASSUME NEW q \in Players, PlayerArrives(q) PROVE Single'
    <2>1. \A g \in Publishers : hpc'[g] \in InHandleReader => hpc[g] \in InHandleReader
      BY <1>9 DEF PlayerArrives, Types, Conns, InHandleReader, handlerVars
    <2> QED
      BY <2>1, AnomalyGrows, SingleFrame
  <1>10. ASSUME NEW q \in Players, HttpFlvCheck(q) PROVE Single'
    <2>1. \A g \in Publishers : hpc'[g] \in InHandleReader => hpc[g] \in InHandleReader
      BY <1>10 DEF HttpFlvCheck, Types, Conns, InHandleReader, handlerVars
    <2> QED
      BY <2>1, AnomalyGrows, SingleFrame
  <1>11. ASSUME NEW h \in Conns, HandleWriterHas(h) PROVE Single'
    <2>1. \A g \in Publishers : hpc'[g] \in InHandleReader => hpc[g] \in InHandleReader
      BY <1>11 DEF HandleWriterHas, Types, Conns, InHandleReader, handlerVars
    <2> QED
      BY <2>1, AnomalyGrows, SingleFrame
  <1>12. ASSUME NEW h \in Conns, HandleWriterCreate(h) PROVE Single'
    <2>1. \A g \in Publishers : hpc'[g] \in InHandleReader => hpc[g] \in InHandleReader
      BY <1>12, CreateEffect, ReturnEffect
      DEF HandleWriterCreate, Types, Conns, InHandleReader, handlerVars
    <2> QED
      BY <2>1, AnomalyGrows, SingleFrame
  <1>13. ASSUME NEW h \in Conns, HandleWriterGet(h) PROVE Single'
    <2>1. \A g \in Publishers : hpc'[g] \in InHandleReader => hpc[g] \in InHandleReader
      BY <1>13, WGetEffect, ReturnEffect
      DEF HandleWriterGet, Types, Conns, InHandleReader, handlerVars
    <2> QED
      BY <2>1, AnomalyGrows, SingleFrame
  <1>14. ASSUME NEW h \in Conns, AddWriter(h) PROVE Single'
    <2>1. \A g \in Publishers : hpc'[g] \in InHandleReader => hpc[g] \in InHandleReader
      BY <1>14, ReturnEffect
      DEF AddWriter, Types, Conns, InHandleReader, handlerVars
    <2> QED
      BY <2>1, AnomalyGrows, SingleFrame
  <1>15. ASSUME NEW k \in Keys, SweepRemove(k) PROVE Single'
    <2>1. \A g \in Publishers : hpc'[g] \in InHandleReader => hpc[g] \in InHandleReader
      BY <1>15 DEF SweepRemove, Types, Conns, InHandleReader, handlerVars
    <2> QED
      BY <2>1, AnomalyGrows, SingleFrame
  <1>16. CASE Background
    BY <1>16, BackgroundEffect, SingleFrame
  <1>17. CASE UNCHANGED vars
    BY <1>17, SingleFrame DEF vars
  <1> QED
    BY <1>1, <1>2, <1>3, <1>4, <1>5, <1>6, <1>7, <1>8, <1>9, <1>10, <1>11, <1>12,
       <1>13, <1>14, <1>15, <1>16, <1>17, Cases

(* A stream not yet created is blank.                                      *)
LEMMA BlankKept ==
  ASSUME Types, StageInv, TransInv, KeyInv, Blank, [Next]_vars PROVE Blank'
  <1>1. ASSUME NEW p \in Publishers, HandleReaderGet(p) PROVE Blank'
    <2>1. nextStream' >= nextStream /\ nextStream' \in Int /\ nextStream \in Int
      BY <1>1, GetEffect DEF Types
    <2>2. UNCHANGED <<isStart, rd, ws>>
      BY <1>1 DEF HandleReaderGet, streamVars
    <2> QED
      BY <2>1, <2>2 DEF Blank, StreamIds
  <1>2. ASSUME NEW p \in Publishers, TransStopClose(p) PROVE Blank'
    BY <1>2, InHandCreated
    DEF TransStopClose, Types, Blank, StreamIds, StageInv, StageOf, InHandleReader,
        Conns, streamVars
  <1>3. ASSUME NEW p \in Publishers, TransStopFlag(p) PROVE Blank'
    BY <1>3, InHandCreated
    DEF TransStopFlag, Types, Blank, StreamIds, StageInv, StageOf, InHandleReader,
        Conns, streamVars
  <1>4. ASSUME NEW p \in Publishers, ReplaceOrReuse(p) PROVE Blank'
    <2>1. nextStream' >= nextStream /\ nextStream' \in Int /\ nextStream \in Int
      BY <1>4, ReplaceEffect DEF Types
    <2>2. UNCHANGED <<isStart, rd, ws>>
      BY <1>4 DEF ReplaceOrReuse, streamVars
    <2> QED
      BY <2>1, <2>2 DEF Blank, StreamIds
  <1>5. ASSUME NEW p \in Publishers, NEW w \in hcopy[p], Copy(p, w) PROVE Blank'
    BY <1>5, InHandCreated
    DEF Copy, Types, Blank, StreamIds, StageInv, StageOf, InHandleReader, Conns,
        streamVars
  <1>6. ASSUME NEW p \in Publishers, HandleReaderSet(p) PROVE Blank'
    BY <1>6, InHandCreated
    DEF HandleReaderSet, Types, Blank, StreamIds, StageInv, StageOf, InHandleReader,
        Conns, streamVars
  <1>7. ASSUME NEW p \in Publishers, AddReader(p) PROVE Blank'
    BY <1>7, AddReaderEffect, InHandCreated
    DEF AddReader, Types, Blank, StreamIds, StageInv, StageOf, InHandleReader,
        Conns,
        streamVars
  <1>8. ASSUME NEW p \in Publishers, HlsWriter(p) PROVE Blank'
    BY <1>8, HlsEffect, InHandCreated
    DEF HlsWriter, Types, Blank, StreamIds, StageInv, StageOf, InHandleReader,
        Conns,
        streamVars
  <1>9. ASSUME NEW q \in Players, PlayerArrives(q) PROVE Blank'
    BY <1>9, InHandCreated
    DEF PlayerArrives, Types, Blank, StreamIds, StageInv, StageOf, InHandleReader,
        Conns, streamVars
  <1>10. ASSUME NEW q \in Players, HttpFlvCheck(q) PROVE Blank'
    BY <1>10, InHandCreated
    DEF HttpFlvCheck, Types, Blank, StreamIds, StageInv, StageOf, InHandleReader,
        Conns, streamVars
  <1>11. ASSUME NEW h \in Conns, HandleWriterHas(h) PROVE Blank'
    BY <1>11, InHandCreated
    DEF HandleWriterHas, Types, Blank, StreamIds, StageInv, StageOf, InHandleReader,
        Conns, streamVars
  <1>12. ASSUME NEW h \in Conns, HandleWriterCreate(h) PROVE Blank'
    <2>1. nextStream' >= nextStream /\ nextStream' \in Int /\ nextStream \in Int
      BY <1>12, CreateEffect DEF Types
    <2>2. UNCHANGED <<isStart, rd, ws>>
      BY <1>12 DEF HandleWriterCreate, streamVars
    <2> QED
      BY <2>1, <2>2 DEF Blank, StreamIds
  <1>13. ASSUME NEW h \in Conns, HandleWriterGet(h) PROVE Blank'
    BY <1>13, WGetEffect, ReturnEffect, InHandCreated
    DEF HandleWriterGet, Types, Blank, StreamIds, StageInv, StageOf, InHandleReader,
        Conns, streamVars
  <1>14. ASSUME NEW h \in Conns, AddWriter(h) PROVE Blank'
    BY <1>14, ReturnEffect, InHandCreated
    DEF AddWriter, Types, Blank, StreamIds, StageInv, StageOf, InHandleReader,
        Conns,
        streamVars
  <1>15. ASSUME NEW k \in Keys, SweepRemove(k) PROVE Blank'
    BY <1>15, InHandCreated
    DEF SweepRemove, Types, Blank, StreamIds, StageInv, StageOf, InHandleReader,
        Conns, streamVars
  <1>16. CASE Background
    <2>1. ASSUME NEW s \in StreamIds, s >= nextStream PROVE ~Spawned(s)
      BY <2>1, InHandCreated DEF Spawned, TransInv, Types, StreamIds
    <2> QED
      BY <1>16, <2>1, BackgroundEffect DEF Blank
  <1>17. CASE UNCHANGED vars
    BY <1>17
    DEF vars, Types, Blank, StreamIds, StageInv, StageOf, InHandleReader, Conns,
        streamVars
  <1> QED
    BY <1>1, <1>2, <1>3, <1>4, <1>5, <1>6, <1>7, <1>8, <1>9, <1>10, <1>11, <1>12,
       <1>13, <1>14, <1>15, <1>16, <1>17, Cases

(* A step that makes no new reference, or only one to a stream it creates, *)
(* keeps keys apart.                                                       *)
LEMMA KeyStepNew ==
  ASSUME Types, KeyInv, nextStream' \in Int, nextStream' >= nextStream, NEW key \in Keys,
         \A k \in Keys, s \in StreamIds :
             Refers(k, s)' => \/ Refers(k, s)
                              \/ s = nextStream /\ k = key /\ nextStream' = nextStream + 1
  PROVE  KeyInv'
  <1> SUFFICES ASSUME NEW s \in StreamIds, NEW k \in Keys, Refers(k, s)'
               PROVE  s < nextStream' /\ \A l \in Keys : Refers(l, s)' => l = k
    BY DEF KeyInv
  <1>1. nextStream \in Int /\ s \in Int
    BY DEF Types, StreamIds
  <1>2. CASE Refers(k, s)
    <2>1. s < nextStream /\ \A l \in Keys : Refers(l, s) => l = k
      BY <1>2 DEF KeyInv
    <2> QED
      BY <1>1, <2>1
  <1>3. CASE s = nextStream /\ k = key /\ nextStream' = nextStream + 1
    <2>1. \A l \in Keys : ~Refers(l, s)
      BY <1>1, <1>3 DEF KeyInv
    <2> QED
      BY <1>1, <1>3, <2>1
  <1> QED
    BY <1>2, <1>3

LEMMA KeyStepOld ==
  ASSUME Types, KeyInv, nextStream' = nextStream,
         \A k \in Keys, s \in StreamIds : Refers(k, s)' => Refers(k, s)
  PROVE  KeyInv'
  BY DEF KeyInv

(* Copy only moves players of its own key.                                 *)
LEMMA CopyKeyKept ==
  ASSUME Types, StageInv, KeyInv, CopyKey, [Next]_vars PROVE CopyKey'
  <1>1. ASSUME NEW p \in Publishers, HandleReaderGet(p) PROVE CopyKey'
    BY <1>1, GetEffect
    DEF HandleReaderGet, Types, CopyKey, Conns, handlerVars
  <1>2. ASSUME NEW p \in Publishers, TransStopClose(p) PROVE CopyKey'
    BY <1>2
    DEF TransStopClose, Types, CopyKey, Conns, handlerVars
  <1>3. ASSUME NEW p \in Publishers, TransStopFlag(p) PROVE CopyKey'
    BY <1>3
    DEF TransStopFlag, Types, CopyKey, Conns, handlerVars
  <1>4. ASSUME NEW p \in Publishers, ReplaceOrReuse(p) PROVE CopyKey'
    <2>1. \A q \in Players : Player(q) \in ws[hs[p]] => KeyOf[q] = KeyOf[p]
      <3>1. hs[p] \in StreamIds /\ KeyOf[p] \in Keys /\ Refers(KeyOf[p], hs[p])
        BY <1>4, StreamsAssumption
        DEF ReplaceOrReuse, StageInv, StageOf, InHandleReader, Types, Conns, Refers
      <3>2. ASSUME NEW q \in Players, Player(q) \in ws[hs[p]]
            PROVE  Refers(KeyOf[q], hs[p]) /\ KeyOf[q] \in Keys
        BY <3>2, StreamsAssumption DEF Refers, Conns
      <3> QED
        BY <3>1, <3>2 DEF KeyInv
    <2> QED
      BY <1>4, <2>1, ReplaceEffect DEF CopyKey, Types, Conns
  <1>5. ASSUME NEW p \in Publishers, NEW w \in hcopy[p], Copy(p, w) PROVE CopyKey'
    BY <1>5
    DEF Copy, Types, CopyKey, Conns, handlerVars
  <1>6. ASSUME NEW p \in Publishers, HandleReaderSet(p) PROVE CopyKey'
    BY <1>6
    DEF HandleReaderSet, Types, CopyKey, Conns, handlerVars
  <1>7. ASSUME NEW p \in Publishers, AddReader(p) PROVE CopyKey'
    BY <1>7, AddReaderEffect
    DEF AddReader, Types, CopyKey, Conns, handlerVars
  <1>8. ASSUME NEW p \in Publishers, HlsWriter(p) PROVE CopyKey'
    BY <1>8, HlsEffect
    DEF HlsWriter, Types, CopyKey, Conns, handlerVars
  <1>9. ASSUME NEW q \in Players, PlayerArrives(q) PROVE CopyKey'
    BY <1>9
    DEF PlayerArrives, Types, CopyKey, Conns, handlerVars
  <1>10. ASSUME NEW q \in Players, HttpFlvCheck(q) PROVE CopyKey'
    BY <1>10
    DEF HttpFlvCheck, Types, CopyKey, Conns, handlerVars
  <1>11. ASSUME NEW h \in Conns, HandleWriterHas(h) PROVE CopyKey'
    BY <1>11
    DEF HandleWriterHas, Types, CopyKey, Conns, handlerVars
  <1>12. ASSUME NEW h \in Conns, HandleWriterCreate(h) PROVE CopyKey'
    BY <1>12, CreateEffect, ReturnEffect
    DEF HandleWriterCreate, Types, CopyKey, Conns, handlerVars
  <1>13. ASSUME NEW h \in Conns, HandleWriterGet(h) PROVE CopyKey'
    BY <1>13, WGetEffect, ReturnEffect
    DEF HandleWriterGet, Types, CopyKey, Conns, handlerVars
  <1>14. ASSUME NEW h \in Conns, AddWriter(h) PROVE CopyKey'
    BY <1>14, ReturnEffect
    DEF AddWriter, Types, CopyKey, Conns, handlerVars
  <1>15. ASSUME NEW k \in Keys, SweepRemove(k) PROVE CopyKey'
    BY <1>15
    DEF SweepRemove, Types, CopyKey, Conns, handlerVars
  <1>16. CASE Background
    BY <1>16, BackgroundEffect DEF Types, CopyKey, Conns, handlerVars
  <1>17. CASE UNCHANGED vars
    BY <1>17 DEF vars, Types, CopyKey, Conns, handlerVars
  <1> QED
    BY <1>1, <1>2, <1>3, <1>4, <1>5, <1>6, <1>7, <1>8, <1>9, <1>10, <1>11, <1>12,
       <1>13, <1>14, <1>15, <1>16, <1>17, Cases

(* Keys stay apart.                                                        *)
LEMMA KeyKept ==
  ASSUME Types, StageInv, CopyKey, KeyInv, [Next]_vars PROVE KeyInv'
  <1>1. ASSUME NEW p \in Publishers, HandleReaderGet(p) PROVE KeyInv'
    <2>1. UNCHANGED <<streams, ws, ho, ts>> /\ p \in Conns /\ KeyOf[p] \in Keys
      BY <1>1, StreamsAssumption DEF HandleReaderGet, streamVars, transVars, Conns
    <2>2. \A g \in Conns :
             \/ hs'[g] = hs[g]
             \/ g = p /\ hs'[g] = streams[KeyOf[p]]
             \/ g = p /\ hs'[g] = nextStream /\ nextStream' = nextStream + 1
      BY <1>1, GetEffect DEF Types
    <2>3. \A k \in Keys, s \in StreamIds :
             Refers(k, s)' => \/ Refers(k, s)
                              \/ s = nextStream /\ k = KeyOf[p] /\ nextStream' = nextStream + 1
      BY <2>1, <2>2 DEF Refers
    <2>4. nextStream' \in Int /\ nextStream' >= nextStream
      BY <1>1, GetEffect DEF Types
    <2> QED
      BY <2>1, <2>3, <2>4, KeyStepNew
  <1>2. ASSUME NEW p \in Publishers, TransStopClose(p) PROVE KeyInv'
    <2>1. UNCHANGED <<streams, nextStream, ws, hs, ho, ts>>
      BY <1>2 DEF TransStopClose, streamVars, transVars
    <2> QED
      BY <2>1, KeyStepOld DEF Refers
  <1>3. ASSUME NEW p \in Publishers, TransStopFlag(p) PROVE KeyInv'
    <2>1. UNCHANGED <<streams, nextStream, ws, hs, ho, ts>>
      BY <1>3 DEF TransStopFlag, streamVars, transVars
    <2> QED
      BY <2>1, KeyStepOld DEF Refers
  <1>4. ASSUME NEW p \in Publishers, ReplaceOrReuse(p) PROVE KeyInv'
    <2>1. UNCHANGED <<streams, ws, ts>> /\ p \in Conns /\ KeyOf[p] \in Keys
      BY <1>4, StreamsAssumption DEF ReplaceOrReuse, streamVars, transVars, Conns
    <2>2. \A g \in Conns :
             /\ hs'[g] = hs[g] \/ (g = p /\ hs'[g] = nextStream /\ nextStream' = nextStream + 1)
             /\ ho'[g] = ho[g] \/ (g = p /\ ho'[g] = hs[g])
      BY <1>4, ReplaceEffect DEF Types
    <2>3. \A k \in Keys, s \in StreamIds :
             Refers(k, s)' => \/ Refers(k, s)
                              \/ s = nextStream /\ k = KeyOf[p] /\ nextStream' = nextStream + 1
      BY <2>1, <2>2 DEF Refers
    <2>4. nextStream' \in Int /\ nextStream' >= nextStream
      BY <1>4, ReplaceEffect DEF Types
    <2> QED
      BY <2>1, <2>3, <2>4, KeyStepNew
  <1>5. ASSUME NEW p \in Publishers, NEW w \in hcopy[p], Copy(p, w) PROVE KeyInv'
    <2>1. Refers(KeyOf[p], hs[p]) /\ hs[p] \in StreamIds
      BY <1>5, CopyEffect DEF Refers, Conns
    <2>2. ASSUME NEW g \in Keys, NEW s \in StreamIds, NEW q \in Players,
                 KeyOf[q] = g, Player(q) \in ws'[s]
          PROVE  Refers(g, s)
      <3>1. ws'[s] = IF s = ho[p] THEN ws[s] \ {w}
                     ELSE IF s = hs[p] THEN ws[s] \union {w} ELSE ws[s]
        BY <1>5, CopyEffect
      <3> QED
        BY <2>1, <2>2, <3>1 DEF Refers, CopyKey
    <2>3. UNCHANGED <<streams, nextStream, hs, ho, ts>>
      BY <1>5 DEF Copy, transVars
    <2>4. \A g \in Keys, s \in StreamIds : Refers(g, s)' => Refers(g, s)
      BY <2>2, <2>3 DEF Refers
    <2> QED
      BY <2>3, <2>4, KeyStepOld
  <1>6. ASSUME NEW p \in Publishers, HandleReaderSet(p) PROVE KeyInv'
    <2>1. \A g \in Keys, s \in StreamIds : Refers(g, s)' => Refers(g, s)
      BY <1>6, StreamsAssumption
      DEF HandleReaderSet, Refers, Types, Conns, streamVars, transVars
    <2>2. nextStream' = nextStream
      BY <1>6 DEF HandleReaderSet
    <2> QED
      BY <2>1, <2>2, KeyStepOld
  <1>7. ASSUME NEW p \in Publishers, AddReader(p) PROVE KeyInv'
    <2>1. \A g \in Keys, s \in StreamIds : Refers(g, s)' => Refers(g, s)
      BY <1>7
      DEF AddReader, Refers, Types, Conns, StreamIds, Nil
    <2>2. nextStream' = nextStream
      BY <1>7 DEF AddReader
    <2> QED
      BY <2>1, <2>2, KeyStepOld
  <1>8. ASSUME NEW p \in Publishers, HlsWriter(p) PROVE KeyInv'
    <2>1. UNCHANGED <<streams, nextStream, ws, hs, ho, ts>>
      BY <1>8 DEF HlsWriter, streamVars, transVars
    <2> QED
      BY <2>1, KeyStepOld DEF Refers
  <1>9. ASSUME NEW q \in Players, PlayerArrives(q) PROVE KeyInv'
    <2>1. UNCHANGED <<streams, nextStream, ws, hs, ho, ts>>
      BY <1>9 DEF PlayerArrives, streamVars, transVars
    <2> QED
      BY <2>1, KeyStepOld DEF Refers
  <1>10. ASSUME NEW q \in Players, HttpFlvCheck(q) PROVE KeyInv'
    <2>1. UNCHANGED <<streams, nextStream, ws, hs, ho, ts>>
      BY <1>10 DEF HttpFlvCheck, streamVars, transVars
    <2> QED
      BY <2>1, KeyStepOld DEF Refers
  <1>11. ASSUME NEW h \in Conns, HandleWriterHas(h) PROVE KeyInv'
    <2>1. UNCHANGED <<streams, nextStream, ws, hs, ho, ts>>
      BY <1>11 DEF HandleWriterHas, streamVars, transVars
    <2> QED
      BY <2>1, KeyStepOld DEF Refers
  <1>12. ASSUME NEW h \in Conns, HandleWriterCreate(h) PROVE KeyInv'
    <2>1. UNCHANGED <<ws, hs, ho, ts>> /\ KeyOf[h] \in Keys
      BY <1>12, StreamsAssumption DEF HandleWriterCreate, streamVars, transVars
    <2>2. \A g \in Keys : streams'[g] = streams[g] \/ (g = KeyOf[h] /\ streams'[g] = nextStream)
      BY <1>12, CreateEffect DEF Types
    <2>3. nextStream' = nextStream + 1
      BY <1>12, CreateEffect
    <2>4. \A k \in Keys, s \in StreamIds :
             Refers(k, s)' => \/ Refers(k, s)
                              \/ s = nextStream /\ k = KeyOf[h] /\ nextStream' = nextStream + 1
      BY <2>1, <2>2, <2>3 DEF Refers
    <2>5. nextStream' \in Int /\ nextStream' >= nextStream
      BY <2>3 DEF Types
    <2> QED
      BY <2>1, <2>4, <2>5, KeyStepNew
  <1>13. ASSUME NEW h \in Conns, HandleWriterGet(h) PROVE KeyInv'
    <2>1. \A g \in Keys, s \in StreamIds : Refers(g, s)' => Refers(g, s)
      BY <1>13, WGetEffect, StreamsAssumption
      DEF HandleWriterGet, Refers, Types, Conns, streamVars, transVars
    <2>2. nextStream' = nextStream
      BY <1>13 DEF HandleWriterGet
    <2> QED
      BY <2>1, <2>2, KeyStepOld
  <1>14. ASSUME NEW h \in Conns, AddWriter(h) PROVE KeyInv'
    <2>1. Refers(KeyOf[h], hs[h]) /\ hs[h] \in StreamIds
      BY <1>14 DEF AddWriter, StageInv, StageOf, Types, Refers
    <2>2. ASSUME NEW g \in Keys, NEW s \in StreamIds, NEW q \in Players,
                 KeyOf[q] = g, Player(q) \in ws'[s]
          PROVE  Refers(g, s)
      <3>1. Player(q) \in ws[s] \/ (Player(q) = hw[h] /\ s = hs[h])
        BY <1>14, <2>1, <2>2 DEF AddWriter, Types
      <3>2. Player(q) = hw[h] => q = h
        BY DEF StageInv, StageOf, Player
      <3> QED
        BY <2>1, <2>2, <3>1, <3>2 DEF Refers
    <2>3. UNCHANGED <<streams, nextStream, ho, ts>> /\ hs' = [hs EXCEPT ![h] = Nil]
      BY <1>14 DEF AddWriter, transVars
    <2>4. \A g \in Conns, s \in StreamIds : hs'[g] = s => hs[g] = s
      BY <2>3 DEF StreamIds, Nil, Types
    <2>5. \A g \in Keys, s \in StreamIds : Refers(g, s)' => Refers(g, s)
      BY <2>2, <2>3, <2>4 DEF Refers
    <2> QED
      BY <2>3, <2>5, KeyStepOld
  <1>15. ASSUME NEW k \in Keys, SweepRemove(k) PROVE KeyInv'
    <2>1. \A g \in Keys, s \in StreamIds : Refers(g, s)' => Refers(g, s)
      BY <1>15
      DEF SweepRemove, Refers, Types, Conns, StreamIds, Nil, streamVars, transVars,
          handlerVars
    <2>2. nextStream' = nextStream
      BY <1>15 DEF SweepRemove
    <2> QED
      BY <2>1, <2>2, KeyStepOld
  <1>16. CASE Background
    <2>1. UNCHANGED <<streams, nextStream, hs, ho, ts>>
      BY <1>16, BackgroundEffect
    <2>2. \A g \in Keys, s \in StreamIds : Refers(g, s)' => Refers(g, s)
      BY <1>16, <2>1, BackgroundEffect DEF Refers
    <2> QED
      BY <2>1, <2>2, KeyStepOld
  <1>17. CASE UNCHANGED vars
    <2>1. UNCHANGED <<streams, nextStream, ws, hs, ho, ts>>
      BY <1>17 DEF vars
    <2> QED
      BY <2>1, KeyStepOld DEF Refers
  <1> QED
    BY <1>1, <1>2, <1>3, <1>4, <1>5, <1>6, <1>7, <1>8, <1>9, <1>10, <1>11, <1>12,
       <1>13, <1>14, <1>15, <1>16, <1>17, Cases

(* A step that only takes writers off lists, and lets no handler go back,  *)
(* keeps writers at home.                                                  *)
LEMMA HomeFrame ==
  ASSUME AtHome, UNCHANGED <<hcopy, ho>>, \A s \in StreamIds : ws'[s] \subseteq ws[s],
         \A g \in Conns : hpc[g] = "done" => hpc'[g] = "done"
  PROVE  AtHome'
  <1> SUFFICES ASSUME NEW w \in Writers, w[1] # "hls" PROVE HomeOf(w)'
    BY DEF AtHome
  <1>1. HomeOf(w) /\ w[2] \in Conns
    BY WriterForm DEF AtHome, Conns
  <1> QED
    BY <1>1 DEF HomeOf

(* Writers stay at home as long as HandleReaders of a key do not overlap.  *)
LEMMA HomeKept ==
  ASSUME Types, StageInv, KeyInv, Single, HomeInv, [Next]_vars PROVE HomeInv'
  <1> SUFFICES ASSUME "overlap" \notin anomaly' PROVE AtHome'
    BY DEF HomeInv
  <1>0. "overlap" \notin anomaly /\ AtHome
    BY AnomalyGrows DEF HomeInv
  <1>1. ASSUME NEW p \in Publishers, HandleReaderGet(p) PROVE AtHome'
    <2>1. UNCHANGED <<ws, hcopy, ho>>
      BY <1>1 DEF HandleReaderGet, streamVars, handlerVars
    <2>2. \A g \in Conns : hpc[g] = "done" => hpc'[g] = "done"
      BY <1>1, GetEffect DEF HandleReaderGet, Types, Conns, handlerVars
    <2> QED
      BY <2>1, <2>2, <1>0, HomeFrame
  <1>2. ASSUME NEW p \in Publishers, TransStopClose(p) PROVE AtHome'
    <2>1. UNCHANGED <<ws, hcopy, ho>>
      BY <1>2 DEF TransStopClose, streamVars, handlerVars
    <2>2. \A g \in Conns : hpc[g] = "done" => hpc'[g] = "done"
      BY <1>2 DEF TransStopClose, Types, Conns, handlerVars
    <2> QED
      BY <2>1, <2>2, <1>0, HomeFrame
  <1>3. ASSUME NEW p \in Publishers, TransStopFlag(p) PROVE AtHome'
    <2>1. UNCHANGED <<ws, hcopy, ho>>
      BY <1>3 DEF TransStopFlag, streamVars, handlerVars
    <2>2. \A g \in Conns : hpc[g] = "done" => hpc'[g] = "done"
      BY <1>3 DEF TransStopFlag, Types, Conns, handlerVars
    <2> QED
      BY <2>1, <2>2, <1>0, HomeFrame
  <1>4. ASSUME NEW p \in Publishers, ReplaceOrReuse(p) PROVE AtHome'
    <2> DEFINE s0 == hs[p]
    <2>1. /\ p \in Conns /\ KeyOf[p] \in Keys /\ hpc[p] = "id" /\ s0 \in StreamIds
          /\ hcopy[p] = {} /\ UNCHANGED ws
      BY <1>4, StreamsAssumption
      DEF ReplaceOrReuse, streamVars, StageInv, StageOf, Types, InHandleReader,
          Conns
    <2>2. \A g \in Conns : hpc[g] = "done" => hpc'[g] = "done"
      BY <1>4, <2>1, ReplaceEffect DEF Types
    <2>3. CASE UNCHANGED <<ho, hcopy>>
      BY <2>1, <2>2, <2>3, <1>0, HomeFrame
    <2>4. CASE ho' = [ho EXCEPT ![p] = s0] /\ hcopy' = [hcopy EXCEPT ![p] = ws[s0]]
      <3>1. \A g \in Publishers : hcopy[g] # {} => ho[g] # s0
        <4> SUFFICES ASSUME NEW g \in Publishers, hcopy[g] # {}, ho[g] = s0 PROVE FALSE
          OBVIOUS
        <4>1. g \in Conns /\ KeyOf[g] \in Keys /\ hpc[g] = "copy"
          BY StreamsAssumption DEF StageInv, StageOf, Conns
        <4>2. Refers(KeyOf[g], s0) /\ Refers(KeyOf[p], s0)
          BY <2>1, <4>1 DEF Refers
        <4>3. KeyOf[g] = KeyOf[p]
          BY <2>1, <4>1, <4>2 DEF KeyInv
        <4> QED
          BY <1>0, <2>1, <4>1, <4>3 DEF Single, InHandleReader
      <3>2. /\ ho'[p] = s0 /\ hcopy'[p] = ws[s0]
            /\ \A g \in Publishers : g # p => ho'[g] = ho[g] /\ hcopy'[g] = hcopy[g]
        BY <2>1, <2>4 DEF Types, Conns
      <3> HIDE DEF s0
      <3> SUFFICES ASSUME NEW w \in Writers, w[1] # "hls" PROVE HomeOf(w)'
        BY DEF AtHome
      <3>3. HomeOf(w) /\ w[2] \in Conns
        BY <1>0, WriterForm DEF AtHome, Conns
      <3>4. \A g \in Publishers : g # p /\ w \in hcopy'[g] => w \notin ws[s0]
        BY <2>1, <3>1, <3>2, <3>3 DEF HomeOf
      <3>5. \A g \in Publishers, s \in StreamIds : w \in hcopy'[g] /\ w \in ws[s] => s = ho'[g]
        BY <2>1, <3>2, <3>3 DEF HomeOf
      <3>6. \A g, f \in Publishers : w \in hcopy'[g] /\ w \in hcopy'[f] => g = f
        BY <2>1, <3>2, <3>3, <3>4 DEF HomeOf
      <3>7. \A g \in Publishers : w \in hcopy'[g] => hpc'[w[2]] = "done"
        BY <2>1, <2>2, <3>2, <3>3 DEF HomeOf
      <3> QED
        BY <2>1, <2>2, <3>3, <3>5, <3>6, <3>7 DEF HomeOf
    <2> QED
      BY <1>4, <2>3, <2>4, ReplaceEffect
  <1>5. ASSUME NEW p \in Publishers, NEW w \in hcopy[p], Copy(p, w) PROVE AtHome'
    <2>1. /\ w \in Writers /\ hs[p] \in StreamIds /\ ho[p] \in StreamIds /\ hs[p] # ho[p]
          /\ p \in Conns
          /\ \A s \in StreamIds : ws'[s] = IF s = ho[p] THEN ws[s] \ {w}
                                           ELSE IF s = hs[p] THEN ws[s] \union {w} ELSE ws[s]
      BY <1>5, CopyEffect DEF Conns
    <2>2. hcopy' = [hcopy EXCEPT ![p] = @ \ {w}] /\ UNCHANGED <<ho, hpc>>
      BY <1>5 DEF Copy
    <2> SUFFICES ASSUME NEW v \in Writers, v[1] # "hls" PROVE HomeOf(v)'
      BY DEF AtHome
    <2>3. HomeOf(v)
      BY <1>0 DEF AtHome
    <2>4. \A g \in Publishers : hcopy'[g] = IF g = p THEN hcopy[g] \ {w} ELSE hcopy[g]
      BY <2>1, <2>2 DEF Types, Conns
    <2>5. CASE v # w
      <3>1. \A s \in StreamIds : v \in ws'[s] <=> v \in ws[s]
        BY <2>1, <2>5
      <3>2. \A g \in Publishers : v \in hcopy'[g] <=> v \in hcopy[g]
        BY <2>4, <2>5
      <3> QED
        BY <2>2, <2>3, <3>1, <3>2 DEF HomeOf
    <2>6. CASE v = w
      <3>1. \A s \in StreamIds : v \in ws'[s] => s = hs[p]
        BY <2>1, <2>3, <2>6 DEF HomeOf
      <3>2. \A g \in Publishers : v \notin hcopy'[g]
        BY <2>3, <2>4, <2>6 DEF HomeOf
      <3>3. hpc'[v[2]] = "done"
        BY <2>2, <2>3, <2>6 DEF HomeOf
      <3> QED
        BY <3>1, <3>2, <3>3 DEF HomeOf
    <2> QED
      BY <2>5, <2>6
  <1>6. ASSUME NEW p \in Publishers, HandleReaderSet(p) PROVE AtHome'
    <2>1. UNCHANGED <<ws, hcopy, ho>>
      BY <1>6 DEF HandleReaderSet, streamVars, handlerVars
    <2>2. \A g \in Conns : hpc[g] = "done" => hpc'[g] = "done"
      BY <1>6 DEF HandleReaderSet, Types, Conns, handlerVars
    <2> QED
      BY <2>1, <2>2, <1>0, HomeFrame
  <1>7. ASSUME NEW p \in Publishers, AddReader(p) PROVE AtHome'
    <2>1. UNCHANGED <<ws, hcopy, ho>>
      BY <1>7 DEF AddReader, streamVars, handlerVars
    <2>2. \A g \in Conns : hpc[g] = "done" => hpc'[g] = "done"
      <3>1. hpc[p] = "add"
        BY <1>7 DEF AddReader
      <3>2. hpc' = [hpc EXCEPT ![p] = "hls"] \/ hpc' = [hpc EXCEPT ![p] = "has"]
        BY <1>7, AddReaderEffect
      <3> QED
        BY <3>1, <3>2 DEF Types
    <2> QED
      BY <2>1, <2>2, <1>0, HomeFrame
  <1>8. ASSUME NEW p \in Publishers, HlsWriter(p) PROVE AtHome'
    <2>1. UNCHANGED <<ws, hcopy, ho>>
      BY <1>8 DEF HlsWriter, streamVars, handlerVars
    <2>2. \A g \in Conns : hpc[g] = "done" => hpc'[g] = "done"
      BY <1>8 DEF HlsWriter, Types, Conns, handlerVars
    <2> QED
      BY <2>1, <2>2, <1>0, HomeFrame
  <1>9. ASSUME NEW q \in Players, PlayerArrives(q) PROVE AtHome'
    <2>1. UNCHANGED <<ws, hcopy, ho>>
      BY <1>9 DEF PlayerArrives, streamVars, handlerVars
    <2>2. \A g \in Conns : hpc[g] = "done" => hpc'[g] = "done"
      BY <1>9 DEF PlayerArrives, Types, Conns, handlerVars
    <2> QED
      BY <2>1, <2>2, <1>0, HomeFrame
  <1>10. ASSUME NEW q \in Players, HttpFlvCheck(q) PROVE AtHome'
    <2>1. UNCHANGED <<ws, hcopy, ho>>
      BY <1>10 DEF HttpFlvCheck, streamVars, handlerVars
    <2>2. \A g \in Conns : hpc[g] = "done" => hpc'[g] = "done"
      BY <1>10 DEF HttpFlvCheck, Types, Conns, handlerVars
    <2> QED
      BY <2>1, <2>2, <1>0, HomeFrame
  <1>11. ASSUME NEW h \in Conns, HandleWriterHas(h) PROVE AtHome'
    <2>1. UNCHANGED <<ws, hcopy, ho>>
      BY <1>11 DEF HandleWriterHas, streamVars, handlerVars
    <2>2. \A g \in Conns : hpc[g] = "done" => hpc'[g] = "done"
      BY <1>11 DEF HandleWriterHas, Types, Conns, handlerVars
    <2> QED
      BY <2>1, <2>2, <1>0, HomeFrame
  <1>12. ASSUME NEW h \in Conns, HandleWriterCreate(h) PROVE AtHome'
    <2>1. UNCHANGED <<ws, hcopy, ho>>
      BY <1>12 DEF HandleWriterCreate, streamVars, handlerVars
    <2>2. \A g \in Conns : hpc[g] = "done" => hpc'[g] = "done"
      BY <1>12, CreateEffect, ReturnEffect
      DEF HandleWriterCreate, Types, Conns, handlerVars
    <2> QED
      BY <2>1, <2>2, <1>0, HomeFrame
  <1>13. ASSUME NEW h \in Conns, HandleWriterGet(h) PROVE AtHome'
    <2>1. UNCHANGED <<ws, hcopy, ho>>
      BY <1>13 DEF HandleWriterGet, streamVars, handlerVars
    <2>2. \A g \in Conns : hpc[g] = "done" => hpc'[g] = "done"
      BY <1>13, WGetEffect, ReturnEffect
      DEF HandleWriterGet, Types, Conns, handlerVars
    <2> QED
      BY <2>1, <2>2, <1>0, HomeFrame
  <1>14. ASSUME NEW h \in Conns, AddWriter(h) PROVE AtHome'
    <2>1. /\ h \in Conns /\ hpc[h] = "attach" /\ hs[h] \in StreamIds
          /\ hw[h] \in Writers /\ (hw[h][1] # "hls" => hw[h][2] = h)
      BY <1>14, WriterForm DEF AddWriter, StageInv, StageOf, Types
    <2>2. /\ ws' = [ws EXCEPT ![hs[h]] = @ \union {hw[h]}]
          /\ UNCHANGED <<hcopy, ho>>
      BY <1>14 DEF AddWriter
    <2>3. /\ hpc' = [hpc EXCEPT ![h] = "done"] \/ hpc' = [hpc EXCEPT ![h] = "has"]
          /\ hw[h][1] # "hls" => hpc' = [hpc EXCEPT ![h] = "done"]
      BY <1>14, ReturnEffect DEF AddWriter
    <2> SUFFICES ASSUME NEW w \in Writers, w[1] # "hls" PROVE HomeOf(w)'
      BY DEF AtHome
    <2>4. HomeOf(w) /\ w[2] \in Conns
      BY <1>0, WriterForm DEF AtHome, Conns
    <2>5. \A g \in Conns : hpc[g] = "done" => hpc'[g] = "done"
      BY <2>1, <2>3 DEF Types
    <2>6. CASE w = hw[h]
      <3>1. (\A s \in StreamIds : w \notin ws[s]) /\ (\A p \in Publishers : w \notin hcopy[p])
        BY <2>1, <2>4, <2>6 DEF HomeOf
      <3>2. \A s \in StreamIds : w \in ws'[s] => s = hs[h]
        BY <2>1, <2>2, <3>1 DEF Types
      <3>3. hpc'[w[2]] = "done"
        BY <2>1, <2>3, <2>6 DEF Types
      <3> QED
        BY <2>2, <3>1, <3>2, <3>3 DEF HomeOf
    <2>7. CASE w # hw[h]
      <3>1. \A s \in StreamIds : w \in ws'[s] => w \in ws[s]
        BY <2>1, <2>2, <2>7 DEF Types
      <3> QED
        BY <2>2, <2>4, <2>5, <3>1 DEF HomeOf
    <2> QED
      BY <2>6, <2>7
  <1>15. ASSUME NEW k \in Keys, SweepRemove(k) PROVE AtHome'
    <2>1. UNCHANGED <<ws, hcopy, ho>>
      BY <1>15 DEF SweepRemove, streamVars, handlerVars
    <2>2. \A g \in Conns : hpc[g] = "done" => hpc'[g] = "done"
      BY <1>15 DEF SweepRemove, Types, Conns, handlerVars
    <2> QED
      BY <2>1, <2>2, <1>0, HomeFrame
  <1>16. CASE Background
    BY <1>0, <1>16, BackgroundEffect, HomeFrame
  <1>17. CASE UNCHANGED vars
    <2>1. UNCHANGED <<ws, hcopy, ho, hpc>>
      BY <1>17 DEF vars
    <2> QED
      BY <2>1, <1>0, HomeFrame
  <1> QED
    BY <1>1, <1>2, <1>3, <1>4, <1>5, <1>6, <1>7, <1>8, <1>9, <1>10, <1>11, <1>12,
       <1>13, <1>14, <1>15, <1>16, <1>17, Cases

(* The stages of HandleReader that TakeOver speaks of.                     *)
Taking == {"stop", "flag", "id", "copy", "add"}

(* A step that leaves keys, transports and takeovers alone.                *)
LEMMA RegisteredFrame ==
  ASSUME Registered, UNCHANGED <<streams, isStart, tpc, ts>>,
         \A g \in Publishers : hpc'[g] \in Taking =>
             hpc'[g] = hpc[g] /\ hs'[g] = hs[g] /\ ho'[g] = ho[g]
  PROVE  Registered'
  <1>1. ASSUME NEW g \in Publishers PROVE TakeOver(g)'
    <2>1. TakeOver(g)
      BY DEF Registered
    <2>2. CASE hpc'[g] \in Taking
      BY <2>1, <2>2 DEF TakeOver, Spawned
    <2>3. CASE hpc'[g] \notin Taking
      BY <2>3 DEF TakeOver, Taking
    <2> QED
      BY <2>2, <2>3
  <1> QED
    BY <1>1 DEF Registered, Live

(* Transports keep carrying the registered stream.                         *)
LEMMA RegisterKept ==
  ASSUME Types, StageInv, TransInv, KeyInv, Single, RegisterInv, [Next]_vars PROVE RegisterInv'
  <1> SUFFICES ASSUME anomaly' \subseteq {"stray"} PROVE Registered'
    BY DEF RegisterInv
  <1>0. "overlap" \notin anomaly /\ Registered
    BY AnomalyGrows DEF RegisterInv
  <1>1. ASSUME NEW p \in Publishers, HandleReaderGet(p) PROVE Registered'
    <2> SUFFICES ASSUME NEW g \in Publishers
                 PROVE  TakeOver(g)' /\ (Live(g)' => streams'[KeyOf[g]] = ts'[g])
      BY DEF Registered
    <2>20. TakeOver(g) /\ (Live(g) => streams[KeyOf[g]] = ts[g]) /\ g \in Conns
      BY <1>0 DEF Registered, Conns
    <2>1. UNCHANGED <<streams, isStart, tpc, ts, ho>> /\ p \in Conns
      BY <1>1 DEF HandleReaderGet, streamVars, transVars, Conns
    <2>2. Live(g)' => streams'[KeyOf[g]] = ts'[g]
      BY <2>1, <2>20 DEF Live
    <2>3. CASE g = p
      <3>1. hpc'[p] = "set" \/ (hpc'[p] = "stop" /\ hs'[p] = streams[KeyOf[p]])
        BY <1>1, <2>1, GetEffect DEF Types
      <3> QED
        BY <2>1, <2>2, <2>3, <3>1 DEF TakeOver
    <2>4. CASE g # p
      <3>1. hpc'[g] = hpc[g] /\ hs'[g] = hs[g]
        BY <1>1, <2>20, <2>4, GetEffect DEF Types
      <3> QED
        BY <2>1, <2>2, <2>20, <3>1 DEF TakeOver, Spawned
    <2> QED
      BY <2>3, <2>4
  <1>2. ASSUME NEW p \in Publishers, TransStopClose(p) PROVE Registered'
    <2> SUFFICES ASSUME NEW g \in Publishers
                 PROVE  TakeOver(g)' /\ (Live(g)' => streams'[KeyOf[g]] = ts'[g])
      BY DEF Registered
    <2>20. TakeOver(g) /\ (Live(g) => streams[KeyOf[g]] = ts[g]) /\ g \in Conns
      BY <1>0 DEF Registered, Conns
    <2>1. UNCHANGED <<streams, isStart, tpc, ts, hs, ho>> /\ p \in Conns /\ hpc[p] = "stop"
      BY <1>2 DEF TransStopClose, streamVars, transVars, Conns
    <2>2. hpc' = [hpc EXCEPT ![p] = "flag"]
      BY <1>2 DEF TransStopClose
    <2>3. ~Spawned(hs[p])
      BY <1>2 DEF TransStopClose, Transporting, Spawned
    <2>4. Live(g)' => streams'[KeyOf[g]] = ts'[g]
      BY <2>1, <2>20 DEF Live
    <2>5. hpc'[g] = IF g = p THEN "flag" ELSE hpc[g]
      BY <2>1, <2>2, <2>20 DEF Types
    <2> QED
      BY <2>1, <2>3, <2>4, <2>5, <2>20 DEF TakeOver, Spawned
  <1>3. ASSUME NEW p \in Publishers, TransStopFlag(p) PROVE Registered'
    <2> SUFFICES ASSUME NEW g \in Publishers
                 PROVE  TakeOver(g)' /\ (Live(g)' => streams'[KeyOf[g]] = ts'[g])
      BY DEF Registered
    <2>20. TakeOver(g) /\ (Live(g) => streams[KeyOf[g]] = ts[g]) /\ g \in Conns
      BY <1>0 DEF Registered, Conns
    <2>1. UNCHANGED <<streams, tpc, ts, hs, ho>> /\ p \in Conns /\ hpc[p] = "flag"
      BY <1>3 DEF TransStopFlag, transVars, Conns
    <2>2. hpc'[g] = IF g = p THEN "id" ELSE hpc[g]
      BY <1>3, <2>20 DEF TransStopFlag, Types
    <2>3. hs[p] \in StreamIds
      BY <2>1 DEF StageInv, StageOf, InHandleReader, Types
    <2>4. ~isStart'[hs[p]] /\ \A s : isStart'[s] => isStart[s]
      <3>1. isStart' = [isStart EXCEPT ![hs[p]] = FALSE] /\ isStart \in [StreamIds -> BOOLEAN]
        BY <1>3 DEF TransStopFlag, Types
      <3>2. ~isStart'[hs[p]]
        BY <2>3, <3>1
      <3>3. ASSUME NEW s, isStart'[s] PROVE isStart[s]
        <4>1. s # hs[p]
          BY <3>2, <3>3
        <4> QED
          BY <3>1, <3>3, <4>1
      <3> QED
        BY <3>2, <3>3
    <2>5. Live(g)' => streams'[KeyOf[g]] = ts'[g]
      BY <2>1, <2>4, <2>20 DEF Live
    <2>6. Spawned(hs[g])' => Spawned(hs[g])
      BY <2>1 DEF Spawned
    <2>7. Spawned(ho[g])' => Spawned(ho[g])
      BY <2>1 DEF Spawned
    <2> QED
      BY <2>1, <2>2, <2>4, <2>5, <2>6, <2>7, <2>20 DEF TakeOver
  <1>4. ASSUME NEW p \in Publishers, ReplaceOrReuse(p) PROVE Registered'
    <2> SUFFICES ASSUME NEW g \in Publishers
                 PROVE  TakeOver(g)' /\ (Live(g)' => streams'[KeyOf[g]] = ts'[g])
      BY DEF Registered
    <2>20. TakeOver(g) /\ (Live(g) => streams[KeyOf[g]] = ts[g]) /\ g \in Conns
      BY <1>0 DEF Registered, Conns
    <2>1. UNCHANGED <<streams, isStart, tpc, ts>> /\ p \in Conns /\ hpc[p] = "id"
      BY <1>4 DEF ReplaceOrReuse, streamVars, transVars, Conns
    <2>2. Live(g)' => streams'[KeyOf[g]] = ts'[g]
      BY <2>1, <2>20 DEF Live
    <2>3. CASE g = p
      <3>1. \/ hpc'[p] = "copy" /\ ho'[p] = hs[p]
            \/ hpc'[p] = "add" /\ hs'[p] = hs[p]
        BY <1>4, <2>1, ReplaceEffect DEF Types
      <3> QED
        BY <2>1, <2>2, <2>3, <2>20, <3>1 DEF TakeOver, Spawned
    <2>4. CASE g # p
      <3>1. hpc'[g] = hpc[g] /\ hs'[g] = hs[g] /\ ho'[g] = ho[g]
        BY <1>4, <2>20, <2>4, ReplaceEffect DEF Types
      <3> QED
        BY <2>1, <2>2, <2>20, <3>1 DEF TakeOver, Spawned
    <2> QED
      BY <2>3, <2>4
  <1>5. ASSUME NEW p \in Publishers, NEW w \in hcopy[p], Copy(p, w) PROVE Registered'
    <2>1. UNCHANGED <<streams, isStart, tpc, ts>>
      BY <1>5 DEF Copy, streamVars, transVars
    <2>2. \A g \in Publishers : hpc'[g] \in Taking =>
             hpc'[g] = hpc[g] /\ hs'[g] = hs[g] /\ ho'[g] = ho[g]
      BY <1>5 DEF Copy, Types, Conns, Taking, handlerVars
    <2> QED
      BY <1>0, <2>1, <2>2, RegisteredFrame
  <1>6. ASSUME NEW p \in Publishers, HandleReaderSet(p) PROVE Registered'
    <2> SUFFICES ASSUME NEW g \in Publishers
                 PROVE  TakeOver(g)' /\ (Live(g)' => streams'[KeyOf[g]] = ts'[g])
      BY DEF Registered
    <2>20. TakeOver(g) /\ (Live(g) => streams[KeyOf[g]] = ts[g]) /\ g \in Conns
      BY <1>0 DEF Registered, Conns
    <2>1. /\ UNCHANGED <<isStart, tpc, ts, hs, ho>> /\ p \in Conns /\ KeyOf[p] \in Keys
          /\ hpc[p] \in {"set", "copy"} /\ KeyOf[g] \in Keys
      BY <1>6, StreamsAssumption DEF HandleReaderSet, streamVars, transVars, Conns
    <2>2. streams' = [streams EXCEPT ![KeyOf[p]] = hs[p]] /\ streams[KeyOf[p]] \in {Nil, ho[p]}
      BY <1>6 DEF HandleReaderSet
    <2>3. hpc'[g] = IF g = p THEN "add" ELSE hpc[g]
      BY <1>6, <2>20 DEF HandleReaderSet, Types
    <2>4. streams'[KeyOf[g]] = IF KeyOf[g] = KeyOf[p] THEN hs[p] ELSE streams[KeyOf[g]]
      BY <2>1, <2>2 DEF Types
    <2>5. KeyOf[g] = KeyOf[p] => ~Live(g)
      <3> SUFFICES ASSUME KeyOf[g] = KeyOf[p], Live(g) PROVE FALSE
        OBVIOUS
      <3>1. ts[g] # Nil /\ streams[KeyOf[p]] = ts[g]
        BY <2>20 DEF TransInv, Live, Carrying
      <3>2. ts[g] = ho[p] /\ ho[p] # Nil
        BY <2>2, <3>1
      <3>3. hpc[p] = "copy"
        BY <2>1, <3>2 DEF StageInv, StageOf
      <3>4. ~Spawned(ho[p]) /\ ~isStart[ho[p]]
        BY <1>0, <3>3 DEF Registered, TakeOver
      <3> QED
        BY <3>2, <3>4 DEF Live, Spawned
    <2>6. Live(g)' => streams'[KeyOf[g]] = ts'[g]
      BY <2>1, <2>4, <2>5, <2>20 DEF Live
    <2>7. CASE g = p
      BY <2>1, <2>3, <2>4, <2>6, <2>7 DEF TakeOver
    <2>8. CASE g # p
      <3>1. hpc[g] \in Taking => KeyOf[g] # KeyOf[p]
        BY <1>0, <2>1, <2>8 DEF Single, InHandleReader, Taking
      <3> QED
        BY <2>1, <2>3, <2>4, <2>6, <2>8, <2>20, <3>1 DEF TakeOver, Spawned, Taking
    <2> QED
      BY <2>7, <2>8
  <1>7. ASSUME NEW p \in Publishers, AddReader(p) PROVE Registered'
    <2> SUFFICES ASSUME NEW g \in Publishers
                 PROVE  TakeOver(g)' /\ (Live(g)' => streams'[KeyOf[g]] = ts'[g])
      BY DEF Registered
    <2>20. TakeOver(g) /\ (Live(g) => streams[KeyOf[g]] = ts[g]) /\ g \in Conns
      BY <1>0 DEF Registered, Conns
    <2>1. /\ UNCHANGED <<streams, isStart, ho>> /\ p \in Conns /\ KeyOf[p] \in Keys
          /\ hpc[p] = "add" /\ KeyOf[g] \in Keys
      BY <1>7, StreamsAssumption DEF AddReader, Conns
    <2>2. streams[KeyOf[p]] = hs[p] /\ hs[p] \in StreamIds
      BY <1>0, <2>1
      DEF Registered, TakeOver, StageInv, StageOf, InHandleReader, Types
    <2>3. hpc'[p] \in {"hls", "has"} /\ (g # p => hpc'[g] = hpc[g] /\ hs'[g] = hs[g])
      <3>1. hpc' = [hpc EXCEPT ![p] = "hls"] \/ hpc' = [hpc EXCEPT ![p] = "has"]
        BY <1>7, AddReaderEffect
      <3>2. hs' = [hs EXCEPT ![p] = Nil]
        BY <1>7 DEF AddReader
      <3> QED
        BY <2>1, <2>20, <3>1, <3>2 DEF Types
    <2>4. \A f \in Publishers : /\ tpc'[f] = IF f = p THEN "spawned" ELSE tpc[f]
                                /\ ts'[f] = IF f = p THEN hs[p] ELSE ts[f]
      BY <1>7 DEF AddReader, Types
    <2>5. Live(g)' => streams'[KeyOf[g]] = ts'[g]
      BY <2>1, <2>2, <2>4, <2>20 DEF Live
    <2>6. CASE g = p
      BY <2>3, <2>5, <2>6 DEF TakeOver
    <2>7. CASE g # p
      <3>1. hpc[g] \in Taking => KeyOf[g] # KeyOf[p]
        BY <1>0, <2>1, <2>7 DEF Single, InHandleReader, Taking
      <3>2. hpc[g] \in Taking => hs[g] # hs[p] /\ ho[g] # hs[p]
        BY <2>1, <2>2, <2>20, <3>1 DEF KeyInv, Refers
      <3>3. \A s : s # hs[p] /\ Spawned(s)' => Spawned(s)
        BY <2>4 DEF Spawned
      <3>4. hpc'[g] = hpc[g] /\ hs'[g] = hs[g] /\ ho'[g] = ho[g]
        BY <2>1, <2>3, <2>7
      <3>5. hpc[g] \in Taking => /\ ~Spawned(hs[g]) => ~Spawned(hs[g])'
                                 /\ ~Spawned(ho[g]) => ~Spawned(ho[g])'
        BY <2>4, <3>2, <3>4 DEF Spawned
      <3> QED
        BY <2>1, <2>5, <2>20, <3>4, <3>5 DEF TakeOver, Taking
    <2> QED
      BY <2>6, <2>7
  <1>8. ASSUME NEW p \in Publishers, HlsWriter(p) PROVE Registered'
    <2>1. UNCHANGED <<streams, isStart, tpc, ts>>
      BY <1>8 DEF HlsWriter, streamVars, transVars
    <2>2. \A g \in Publishers : hpc'[g] \in Taking =>
             hpc'[g] = hpc[g] /\ hs'[g] = hs[g] /\ ho'[g] = ho[g]
      BY <1>8, HlsEffect DEF HlsWriter, Types, Conns, Taking, handlerVars
    <2> QED
      BY <1>0, <2>1, <2>2, RegisteredFrame
  <1>9. ASSUME NEW q \in Players, PlayerArrives(q) PROVE Registered'
    <2>1. UNCHANGED <<streams, isStart, tpc, ts>>
      BY <1>9 DEF PlayerArrives, streamVars, transVars
    <2>2. \A g \in Publishers : hpc'[g] \in Taking =>
             hpc'[g] = hpc[g] /\ hs'[g] = hs[g] /\ ho'[g] = ho[g]
      BY <1>9 DEF PlayerArrives, Types, Conns, Taking, handlerVars
    <2> QED
      BY <1>0, <2>1, <2>2, RegisteredFrame
  <1>10. ASSUME NEW q \in Players, HttpFlvCheck(q) PROVE Registered'
    <2>1. UNCHANGED <<streams, isStart, tpc, ts>>
      BY <1>10 DEF HttpFlvCheck, streamVars, transVars
    <2>2. \A g \in Publishers : hpc'[g] \in Taking =>
             hpc'[g] = hpc[g] /\ hs'[g] = hs[g] /\ ho'[g] = ho[g]
      BY <1>10 DEF HttpFlvCheck, Types, Conns, Taking, handlerVars
    <2> QED
      BY <1>0, <2>1, <2>2, RegisteredFrame
  <1>11. ASSUME NEW h \in Conns, HandleWriterHas(h) PROVE Registered'
    <2>1. UNCHANGED <<streams, isStart, tpc, ts>>
      BY <1>11 DEF HandleWriterHas, streamVars, transVars
    <2>2. \A g \in Publishers : hpc'[g] \in Taking =>
             hpc'[g] = hpc[g] /\ hs'[g] = hs[g] /\ ho'[g] = ho[g]
      BY <1>11 DEF HandleWriterHas, Types, Conns, Taking, handlerVars
    <2> QED
      BY <1>0, <2>1, <2>2, RegisteredFrame
  <1>12. ASSUME NEW h \in Conns, HandleWriterCreate(h) PROVE Registered'
    <2> SUFFICES ASSUME NEW g \in Publishers
                 PROVE  TakeOver(g)' /\ (Live(g)' => streams'[KeyOf[g]] = ts'[g])
      BY DEF Registered
    <2>20. TakeOver(g) /\ (Live(g) => streams[KeyOf[g]] = ts[g]) /\ g \in Conns
      BY <1>0 DEF Registered, Conns
    <2>1. /\ UNCHANGED <<isStart, tpc, ts, hs, ho>> /\ KeyOf[h] \in Keys /\ KeyOf[g] \in Keys
          /\ hpc[h] = "create" /\ streams[KeyOf[h]] = Nil
      BY <1>12, StreamsAssumption
      DEF HandleWriterCreate, streamVars, transVars, Conns
    <2>2. KeyOf[g] # KeyOf[h] => streams'[KeyOf[g]] = streams[KeyOf[g]]
      BY <1>12, <2>1, CreateEffect DEF Types
    <2>3. hpc'[g] \in Taking => hpc'[g] = hpc[g]
      BY <1>12, <2>20, CreateEffect, ReturnEffect DEF Types, Taking
    <2>4. Live(g) => ts[g] # Nil
      BY DEF TransInv, Live, Carrying
    <2>5. Live(g)' => streams'[KeyOf[g]] = ts'[g]
      BY <2>1, <2>2, <2>4, <2>20 DEF Live
    <2>6. hpc[g] \in Taking => hs[g] # Nil
      BY <2>20 DEF StageInv, StageOf, InHandleReader, Taking
    <2> QED
      BY <2>1, <2>2, <2>3, <2>5, <2>6, <2>20 DEF TakeOver, Spawned, Taking
  <1>13. ASSUME NEW h \in Conns, HandleWriterGet(h) PROVE Registered'
    <2>1. UNCHANGED <<streams, isStart, tpc, ts>>
      BY <1>13 DEF HandleWriterGet, streamVars, transVars
    <2>2. \A g \in Publishers : hpc'[g] \in Taking =>
             hpc'[g] = hpc[g] /\ hs'[g] = hs[g] /\ ho'[g] = ho[g]
      BY <1>13, WGetEffect, ReturnEffect
      DEF HandleWriterGet, Types, Conns, Taking, handlerVars
    <2> QED
      BY <1>0, <2>1, <2>2, RegisteredFrame
  <1>14. ASSUME NEW h \in Conns, AddWriter(h) PROVE Registered'
    <2>1. UNCHANGED <<streams, isStart, tpc, ts>>
      BY <1>14 DEF AddWriter, streamVars, transVars
    <2>2. \A g \in Publishers : hpc'[g] \in Taking =>
             hpc'[g] = hpc[g] /\ hs'[g] = hs[g] /\ ho'[g] = ho[g]
      BY <1>14, ReturnEffect DEF AddWriter, Types, Conns, Taking, handlerVars
    <2> QED
      BY <1>0, <2>1, <2>2, RegisteredFrame
  <1>15. ASSUME NEW k \in Keys, SweepRemove(k) PROVE Registered'
    <2> SUFFICES ASSUME NEW g \in Publishers
                 PROVE  TakeOver(g)' /\ (Live(g)' => streams'[KeyOf[g]] = ts'[g])
      BY DEF Registered
    <2>20. TakeOver(g) /\ (Live(g) => streams[KeyOf[g]] = ts[g]) /\ g \in Conns
      BY <1>0 DEF Registered, Conns
    <2>1. /\ UNCHANGED <<isStart, tpc, ts, hs, ho, hpc>> /\ KeyOf[g] \in Keys
          /\ ~InUse(streams[k])
      BY <1>15, StreamsAssumption
      DEF SweepRemove, streamVars, transVars, handlerVars, Conns
    <2>2. KeyOf[g] # k => streams'[KeyOf[g]] = streams[KeyOf[g]]
      BY <1>15, <2>1 DEF SweepRemove, Types
    <2>3. Live(g) => ts[g] # Nil /\ tpc[g] \notin {"none", "done"}
      BY DEF TransInv, Live, Carrying
    <2>4. Live(g) => KeyOf[g] # k
      BY <2>1, <2>3, <2>20 DEF InUse, Transporting
    <2>5. Live(g)' => streams'[KeyOf[g]] = ts'[g]
      BY <2>1, <2>2, <2>4, <2>20 DEF Live
    <2>6. hpc[g] \in {"stop", "flag", "id", "add"} => KeyOf[g] # k
      BY <2>1, <2>20 DEF TakeOver, InUse, StageInv, StageOf, InHandleReader
    <2> QED
      BY <2>1, <2>2, <2>5, <2>6, <2>20 DEF TakeOver, Spawned
  <1>16. CASE Background
    <2> SUFFICES ASSUME NEW g \in Publishers
                 PROVE  TakeOver(g)' /\ (Live(g)' => streams'[KeyOf[g]] = ts'[g])
      BY DEF Registered
    <2>20. TakeOver(g) /\ (Live(g) => streams[KeyOf[g]] = ts[g]) /\ g \in Conns
      BY <1>0 DEF Registered, Conns
    <2>1. /\ UNCHANGED <<streams, ts, hs, ho, hpc>>
          /\ \A f \in Publishers : /\ tpc'[f] = "spawned" => tpc[f] = "spawned"
                                   /\ tpc'[f] \in Carrying => tpc[f] \in Running
          /\ \A s \in StreamIds : isStart'[s] => isStart[s] \/ Spawned(s)
      BY <1>16, BackgroundEffect
    <2>2. \A s : Spawned(s)' => Spawned(s)
      BY <2>1 DEF Spawned
    <2>3. Live(g)' => streams'[KeyOf[g]] = ts'[g]
      <3> SUFFICES ASSUME Live(g)', ~Live(g) PROVE streams[KeyOf[g]] = ts[g]
        BY <2>1, <2>20
      <3>1. tpc[g] \in Carrying /\ isStart'[ts[g]] /\ ~isStart[ts[g]]
        BY <2>1 DEF Live, Running
      <3>2. ts[g] \in StreamIds
        BY <3>1 DEF TransInv, Carrying, Types
      <3>3. PICK f \in Publishers : ts[f] = ts[g] /\ tpc[f] = "spawned"
        BY <2>1, <3>1, <3>2 DEF Spawned
      <3>4. streams[KeyOf[f]] = ts[f]
        BY <1>0, <3>3 DEF Registered, Live
      <3>5. KeyOf[f] \in Keys /\ KeyOf[g] \in Keys
        BY StreamsAssumption DEF Conns
      <3>6. KeyOf[f] = KeyOf[g]
        BY <3>2, <3>3, <3>5 DEF KeyInv, Refers
      <3> QED
        BY <3>3, <3>4, <3>6
    <2>4. hpc[g] \in Taking => hs[g] \in StreamIds
      BY <2>20 DEF StageInv, StageOf, InHandleReader, Taking, Types
    <2>5. hpc[g] = "copy" => ho[g] \in StreamIds
      BY <2>20 DEF StageInv, StageOf, Types
    <2>6. Spawned(hs[g])' => Spawned(hs[g])
      BY <2>1 DEF Spawned
    <2>7. Spawned(ho[g])' => Spawned(ho[g])
      BY <2>1 DEF Spawned
    <2>8. TakeOver(g)'
      BY <2>1, <2>4, <2>5, <2>6, <2>7, <2>20 DEF TakeOver, Taking
    <2> QED
      BY <2>3, <2>8
  <1>17. CASE UNCHANGED vars
    BY <1>0, <1>17, RegisteredFrame DEF vars
  <1> QED
    BY <1>1, <1>2, <1>3, <1>4, <1>5, <1>6, <1>7, <1>8, <1>9, <1>10, <1>11, <1>12,
       <1>13, <1>14, <1>15, <1>16, <1>17, Cases

(* A step that changes no key and no copy, and at most takes writers off   *)
(* lists or closes them, leaves players served.                            *)
LEMMA ServedFrame ==
  ASSUME Types, StageInv, Served, UNCHANGED streams,
         \A s \in StreamIds : ws'[s] \subseteq ws[s],
         \A q \in Players : Player(q) \in open' => Player(q) \in open,
         \A g \in Publishers :
             /\ hpc'[g] = "copy" <=> hpc[g] = "copy"
             /\ hpc[g] = "copy" => hs'[g] = hs[g] /\ ho'[g] = ho[g] /\ hcopy'[g] = hcopy[g]
  PROVE  Served'
  <1>1. ASSUME NEW p \in Publishers PROVE CopiesAll(p)'
    <2>1. CASE hpc[p] = "copy"
      <3>1. ho[p] \in StreamIds /\ CopiesAll(p)
        BY <2>1 DEF Served, StageInv, StageOf, Types, Conns
      <3> QED
        BY <2>1, <3>1 DEF CopiesAll
    <2>2. CASE hpc[p] # "copy"
      BY <2>2 DEF CopiesAll
    <2> QED
      BY <2>1, <2>2
  <1>2. ASSUME NEW q \in Players, NEW s \in StreamIds, ServedOn(q, s) PROVE ServedOn(q, s)'
    BY <1>2 DEF ServedOn
  <1> QED
    BY <1>1, <1>2 DEF Served

(* Players stay served.                                                    *)
LEMMA ServeKept ==
  ASSUME Types, StageInv, KeyInv, Single, HomeInv, ServeInv, [Next]_vars PROVE ServeInv'
  <1> SUFFICES ASSUME anomaly' \subseteq {"missed"} PROVE Served'
    BY DEF ServeInv
  <1>0. "overlap" \notin anomaly /\ Served
    BY AnomalyGrows DEF ServeInv
  <1>1. ASSUME NEW p \in Publishers, HandleReaderGet(p) PROVE Served'
    <2>1. /\ UNCHANGED <<streams, ws>>
          /\ \A q \in Players : Player(q) \in open' => Player(q) \in open
      BY <1>1, GetEffect DEF HandleReaderGet, streamVars, Player, Recorder, Source
    <2>2. \A g \in Publishers :
             /\ hpc'[g] = "copy" <=> hpc[g] = "copy"
             /\ hpc[g] = "copy" => hs'[g] = hs[g] /\ ho'[g] = ho[g] /\ hcopy'[g] = hcopy[g]
      BY <1>1, GetEffect DEF HandleReaderGet, Types, Conns, handlerVars
    <2> QED
      BY <1>0, <2>1, <2>2, ServedFrame
  <1>2. ASSUME NEW p \in Publishers, TransStopClose(p) PROVE Served'
    <2>1. /\ UNCHANGED <<streams, ws>>
          /\ \A q \in Players : Player(q) \in open' => Player(q) \in open
      BY <1>2 DEF TransStopClose, streamVars, Player, Recorder, Source
    <2>2. \A g \in Publishers :
             /\ hpc'[g] = "copy" <=> hpc[g] = "copy"
             /\ hpc[g] = "copy" => hs'[g] = hs[g] /\ ho'[g] = ho[g] /\ hcopy'[g] = hcopy[g]
      BY <1>2 DEF TransStopClose, Types, Conns, handlerVars
    <2> QED
      BY <1>0, <2>1, <2>2, ServedFrame
  <1>3. ASSUME NEW p \in Publishers, TransStopFlag(p) PROVE Served'
    <2>1. /\ UNCHANGED <<streams, ws>>
          /\ \A q \in Players : Player(q) \in open' => Player(q) \in open
      BY <1>3 DEF TransStopFlag, streamVars, Player, Recorder, Source
    <2>2. \A g \in Publishers :
             /\ hpc'[g] = "copy" <=> hpc[g] = "copy"
             /\ hpc[g] = "copy" => hs'[g] = hs[g] /\ ho'[g] = ho[g] /\ hcopy'[g] = hcopy[g]
      BY <1>3 DEF TransStopFlag, Types, Conns, handlerVars
    <2> QED
      BY <1>0, <2>1, <2>2, ServedFrame
  <1>4. ASSUME NEW p \in Publishers, ReplaceOrReuse(p) PROVE Served'
    <2> SUFFICES /\ \A g \in Publishers : CopiesAll(g)'
                 /\ \A q \in Players, s \in StreamIds :
                        Player(q) \in open' /\ Player(q) \in ws'[s] => ServedOn(q, s)'
      BY DEF Served
    <2>1. UNCHANGED <<streams, ws, open>> /\ p \in Conns /\ hpc[p] = "id"
      BY <1>4 DEF ReplaceOrReuse, streamVars, Conns
    <2>2. \/ hpc'[p] = "add"
          \/ hpc'[p] = "copy" /\ ho'[p] = hs[p] /\ hcopy'[p] = ws[hs[p]]
      BY <1>4, <2>1, ReplaceEffect DEF Types
    <2>3. \A g \in Publishers : g # p =>
             hpc'[g] = hpc[g] /\ hs'[g] = hs[g] /\ ho'[g] = ho[g] /\ hcopy'[g] = hcopy[g]
      BY <1>4, ReplaceEffect DEF Types, Conns
    <2>4. ASSUME NEW g \in Publishers PROVE CopiesAll(g)'
      <3>1. CASE g = p
        BY <2>1, <2>2, <3>1 DEF CopiesAll
      <3>2. CASE g # p
        BY <1>0, <2>1, <2>3, <3>2 DEF Served, CopiesAll
      <3> QED
        BY <3>1, <3>2
    <2>5. ASSUME NEW q \in Players, NEW s \in StreamIds, ServedOn(q, s) PROVE ServedOn(q, s)'
      BY <2>1, <2>3, <2>5 DEF ServedOn
    <2> QED
      BY <1>0, <2>1, <2>4, <2>5 DEF Served
  <1>5. ASSUME NEW p \in Publishers, NEW w \in hcopy[p], Copy(p, w) PROVE Served'
    <2> SUFFICES /\ \A g \in Publishers : CopiesAll(g)'
                 /\ \A q \in Players, s \in StreamIds :
                        Player(q) \in open' /\ Player(q) \in ws'[s] => ServedOn(q, s)'
      BY DEF Served
    <2>1. /\ w \in Writers /\ hs[p] \in StreamIds /\ ho[p] \in StreamIds /\ hs[p] # ho[p]
          /\ p \in Conns
          /\ \A s \in StreamIds : ws'[s] = IF s = ho[p] THEN ws[s] \ {w}
                                           ELSE IF s = hs[p] THEN ws[s] \union {w} ELSE ws[s]
      BY <1>5, CopyEffect DEF Conns
    <2>2. UNCHANGED <<streams, open, hs, ho, hpc>> /\ hpc[p] = "copy"
      BY <1>5 DEF Copy
    <2>3. \A g \in Publishers : hcopy'[g] = IF g = p THEN hcopy[g] \ {w} ELSE hcopy[g]
      BY <1>5, <2>1 DEF Copy, Types, Conns
    <2>4. ASSUME NEW g \in Publishers PROVE CopiesAll(g)'
      <3> SUFFICES ASSUME hpc[g] = "copy" PROVE CopiesAll(g)'
        BY <2>2 DEF CopiesAll
      <3>1. CopiesAll(g) /\ ho[g] \in StreamIds
        BY <1>0 DEF Served, StageInv, StageOf, Types, Conns
      <3>2. CASE g = p
        BY <2>1, <2>2, <2>3, <3>1, <3>2 DEF CopiesAll
      <3>3. CASE g # p
        <4>1. ho[g] # hs[p]
          <5> SUFFICES ASSUME ho[g] = hs[p] PROVE FALSE
            OBVIOUS
          <5>1. /\ KeyOf[g] \in Keys /\ KeyOf[p] \in Keys
                /\ Refers(KeyOf[g], hs[p]) /\ Refers(KeyOf[p], hs[p])
            BY StreamsAssumption DEF Refers, Conns
          <5>2. KeyOf[g] = KeyOf[p]
            BY <2>1, <5>1 DEF KeyInv
          <5> QED
            BY <1>0, <2>2, <3>3, <5>2 DEF Single, InHandleReader
        <4>2. ws'[ho[g]] \subseteq ws[ho[g]]
          BY <2>1, <3>1, <4>1
        <4> QED
          BY <2>2, <2>3, <3>1, <3>3, <4>2 DEF CopiesAll
      <3> QED
        BY <3>2, <3>3
    <2>5. ASSUME NEW q \in Players, NEW s \in StreamIds,
                 Player(q) \in open, Player(q) \in ws'[s]
          PROVE  ServedOn(q, s)'
      <3>1. CASE s = hs[p]
        BY <2>2, <3>1 DEF ServedOn
      <3>2. CASE s # hs[p]
        <4>1. Player(q) \in ws[s] /\ ServedOn(q, s)
          BY <1>0, <2>1, <2>5, <3>2 DEF Served
        <4>2. Player(q) # w
          <5> SUFFICES ASSUME Player(q) = w PROVE FALSE
            OBVIOUS
          <5>1. HomeOf(w)
            BY <1>0, <2>1 DEF HomeInv, AtHome, Player
          <5>2. s = ho[p]
            BY <4>1, <5>1 DEF HomeOf
          <5> QED
            BY <2>1, <2>5, <5>2
        <4> QED
          BY <2>2, <2>3, <4>1, <4>2 DEF ServedOn
      <3> QED
        BY <3>1, <3>2
    <2> QED
      BY <2>2, <2>4, <2>5
  <1>6. ASSUME NEW p \in Publishers, HandleReaderSet(p) PROVE Served'
    <2> SUFFICES /\ \A g \in Publishers : CopiesAll(g)'
                 /\ \A q \in Players, s \in StreamIds :
                        Player(q) \in open' /\ Player(q) \in ws'[s] => ServedOn(q, s)'
      BY DEF Served
    <2>1. /\ UNCHANGED <<ws, open, hs, ho, hcopy>> /\ p \in Conns /\ KeyOf[p] \in Keys
          /\ hpc[p] = "set" \/ (hpc[p] = "copy" /\ hcopy[p] = {})
      BY <1>6, StreamsAssumption DEF HandleReaderSet, streamVars, Conns
    <2>2. streams' = [streams EXCEPT ![KeyOf[p]] = hs[p]] /\ streams[KeyOf[p]] \in {Nil, ho[p]}
      BY <1>6 DEF HandleReaderSet
    <2>3. \A g \in Publishers : hpc'[g] = IF g = p THEN "add" ELSE hpc[g]
      BY <1>6 DEF HandleReaderSet, Types, Conns
    <2>4. ASSUME NEW g \in Publishers PROVE CopiesAll(g)'
      BY <1>0, <2>1, <2>3 DEF Served, CopiesAll
    <2>5. ASSUME NEW q \in Players, NEW s \in StreamIds,
                 Player(q) \in open, Player(q) \in ws[s]
          PROVE  ServedOn(q, s)'
      <3>1. ServedOn(q, s) /\ KeyOf[q] \in Keys
        BY <1>0, <2>5, StreamsAssumption DEF Served, Conns
      <3>2. streams'[KeyOf[q]] = IF KeyOf[q] = KeyOf[p] THEN hs[p] ELSE streams[KeyOf[q]]
        BY <2>1, <2>2, <3>1 DEF Types
      <3>3. CASE streams[KeyOf[q]] = s
        <4>1. KeyOf[q] # KeyOf[p]
          <5> SUFFICES ASSUME KeyOf[q] = KeyOf[p] PROVE FALSE
            OBVIOUS
          <5>1. s = ho[p] /\ ho[p] # Nil
            BY <2>2, <3>3 DEF StreamIds, Nil
          <5>2. hpc[p] = "copy" /\ hcopy[p] = {}
            BY <2>1, <5>1 DEF StageInv, StageOf
          <5> QED
            BY <1>0, <2>5, <5>1, <5>2 DEF Served, CopiesAll
        <4> QED
          BY <3>2, <3>3, <4>1 DEF ServedOn
      <3>4. ASSUME NEW g \in Publishers, hpc[g] = "copy", hs[g] = s PROVE ServedOn(q, s)'
        <4>1. CASE g = p
          <5>1. Refers(KeyOf[q], s) /\ Refers(KeyOf[p], s)
            BY <2>1, <2>5, <3>4, <4>1 DEF Refers
          <5>2. KeyOf[q] = KeyOf[p]
            BY <2>1, <3>1, <5>1 DEF KeyInv
          <5> QED
            BY <3>2, <3>4, <4>1, <5>2 DEF ServedOn
        <4>2. CASE g # p
          BY <2>1, <2>3, <3>4, <4>2 DEF ServedOn
        <4> QED
          BY <4>1, <4>2
      <3>5. ASSUME NEW g \in Publishers, hpc[g] = "copy", Player(q) \in hcopy[g]
            PROVE  ServedOn(q, s)'
        <4>1. g # p
          BY <2>1, <3>5
        <4> QED
          BY <2>1, <2>3, <3>5, <4>1 DEF ServedOn
      <3> QED
        BY <3>1, <3>3, <3>4, <3>5 DEF ServedOn
    <2> QED
      BY <2>1, <2>4, <2>5
  <1>7. ASSUME NEW p \in Publishers, AddReader(p) PROVE Served'
    <2>1. UNCHANGED <<streams, ws, ho, hcopy>> /\ hpc[p] = "add"
      BY <1>7 DEF AddReader
    <2>2. \A q \in Players : Player(q) \in open' => Player(q) \in open
      BY <1>7, AddReaderEffect DEF Player, Recorder
    <2>3. \A g \in Publishers : /\ hpc'[g] = "copy" <=> hpc[g] = "copy"
                                /\ hpc[g] = "copy" => hs'[g] = hs[g]
      <3>1. hpc' = [hpc EXCEPT ![p] = "hls"] \/ hpc' = [hpc EXCEPT ![p] = "has"]
        BY <1>7, AddReaderEffect
      <3>2. hs' = [hs EXCEPT ![p] = Nil]
        BY <1>7 DEF AddReader
      <3> QED
        BY <2>1, <3>1, <3>2 DEF Types, Conns
    <2> QED
      BY <1>0, <2>1, <2>2, <2>3, ServedFrame
  <1>8. ASSUME NEW p \in Publishers, HlsWriter(p) PROVE Served'
    <2>1. /\ UNCHANGED <<streams, ws>>
          /\ \A q \in Players : Player(q) \in open' => Player(q) \in open
      BY <1>8, HlsEffect DEF HlsWriter, streamVars, Player, Recorder, Source
    <2>2. \A g \in Publishers :
             /\ hpc'[g] = "copy" <=> hpc[g] = "copy"
             /\ hpc[g] = "copy" => hs'[g] = hs[g] /\ ho'[g] = ho[g] /\ hcopy'[g] = hcopy[g]
      BY <1>8, HlsEffect DEF HlsWriter, Types, Conns, handlerVars
    <2> QED
      BY <1>0, <2>1, <2>2, ServedFrame
  <1>9. ASSUME NEW q \in Players, PlayerArrives(q) PROVE Served'
    <2>1. /\ UNCHANGED <<streams, ws>>
          /\ \A u \in Players : Player(u) \in open' => Player(u) \in open
      BY <1>9 DEF PlayerArrives, streamVars, Player, Recorder, Source
    <2>2. \A g \in Publishers :
             /\ hpc'[g] = "copy" <=> hpc[g] = "copy"
             /\ hpc[g] = "copy" => hs'[g] = hs[g] /\ ho'[g] = ho[g] /\ hcopy'[g] = hcopy[g]
      BY <1>9 DEF PlayerArrives, Types, Conns, handlerVars
    <2> QED
      BY <1>0, <2>1, <2>2, ServedFrame
  <1>10. ASSUME NEW q \in Players, HttpFlvCheck(q) PROVE Served'
    <2>1. /\ UNCHANGED <<streams, ws>>
          /\ \A u \in Players : Player(u) \in open' => Player(u) \in open
      BY <1>10 DEF HttpFlvCheck, streamVars, Player, Recorder, Source
    <2>2. \A g \in Publishers :
             /\ hpc'[g] = "copy" <=> hpc[g] = "copy"
             /\ hpc[g] = "copy" => hs'[g] = hs[g] /\ ho'[g] = ho[g] /\ hcopy'[g] = hcopy[g]
      BY <1>10 DEF HttpFlvCheck, Types, Conns, handlerVars
    <2> QED
      BY <1>0, <2>1, <2>2, ServedFrame
  <1>11. ASSUME NEW h \in Conns, HandleWriterHas(h) PROVE Served'
    <2>1. /\ UNCHANGED <<streams, ws>>
          /\ \A q \in Players : Player(q) \in open' => Player(q) \in open
      BY <1>11 DEF HandleWriterHas, streamVars, Player, Recorder, Source
    <2>2. \A g \in Publishers :
             /\ hpc'[g] = "copy" <=> hpc[g] = "copy"
             /\ hpc[g] = "copy" => hs'[g] = hs[g] /\ ho'[g] = ho[g] /\ hcopy'[g] = hcopy[g]
      BY <1>11 DEF HandleWriterHas, Types, Conns, handlerVars
    <2> QED
      BY <1>0, <2>1, <2>2, ServedFrame
  <1>12. ASSUME NEW h \in Conns, HandleWriterCreate(h) PROVE Served'
    <2> SUFFICES /\ \A g \in Publishers : CopiesAll(g)'
                 /\ \A q \in Players, s \in StreamIds :
                        Player(q) \in open' /\ Player(q) \in ws'[s] => ServedOn(q, s)'
      BY DEF Served
    <2>1. /\ UNCHANGED <<ws, hs, ho, hcopy>> /\ KeyOf[h] \in Keys
          /\ hpc[h] = "create" /\ streams[KeyOf[h]] = Nil
      BY <1>12, StreamsAssumption DEF HandleWriterCreate, streamVars
    <2>2. \A g \in Keys : g # KeyOf[h] => streams'[g] = streams[g]
      BY <1>12, CreateEffect DEF Types
    <2>3. \A g \in Publishers : hpc'[g] = "copy" <=> hpc[g] = "copy"
      BY <1>12, <2>1, CreateEffect, ReturnEffect DEF Types, Conns
    <2>4. \A q \in Players : Player(q) \in open' => Player(q) \in open
      BY <1>12, CreateEffect, ReturnEffect DEF Player, Recorder
    <2>5. ASSUME NEW g \in Publishers PROVE CopiesAll(g)'
      BY <1>0, <2>1, <2>3 DEF Served, CopiesAll
    <2>6. ASSUME NEW q \in Players, NEW s \in StreamIds, ServedOn(q, s) PROVE ServedOn(q, s)'
      <3>1. KeyOf[q] \in Keys /\ s # Nil
        BY StreamsAssumption DEF Conns, StreamIds, Nil
      <3> QED
        BY <2>1, <2>2, <2>3, <2>6, <3>1 DEF ServedOn
    <2> QED
      BY <1>0, <2>1, <2>4, <2>5, <2>6 DEF Served
  <1>13. ASSUME NEW h \in Conns, HandleWriterGet(h) PROVE Served'
    <2>1. /\ UNCHANGED <<streams, ws>>
          /\ \A q \in Players : Player(q) \in open' => Player(q) \in open
      BY <1>13, WGetEffect, ReturnEffect
      DEF HandleWriterGet, streamVars, Player, Recorder, Source
    <2>2. \A g \in Publishers :
             /\ hpc'[g] = "copy" <=> hpc[g] = "copy"
             /\ hpc[g] = "copy" => hs'[g] = hs[g] /\ ho'[g] = ho[g] /\ hcopy'[g] = hcopy[g]
      BY <1>13, WGetEffect, ReturnEffect
      DEF HandleWriterGet, Types, Conns, handlerVars
    <2> QED
      BY <1>0, <2>1, <2>2, ServedFrame
  <1>14. ASSUME NEW h \in Conns, AddWriter(h) PROVE Served'
    <2> SUFFICES /\ \A g \in Publishers : CopiesAll(g)'
                 /\ \A q \in Players, s \in StreamIds :
                        Player(q) \in open' /\ Player(q) \in ws'[s] => ServedOn(q, s)'
      BY DEF Served
    <2>1. /\ UNCHANGED <<streams, ho, hcopy>> /\ h \in Conns /\ hpc[h] = "attach"
          /\ ws' = [ws EXCEPT ![hs[h]] = @ \union {hw[h]}] /\ ~Abandoned(hs[h])
          /\ hs' = [hs EXCEPT ![h] = Nil]
      BY <1>14 DEF AddWriter
    <2>2. hs[h] \in StreamIds /\ KeyOf[h] \in Keys
      <3>1. hs[h] # Nil
        BY <2>1 DEF StageInv, StageOf
      <3> QED
        BY <2>1, <3>1, StreamsAssumption DEF Types
    <2>3. \A g \in Publishers : /\ hpc'[g] = "copy" <=> hpc[g] = "copy"
                                /\ hpc[g] = "copy" => hs'[g] = hs[g]
      <3>1. hpc' = [hpc EXCEPT ![h] = "done"] \/ hpc' = [hpc EXCEPT ![h] = "has"]
        BY <1>14, ReturnEffect DEF AddWriter
      <3> QED
        BY <2>1, <3>1 DEF Types, Conns
    <2>4. \A q \in Players : Player(q) \in open' => Player(q) \in open
      BY <1>14, ReturnEffect DEF AddWriter, Player, Recorder
    <2>5. streams[KeyOf[h]] = hs[h] /\ \A g \in Publishers : ho[g] # hs[h]
      <3>1. PICK k \in Keys : streams[k] = hs[h]
        BY <2>1 DEF Abandoned
      <3>2. k = KeyOf[h]
        BY <2>1, <2>2, <3>1 DEF KeyInv, Refers
      <3> QED
        BY <2>1, <3>1, <3>2 DEF Abandoned
    <2>6. \A s \in StreamIds : ws'[s] = IF s = hs[h] THEN ws[s] \union {hw[h]} ELSE ws[s]
      BY <2>1, <2>2 DEF Types
    <2>7. ASSUME NEW g \in Publishers PROVE CopiesAll(g)'
      <3>1. hpc[g] = "copy" => ho[g] \in StreamIds /\ ws'[ho[g]] = ws[ho[g]]
        <4>1. hpc[g] = "copy" => ho[g] \in StreamIds
          BY DEF StageInv, StageOf, Types, Conns
        <4> QED
          BY <2>5, <2>6, <4>1
      <3> QED
        BY <1>0, <2>1, <2>3, <3>1 DEF Served, CopiesAll
    <2>8. ASSUME NEW q \in Players, NEW s \in StreamIds,
                 Player(q) \in open, Player(q) \in ws'[s]
          PROVE  ServedOn(q, s)'
      <3>1. CASE Player(q) \in ws[s]
        <4>1. ServedOn(q, s)
          BY <1>0, <2>8, <3>1 DEF Served
        <4> QED
          BY <2>1, <2>3, <4>1 DEF ServedOn
      <3>2. CASE Player(q) \notin ws[s]
        <4>1. s = hs[h] /\ Player(q) = hw[h]
          BY <2>6, <2>8, <3>2
        <4>2. q = h
          BY <2>1, <4>1 DEF StageInv, StageOf, Player
        <4> QED
          BY <2>1, <2>5, <4>1, <4>2 DEF ServedOn
      <3> QED
        BY <3>1, <3>2
    <2> QED
      BY <2>4, <2>7, <2>8
  <1>15. ASSUME NEW k \in Keys, SweepRemove(k) PROVE Served'
    <2> SUFFICES /\ \A g \in Publishers : CopiesAll(g)'
                 /\ \A q \in Players, s \in StreamIds :
                        Player(q) \in open' /\ Player(q) \in ws'[s] => ServedOn(q, s)'
      BY DEF Served
    <2>1. UNCHANGED <<ws, open, hs, ho, hcopy, hpc>> /\ ~InUse(streams[k])
      BY <1>15 DEF SweepRemove, streamVars, handlerVars
    <2>2. \A g \in Keys : g # k => streams'[g] = streams[g]
      BY <1>15 DEF SweepRemove, Types
    <2>3. ASSUME NEW g \in Publishers PROVE CopiesAll(g)'
      BY <1>0, <2>1 DEF Served, CopiesAll
    <2>4. ASSUME NEW q \in Players, NEW s \in StreamIds,
                 Player(q) \in open, Player(q) \in ws[s]
          PROVE  ServedOn(q, s)'
      <3>1. ServedOn(q, s) /\ KeyOf[q] \in Keys
        BY <1>0, <2>4, StreamsAssumption DEF Served, Conns
      <3>2. streams[KeyOf[q]] = s => KeyOf[q] # k
        BY <2>1, <2>4 DEF InUse, StreamIds, Nil
      <3> QED
        BY <2>1, <2>2, <3>1, <3>2 DEF ServedOn
    <2> QED
      BY <2>1, <2>3, <2>4
  <1>16. CASE Background
    BY <1>0, <1>16, BackgroundEffect, ServedFrame
  <1>17. CASE UNCHANGED vars
    BY <1>0, <1>17, ServedFrame DEF vars
  <1> QED
    BY <1>1, <1>2, <1>3, <1>4, <1>5, <1>6, <1>7, <1>8, <1>9, <1>10, <1>11, <1>12,
       <1>13, <1>14, <1>15, <1>16, <1>17, Cases

-----------------------------------------------------------------------------
(* The parts together.                                                     *)
LEMMA StreamsInvInit ==
  ASSUME Init PROVE StreamsInv
  <1> USE DEF Init
  <1>1. Types
    BY StreamsAssumption, IsWriter DEF Types, Pcs, TransPcs, StreamIds, Nil, Conns
  <1>2. Blank /\ TransInv /\ CopyKey /\ Single
    BY DEF Blank, StreamIds, TransInv, CopyKey, Single, InHandleReader, Conns
  <1>3. KeyInv
    BY DEF KeyInv, Refers, StreamIds, Nil, Conns
  <1>4. StageInv
    BY DEF StageInv, StageOf, InHandleReader, NoWriter
  <1>5. AtHome
    BY DEF AtHome, HomeOf, Conns
  <1>6. Registered
    BY DEF Registered, TakeOver, Live, Carrying, Conns
  <1>7. Served
    BY DEF Served, CopiesAll, ServedOn, Conns
  <1> QED
    BY <1>1, <1>2, <1>3, <1>4, <1>5, <1>6, <1>7, TypeParts
    DEF StreamsInv, BaseInv, HomeInv, RegisterInv, ServeInv

LEMMA StreamsInvNext ==
  ASSUME StreamsInv, [Next]_vars PROVE StreamsInv'
  <1>1. /\ Types /\ Blank /\ KeyInv /\ StageInv /\ TransInv /\ CopyKey /\ Single
        /\ HomeInv /\ RegisterInv /\ ServeInv
    BY TypeParts DEF StreamsInv, BaseInv
  <1>2. Types' /\ Blank'
    BY <1>1, TypesKept, BlankKept
  <1>3. KeyInv' /\ StageInv' /\ TransInv'
    BY <1>1, KeyKept, StageKept, TransKept
  <1>4. CopyKey' /\ Single'
    BY <1>1, CopyKeyKept, SingleKept
  <1>5. HomeInv' /\ RegisterInv' /\ ServeInv'
    BY <1>1, HomeKept, RegisterKept, ServeKept
  <1>6. TypeOK'
    BY <1>2 DEF TypeOK, Types, Blank, Pcs, TransPcs
  <1> QED
    BY <1>3, <1>4, <1>5, <1>6 DEF StreamsInv, BaseInv

(* The parts above hold together in every reachable state.                 *)
THEOREM StreamsInvariant == Spec => []StreamsInv
  <1>1. Init => StreamsInv
    BY StreamsInvInit
  <1>2. StreamsInv /\ [Next]_vars => StreamsInv'
    BY StreamsInvNext
  <1> QED
    BY <1>1, <1>2, PTL DEF Spec

(* A player and a recording are on the list of at most one stream, unless  *)
(* two HandleReaders of one key have overlapped (stream.go:40-49).         *)
THEOREM WritersHaveOneHome == Spec => []OneHome
  <1>1. StreamsInv => OneHome
    BY DEF StreamsInv, BaseInv, HomeInv, AtHome, HomeOf, OneHome
  <1> QED
    BY <1>1, StreamsInvariant, PTL

(* A transport that has not been told to stop carries the stream its key   *)
(* is registered with, unless one of four races has happened.              *)
THEOREM TransportsStayRegistered == Spec => []TransportRegistered
  <1>1. StreamsInv => TransportRegistered
    BY DEF StreamsInv, RegisterInv, Registered, Live, Carrying, TransportRegistered
  <1> QED
    BY <1>1, StreamsInvariant, PTL

(* An open player on a list is on the registered stream's list or on the   *)
(* list of the stream about to replace it, unless one of four races has    *)
(* happened.                                                               *)
THEOREM PlayersStayServed == Spec => []PlayerServed
  <1>1. StreamsInv => PlayerServed
    BY DEF StreamsInv, ServeInv, Served, ServedOn, PlayerServed
  <1> QED
    BY <1>1, StreamsInvariant, PTL

=============================================================================
