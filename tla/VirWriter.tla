------------------------------ MODULE VirWriter ------------------------------
(***************************************************************************)
(* The player side of an RTMP connection: protocol/rtmp/rtmp.go,          *)
(* VirWriter.  Stream transports (the producers) call Write, which puts a  *)
(* packet on the bounded channel packetQueue or, when the channel is       *)
(* nearly full, runs DropPacket instead.  One goroutine, SendPacket,       *)
(* drains the channel into the connection.  Close is called by the         *)
(* goroutine running Check, by Stream.CheckAlive and by                    *)
(* Stream.closeInter, with no lock between any of them.                    *)
(*                                                                         *)
(* An action is one step between two accesses to the state the goroutines  *)
(* share: the channel, the flag `closed' and the connection.  A read of    *)
(* the unsynchronised flag that returns an old value is the same step      *)
(* taken earlier, so the interleavings cover it.                           *)
(***************************************************************************)
EXTENDS Integers, Sequences, FiniteSets

CONSTANTS
    Producers,   \* the transports that may write to this player
    Closers,     \* the calls of Close
    Kinds,       \* the kinds of packet a publisher sends
    MaxPackets,  \* bound: how many packets are ever offered to Write
    QueueCap,    \* maxQueueNum, 1024 in the code
    AudioSlack,  \* 2:  an audio packet gives way above QueueCap - AudioSlack
    VideoSlack,  \* 10: a video packet makes room above QueueCap - VideoSlack
    WriteSlack,  \* 24: Write overflows from QueueCap - WriteSlack on
    DropSlack    \* 84: DropPacket examines QueueCap - DropSlack packets

ASSUME SlackAssumption ==
    /\ MaxPackets \in Nat
    /\ QueueCap \in Nat /\ AudioSlack \in Nat /\ VideoSlack \in Nat
    /\ WriteSlack \in Nat /\ DropSlack \in Nat
    /\ AudioSlack <= VideoSlack
    /\ VideoSlack <= WriteSlack
    /\ WriteSlack <= DropSlack
    /\ DropSlack < QueueCap

(* av.Packet: audio, a video sequence header, a key frame, any other video *)
(* frame, metadata.                                                        *)
ASSUME KindsAssumption == Kinds \subseteq {"audio", "seq", "key", "inter", "meta"}

ASSUME ProducersFinite == IsFiniteSet(Producers)

VARIABLES
    packetQueue,  \* the channel: a sequence of packets
    qclosed,      \* close(packetQueue) was called
    closed,       \* the field closed
    conn,         \* the connection: "open", "closed", or "broken" once bufio
                  \* has an error to report
    ppc,          \* where each producer is in Write or DropPacket
    pkt,          \* the packet each producer holds (its argument, or tmpPkt)
    round,        \* i of DropPacket's loop
    cpc,          \* where SendPacket is
    cur,          \* the packet SendPacket received
    xpc,          \* where each call of Close is
    crashed,      \* close of a closed channel: the panic ends the process
    nextId,       \* history: the number of the next packet
    sent,         \* history: what conn.Write accepted, in order
    dropped,      \* history: what DropPacket took off the channel for good
    refused,      \* history: packets Write gave up in favour of DropPacket
    lost,         \* history: packets in hand when the player went away
    overlapped    \* history: two calls of Close were under way together

qvars == <<packetQueue, qclosed>>
pvars == <<ppc, pkt, round>>
cvars == <<cpc, cur, conn>>
hist  == <<sent, dropped, refused, lost>>
vars  == <<packetQueue, qclosed, closed, conn, ppc, pkt, round, cpc, cur, xpc,
           crashed, nextId, sent, dropped, refused, lost, overlapped>>

Packets == [id : 1 .. MaxPackets, kind : Kinds]
NoPkt   == [id |-> 0, kind |-> "none"]

(* What DropPacket means to keep: audio, sequence headers and key frames.  *)
Essential == {"audio", "seq", "key"}

HighMark == QueueCap - WriteSlack
Rounds   == QueueCap - DropSlack

Init ==
    /\ packetQueue = <<>>
    /\ qclosed = FALSE
    /\ closed = FALSE
    /\ conn = "open"
    /\ ppc = [p \in Producers |-> "idle"]
    /\ pkt = [p \in Producers |-> NoPkt]
    /\ round = [p \in Producers |-> 0]
    /\ cpc = "recv"
    /\ cur = NoPkt
    /\ xpc = [c \in Closers |-> "new"]
    /\ crashed = FALSE
    /\ nextId = 1
    /\ sent = <<>>
    /\ dropped = {}
    /\ refused = {}
    /\ lost = {}
    /\ overlapped = FALSE

-----------------------------------------------------------------------------
(***************************************************************************)
(* Write.  A producer whose Write returned an error is "removed": its      *)
(* stream takes the writer off its list and never writes to it again.      *)
(***************************************************************************)
WriteClosed(p) ==
    /\ ppc[p] = "idle"
    /\ closed
    /\ ppc' = [ppc EXCEPT ![p] = "removed"]
    /\ UNCHANGED <<qvars, closed, pkt, round, cvars, xpc, nextId, hist,
                   overlapped>>

WriteEnter(p) ==
    /\ ppc[p] = "idle"
    /\ ~closed
    /\ nextId <= MaxPackets
    /\ \E k \in Kinds : pkt' = [pkt EXCEPT ![p] = [id |-> nextId, kind |-> k]]
    /\ ppc' = [ppc EXCEPT ![p] = "choose"]
    /\ nextId' = nextId + 1
    /\ UNCHANGED <<qvars, closed, round, cvars, xpc, hist, overlapped>>

NearlyFullAtCapacity == Len(packetQueue) >= QueueCap
NearlyFullOffByOne == Len(packetQueue) > HighMark
NearlyFull == Len(packetQueue) >= HighMark

WriteAccept(p) ==
    /\ ppc[p] = "choose"
    /\ ~NearlyFull
    /\ ppc' = [ppc EXCEPT ![p] = "send"]
    /\ UNCHANGED <<qvars, closed, pkt, round, cvars, xpc, nextId, hist,
                   overlapped>>

(* The overflow branch calls DropPacket and never sends the argument.      *)
WriteOverflow(p) ==
    /\ ppc[p] = "choose"
    /\ NearlyFull
    /\ refused' = refused \union {pkt[p]}
    /\ ppc' = [ppc EXCEPT ![p] = "take"]
    /\ pkt' = [pkt EXCEPT ![p] = NoPkt]
    /\ round' = [round EXCEPT ![p] = 0]
    /\ UNCHANGED <<qvars, closed, cvars, xpc, nextId, sent, dropped,
                   lost, overlapped>>

(* packetQueue <- p.  A full channel blocks.                               *)
WriteSend(p) ==
    /\ ppc[p] = "send"
    /\ ~qclosed
    /\ Len(packetQueue) < QueueCap
    /\ packetQueue' = Append(packetQueue, pkt[p])
    /\ ppc' = [ppc EXCEPT ![p] = "idle"]
    /\ pkt' = [pkt EXCEPT ![p] = NoPkt]
    /\ UNCHANGED <<qclosed, closed, round, cvars, xpc, nextId, hist,
                   overlapped>>

(* A send on a closed channel panics; Write recovers and returns an error, *)
(* whether the send is its own or one of DropPacket's.                     *)
SendPanics(p) ==
    /\ ppc[p] \in {"send", "keep"}
    /\ qclosed
    /\ ppc' = [ppc EXCEPT ![p] = "removed"]
    /\ pkt' = [pkt EXCEPT ![p] = NoPkt]
    /\ lost' = lost \union {pkt[p]}
    /\ UNCHANGED <<qvars, closed, round, cvars, xpc, nextId, sent, dropped,
                   refused, overlapped>>

-----------------------------------------------------------------------------
(***************************************************************************)
(* DropPacket: Rounds times, take the oldest packet and put it back if it  *)
(* is worth keeping.  The receive blocks on an empty open channel.         *)
(***************************************************************************)
NextRoundOneMore(p) ==
    IF round[p] < Rounds
    THEN ppc' = [ppc EXCEPT ![p] = "take"] /\ round' = [round EXCEPT ![p] = @ + 1]
    ELSE ppc' = [ppc EXCEPT ![p] = "idle"] /\ round' = [round EXCEPT ![p] = 0]
NextRound(p) ==
    IF round[p] + 1 < Rounds
    THEN ppc' = [ppc EXCEPT ![p] = "take"] /\ round' = [round EXCEPT ![p] = @ + 1]
    ELSE ppc' = [ppc EXCEPT ![p] = "idle"] /\ round' = [round EXCEPT ![p] = 0]

DropTakeKeep(p) ==
    /\ ppc[p] = "take"
    /\ packetQueue # <<>>
    /\ Head(packetQueue).kind \in Essential
    /\ pkt' = [pkt EXCEPT ![p] = Head(packetQueue)]
    /\ packetQueue' = Tail(packetQueue)
    /\ ppc' = [ppc EXCEPT ![p] = IF Head(packetQueue).kind = "audio"
                                 THEN "audio" ELSE "keep"]
    /\ UNCHANGED <<qclosed, closed, round, cvars, xpc, nextId, hist,
                   overlapped>>

(* An inter frame is not put back; the length test that follows it still   *)
(* runs.                                                                   *)
DropTakeInter(p) ==
    /\ ppc[p] = "take"
    /\ packetQueue # <<>>
    /\ Head(packetQueue).kind = "inter"
    /\ dropped' = dropped \union {Head(packetQueue)}
    /\ packetQueue' = Tail(packetQueue)
    /\ ppc' = [ppc EXCEPT ![p] = "trim"]
    /\ UNCHANGED <<qclosed, closed, pkt, round, cvars, xpc, nextId, sent,
                   refused, lost, overlapped>>

(* Metadata is neither audio nor video: no branch puts it back.            *)
DropTakeMeta(p) ==
    /\ ppc[p] = "take"
    /\ packetQueue # <<>>
    /\ Head(packetQueue).kind = "meta"
    /\ dropped' = dropped \union {Head(packetQueue)}
    /\ packetQueue' = Tail(packetQueue)
    /\ NextRound(p)
    /\ UNCHANGED <<qclosed, closed, pkt, cvars, xpc, nextId, sent, refused,
                   lost, overlapped>>

(* The receive from a closed and drained channel returns at once, not ok.  *)
DropTakeNothingBlocks(p) == FALSE
DropTakeNothing(p) ==
    /\ ppc[p] = "take"
    /\ packetQueue = <<>>
    /\ qclosed
    /\ NextRound(p)
    /\ UNCHANGED <<qvars, closed, pkt, cvars, xpc, nextId, hist, overlapped>>

(* The audio branch: above the limit the packet in hand is lost and the    *)
(* next one is thrown away too; otherwise it is sent back.                 *)
DropAudio(p) ==
    /\ ppc[p] = "audio"
    /\ IF Len(packetQueue) > QueueCap - AudioSlack
       THEN /\ dropped' = dropped \union {pkt[p]}
            /\ pkt' = [pkt EXCEPT ![p] = NoPkt]
            /\ ppc' = [ppc EXCEPT ![p] = "discard"]
       ELSE /\ ppc' = [ppc EXCEPT ![p] = "keep"]
            /\ UNCHANGED <<pkt, dropped>>
    /\ UNCHANGED <<qvars, closed, round, cvars, xpc, nextId, sent, refused,
                   lost, overlapped>>

DropKeepTwice(p) ==
    /\ ppc[p] = "keep"
    /\ ~qclosed
    /\ Len(packetQueue) < QueueCap
    /\ packetQueue' = packetQueue \o <<pkt[p], pkt[p]>>
    /\ pkt' = [pkt EXCEPT ![p] = NoPkt]
    /\ NextRound(p)
    /\ UNCHANGED <<qclosed, closed, cvars, xpc, nextId, hist, overlapped>>
DropKeep(p) ==
    /\ ppc[p] = "keep"
    /\ ~qclosed
    /\ Len(packetQueue) < QueueCap
    /\ packetQueue' = Append(packetQueue, pkt[p])
    /\ pkt' = [pkt EXCEPT ![p] = NoPkt]
    /\ IF pkt[p].kind = "audio"
       THEN NextRound(p)
       ELSE ppc' = [ppc EXCEPT ![p] = "trim"] /\ UNCHANGED round
    /\ UNCHANGED <<qclosed, closed, cvars, xpc, nextId, hist, overlapped>>

OverVideoMarkLow == Len(packetQueue) >= HighMark - 1
OverVideoMark == Len(packetQueue) > QueueCap - VideoSlack

(* The video branch ends with a length test of its own.                    *)
DropTrim(p) ==
    /\ ppc[p] = "trim"
    /\ IF OverVideoMark
       THEN ppc' = [ppc EXCEPT ![p] = "discard"] /\ UNCHANGED round
       ELSE NextRound(p)
    /\ UNCHANGED <<qvars, closed, pkt, cvars, xpc, nextId, hist, overlapped>>

(* <-pktQue, whatever the packet is.                                       *)
DropDiscard(p) ==
    /\ ppc[p] = "discard"
    /\ packetQueue # <<>> \/ qclosed
    /\ IF packetQueue = <<>>
       THEN UNCHANGED <<packetQueue, dropped>>
       ELSE /\ dropped' = dropped \union {Head(packetQueue)}
            /\ packetQueue' = Tail(packetQueue)
    /\ NextRound(p)
    /\ UNCHANGED <<qclosed, closed, pkt, cvars, xpc, nextId, sent, refused,
                   lost, overlapped>>

-----------------------------------------------------------------------------
(***************************************************************************)
(* SendPacket.                                                             *)
(***************************************************************************)
SendRecv ==
    /\ cpc = "recv"
    /\ packetQueue # <<>>
    /\ cur' = Head(packetQueue)
    /\ packetQueue' = Tail(packetQueue)
    /\ cpc' = "write"
    /\ UNCHANGED <<qclosed, closed, pvars, conn, xpc, nextId, hist, overlapped>>

SendEnd ==
    /\ cpc = "recv"
    /\ packetQueue = <<>>
    /\ qclosed
    /\ cpc' = "done"
    /\ UNCHANGED <<qvars, closed, pvars, cur, conn, xpc, nextId, hist,
                   overlapped>>

(* conn.Write fills a bufio.Writer and Flush, whose error is ignored,      *)
(* empties it: a failure of the socket shows up at the next Write.         *)
SendWriteOk ==
    /\ cpc = "write"
    /\ conn # "broken"
    /\ sent' = Append(sent, cur)
    /\ cur' = NoPkt
    /\ cpc' = "recv"
    /\ conn' \in (IF conn = "open" THEN {"open", "broken"} ELSE {"broken"})
    /\ UNCHANGED <<qvars, closed, pvars, xpc, nextId, dropped, refused,
                   lost, overlapped>>

(* The goroutine ends with closed set and the channel still open.          *)
SendWriteFail ==
    /\ cpc = "write"
    /\ closed' = TRUE
    /\ lost' = lost \union {cur}
    /\ cur' = NoPkt
    /\ cpc' = "done"
    /\ UNCHANGED <<qvars, pvars, conn, xpc, nextId, sent, dropped, refused,
                   overlapped>>

-----------------------------------------------------------------------------
(***************************************************************************)
(* Close: test closed, close the channel, set closed, close the            *)
(* connection.                                                             *)
(***************************************************************************)
InClose == {c \in Closers : xpc[c] \in {"chan", "flag"}}

CloseTestUnguarded(c) ==
    /\ xpc[c] = "new"
    /\ xpc' = [xpc EXCEPT ![c] = "chan"]
    /\ overlapped' = (overlapped \/ InClose # {})
    /\ UNCHANGED <<qvars, closed, pvars, cvars, nextId, hist>>
CloseTest(c) ==
    /\ xpc[c] = "new"
    /\ xpc' = [xpc EXCEPT ![c] = IF closed THEN "flag" ELSE "chan"]
    /\ overlapped' = (overlapped \/ InClose # {})
    /\ UNCHANGED <<qvars, closed, pvars, cvars, nextId, hist>>

CloseChanForgotten(c) ==
    /\ xpc[c] = "chan"
    /\ xpc' = [xpc EXCEPT ![c] = "flag"]
    /\ UNCHANGED <<qvars, closed, pvars, cvars, nextId, hist, overlapped>>
CloseChan(c) ==
    /\ xpc[c] = "chan"
    /\ ~qclosed
    /\ qclosed' = TRUE
    /\ xpc' = [xpc EXCEPT ![c] = "flag"]
    /\ UNCHANGED <<packetQueue, closed, pvars, cvars, nextId, hist, overlapped>>

(* No caller of Close recovers the panic of a second close(packetQueue).   *)
CloseChanPanics(c) ==
    /\ xpc[c] = "chan"
    /\ qclosed
    /\ crashed' = TRUE
    /\ UNCHANGED <<qvars, closed, pvars, cvars, xpc, nextId, hist, overlapped>>

CloseFlag(c) ==
    /\ xpc[c] = "flag"
    /\ closed' = TRUE
    /\ xpc' = [xpc EXCEPT ![c] = "conn"]
    /\ UNCHANGED <<qvars, pvars, cvars, nextId, hist, overlapped>>

CloseConnForgotten(c) ==
    /\ xpc[c] = "conn"
    /\ xpc' = [xpc EXCEPT ![c] = "done"]
    /\ UNCHANGED <<qvars, closed, pvars, cvars, nextId, hist, overlapped>>
CloseConn(c) ==
    /\ xpc[c] = "conn"
    /\ conn' = IF conn = "open" THEN "closed" ELSE conn
    /\ xpc' = [xpc EXCEPT ![c] = "done"]
    /\ UNCHANGED <<qvars, closed, pvars, cpc, cur, nextId, hist, overlapped>>

-----------------------------------------------------------------------------
WriteStep(p) ==
    \/ WriteClosed(p) \/ WriteEnter(p) \/ WriteAccept(p) \/ WriteOverflow(p)
    \/ WriteSend(p) \/ SendPanics(p)

DropStep(p) ==
    \/ DropTakeKeep(p) \/ DropTakeInter(p) \/ DropTakeMeta(p)
    \/ DropTakeNothing(p) \/ DropAudio(p) \/ DropKeep(p) \/ DropTrim(p)
    \/ DropDiscard(p)

SendStep == SendRecv \/ SendEnd \/ SendWriteOk \/ SendWriteFail

CloseStep(c) == 
    CloseTest(c) \/ CloseChan(c) \/ CloseFlag(c) \/ CloseConn(c)

(* Nothing moves once the process has crashed.                             *)
Live == ~crashed /\ UNCHANGED crashed

Next ==
    \/ \E p \in Producers : Live /\ (WriteStep(p) \/ DropStep(p))
    \/ Live /\ SendStep
    \/ \E c \in Closers : Live /\ CloseStep(c)
    \/ \E c \in Closers : ~crashed /\ CloseChanPanics(c)

Spec == Init /\ [][Next]_vars

(***************************************************************************)
(* Fairness.  A goroutine that can run does run.  A producer inside Write  *)
(* goes on, but no one has to call Write again; a call of Close that has   *)
(* begun goes on.  conn.Write may wait for a stalled peer for ever while   *)
(* the socket is open, and returns once it is closed or has failed.        *)
(***************************************************************************)
ProducerProgress(p) == Live /\ ppc[p] # "idle" /\ (WriteStep(p) \/ DropStep(p))
SendProgress ==
    Live /\ (SendRecv \/ SendEnd \/ (conn # "open" /\ (SendWriteOk \/ SendWriteFail)))
CloseProgress(c) ==
    /\ xpc[c] # "new"
    /\ (Live /\ CloseStep(c)) \/ (~crashed /\ CloseChanPanics(c))

FairSpec ==
    /\ Spec
    /\ \A p \in Producers : WF_vars(ProducerProgress(p))
    /\ WF_vars(SendProgress)
    /\ \A c \in Closers : WF_vars(CloseProgress(c))

-----------------------------------------------------------------------------
(***************************************************************************)
(* Properties.                                                             *)
(***************************************************************************)
PPCs == {"idle", "choose", "send", "take", "audio", "keep", "trim", "discard",
         "removed"}

(* The type invariant; a producer carries a packet exactly between Write's *)
(* entry or a receive of DropPacket and the send that puts it back, and    *)
(* its loop counter stays below the bound of DropPacket's for statement.   *)
TypeOK ==
    /\ packetQueue \in Seq(Packets)
    /\ qclosed \in BOOLEAN /\ closed \in BOOLEAN /\ crashed \in BOOLEAN
    /\ overlapped \in BOOLEAN
    /\ conn \in {"open", "closed", "broken"}
    /\ ppc \in [Producers -> PPCs]
    /\ pkt \in [Producers -> Packets \union {NoPkt}]
    /\ \A p \in Producers :
           pkt[p] \in Packets <=> ppc[p] \in {"choose", "send", "audio", "keep"}
    /\ round \in [Producers -> 0 .. Rounds - 1]
    /\ cpc \in {"recv", "write", "done"}
    /\ cur \in Packets \union {NoPkt}
    /\ cur \in Packets <=> cpc = "write"
    /\ xpc \in [Closers -> {"new", "chan", "flag", "conn", "done"}]
    /\ nextId \in 1 .. MaxPackets + 1
    /\ sent \in Seq(Packets)
    /\ dropped \subseteq Packets /\ refused \subseteq Packets
    /\ lost \subseteq Packets

(* Producers that will append to the channel before they next test its     *)
(* length.                                                                 *)
InFlight == {p \in Producers : ppc[p] \in {"send", "audio", "keep"}}

(* The channel can pass the mark at which Write (rtmp.go:304) gives up     *)
(* only by the packets already in flight: the length test and the send are *)
(* two steps, so each concurrent transport may overshoot by one.           *)
QueueBound ==
    Len(packetQueue) + Cardinality(InFlight) <= HighMark - 1 + Cardinality(Producers)

(* A transport never waits in a send for a slow player, as long as no more *)
(* transports write to the player than the slack allows: neither Write's   *)
(* own send nor DropPacket's put-backs can find the channel full.          *)
SendNeverBlocks ==
    Cardinality(Producers) <= WriteSlack + 1 =>
        \A p \in Producers :
            ppc[p] \in {"send", "keep"} => Len(packetQueue) < QueueCap

(* What DropPacket sets out to keep it does keep (rtmp.go:264, 277), with  *)
(* up to WriteSlack - VideoSlack + 1 transports: the discarding receives,  *)
(* which take whatever is at the head, are then out of reach.              *)
EssentialKept ==
    Cardinality(Producers) <= WriteSlack - VideoSlack + 1 =>
        \A x \in dropped : x.kind \notin Essential

(* Every packet offered to Write is at any time in exactly one place: in a *)
(* transport's hands, on the channel, in SendPacket's hands, sent, dropped,*)
(* refused or lost.  DropPacket's rotation neither duplicates nor leaks.   *)
Accounted ==
    \A i \in 1 .. nextId - 1 :
        Cardinality({p \in Producers : pkt[p].id = i})
          + Cardinality({n \in DOMAIN packetQueue : packetQueue[n].id = i})
          + Cardinality({n \in DOMAIN sent : sent[n].id = i})
          + Cardinality({x \in {cur} : x.id = i})
          + Cardinality({x \in dropped : x.id = i})
          + Cardinality({x \in refused : x.id = i})
          + Cardinality({x \in lost : x.id = i}) = 1

(* Once closed is set SendPacket has an end to reach: the channel is       *)
(* closed, or the goroutine is already gone.  Holds across the race of     *)
(* SendPacket's own closed = true (rtmp.go:339) with Close.                *)
SenderNotStranded == closed => qclosed \/ cpc = "done"

(* Calls of Close that do not overlap never close the channel twice: the   *)
(* process-wide panic needs two calls between Close's test of closed and   *)
(* its assignment (rtmp.go:370-373).                                       *)
SerialCloseSafe == ~overlapped => ~crashed

(* After Close (or a failed write) the sending goroutine ends.             *)
SenderEnds == closed ~> (cpc = "done" \/ crashed)

(* Closing the channel releases every transport inside Write, also one     *)
(* that waits in DropPacket's receive for a packet that will never come.   *)
CloseReleasesWriters ==
    \A p \in Producers :
        (qclosed /\ ppc[p] # "idle") ~> (ppc[p] \in {"idle", "removed"} \/ crashed)

=============================================================================
