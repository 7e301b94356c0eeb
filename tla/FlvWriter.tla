------------------------------ MODULE FlvWriter ------------------------------
(***************************************************************************)
(* The player side of an HTTP-FLV request: protocol/httpflv/writer.go and  *)
(* the tail of server.go's handleConn.  A transport calls Write, one       *)
(* goroutine runs SendPacket, the HTTP handler sits in Wait until          *)
(* closedChan is closed, and Close is called by the sweeper and by         *)
(* closeInter.  The flag closed is shared without a lock; an action is one *)
(* access to it, to the packet channel or to the client.                   *)
(*                                                                         *)
(* A packet is its kind: "key" is a key frame or a sequence header, the    *)
(* two that DropPacket treats alike.                                       *)
(***************************************************************************)
EXTENDS Integers, Sequences

CONSTANTS
    Closers,     \* the calls of Close; Sweeper is one of them
    Sweeper,     \* the call made by Stream.CheckAlive
    MaxPackets,  \* bound: packets offered to Write
    QueueCap,    \* maxQueueNum, 1024 in the code
    VideoSlack,  \* 10
    WriteSlack,  \* 24
    DropSlack    \* 84

Kinds == {"audio", "key", "inter", "meta"}

ASSUME FlvAssumption ==
    /\ Sweeper \in Closers
    /\ MaxPackets \in Nat /\ QueueCap \in Nat /\ VideoSlack \in Nat
    /\ WriteSlack \in Nat /\ DropSlack \in Nat
    /\ VideoSlack <= WriteSlack /\ WriteSlack <= DropSlack /\ DropSlack < QueueCap

VARIABLES
    packetQueue,  \* the channel of packets
    qclosed,      \* close(packetQueue) was called
    closedChan,   \* close(closedChan) was called
    closed,       \* the field closed
    offered,      \* how many packets Write was called with
    ppc,          \* where the transport is: outside, in Write, in DropPacket
    pkt,          \* the packet it holds
    round,        \* i of DropPacket's loop
    cpc,          \* where SendPacket is
    gone,         \* the client has left: ctx.Write fails
    xpc,          \* where each call of Close is
    hpc,          \* where the HTTP handler is
    crashed,      \* a channel was closed twice: the panic ends the process
    failedFirst   \* history: SendPacket's error set closed before any Close

chans == <<packetQueue, qclosed, closedChan, closed>>
prod  == <<offered, ppc, pkt, round>>
vars  == <<packetQueue, qclosed, closedChan, closed, offered, ppc, pkt, round,
           cpc, gone, xpc, hpc, crashed, failedFirst>>

Init ==
    /\ packetQueue = <<>>
    /\ qclosed = FALSE /\ closedChan = FALSE /\ closed = FALSE
    /\ offered = 0 /\ ppc = "idle" /\ pkt = "none" /\ round = 0
    /\ cpc = "recv"
    /\ gone = FALSE
    /\ xpc = [c \in Closers |-> "new"]
    /\ hpc = "wait"
    /\ crashed = FALSE
    /\ failedFirst = FALSE

-----------------------------------------------------------------------------
(* Write.  After an error the stream never writes to this player again.    *)
WriteEnter ==
    /\ ppc = "idle"
    /\ IF closed
       THEN ppc' = "removed" /\ UNCHANGED <<offered, pkt>>
       ELSE /\ offered < MaxPackets
            /\ offered' = offered + 1
            /\ pkt' \in Kinds
            /\ ppc' = "choose"
    /\ UNCHANGED <<chans, round, cpc, gone, xpc, hpc, failedFirst>>

(* The overflow branch runs DropPacket and does not send the argument.     *)
WriteChoose ==
    /\ ppc = "choose"
    /\ IF Len(packetQueue) >= QueueCap - WriteSlack
       THEN ppc' = "take" /\ pkt' = "none"
       ELSE ppc' = "send" /\ UNCHANGED pkt
    /\ round' = 0
    /\ UNCHANGED <<chans, offered, cpc, gone, xpc, hpc, failedFirst>>

(* A send on a closed channel panics, and Write recovers.                  *)
SendPanics ==
    /\ ppc \in {"send", "keep"}
    /\ qclosed
    /\ ppc' = "removed" /\ pkt' = "none"
    /\ UNCHANGED <<chans, offered, round, cpc, gone, xpc, hpc, failedFirst>>

WriteSend ==
    /\ ppc = "send"
    /\ ~qclosed
    /\ Len(packetQueue) < QueueCap
    /\ packetQueue' = Append(packetQueue, pkt)
    /\ ppc' = "idle" /\ pkt' = "none"
    /\ UNCHANGED <<qclosed, closedChan, closed, offered, round, cpc, gone, xpc, hpc,
                   failedFirst>>

-----------------------------------------------------------------------------
(* DropPacket: every round receives a packet, and every video packet makes *)
(* it receive once more, twice above the mark.                             *)
NextRound ==
    IF round + 1 < QueueCap - DropSlack
    THEN ppc' = "take" /\ round' = round + 1
    ELSE ppc' = "idle" /\ round' = 0

(* A receive: it waits on an open empty channel, and returns nothing from  *)
(* a closed one.                                                           *)
ReceiveBlocks == packetQueue # <<>> /\ packetQueue' = Tail(packetQueue)
Receive ==
    IF packetQueue # <<>> THEN packetQueue' = Tail(packetQueue)
    ELSE qclosed /\ UNCHANGED packetQueue

DropTake ==
    /\ ppc = "take"
    /\ Receive
    /\ LET k == IF packetQueue = <<>> THEN "none" ELSE Head(packetQueue) IN
       CASE k \in {"audio", "key"} -> ppc' = "keep" /\ pkt' = k /\ UNCHANGED round
         [] k = "inter"            -> ppc' = "trim" /\ UNCHANGED <<pkt, round>>
         [] k \in {"meta", "none"} -> NextRound /\ UNCHANGED pkt
    /\ UNCHANGED <<qclosed, closedChan, closed, offered, cpc, gone, xpc, hpc,
                   failedFirst>>

DropKeep ==
    /\ ppc = "keep"
    /\ ~qclosed
    /\ Len(packetQueue) < QueueCap
    /\ packetQueue' = Append(packetQueue, pkt)
    /\ pkt' = "none"
    /\ IF pkt = "audio" THEN NextRound ELSE ppc' = "trim" /\ UNCHANGED round
    /\ UNCHANGED <<qclosed, closedChan, closed, offered, cpc, gone, xpc, hpc,
                   failedFirst>>

DropTrim ==
    /\ ppc = "trim"
    /\ IF Len(packetQueue) > QueueCap - VideoSlack THEN Receive ELSE UNCHANGED packetQueue
    /\ ppc' = "extra"
    /\ UNCHANGED <<qclosed, closedChan, closed, offered, pkt, round, cpc, gone, xpc,
                   hpc, failedFirst>>

DropExtra ==
    /\ ppc = "extra"
    /\ Receive
    /\ NextRound
    /\ UNCHANGED <<qclosed, closedChan, closed, offered, pkt, cpc, gone, xpc, hpc,
                   failedFirst>>

-----------------------------------------------------------------------------
(* SendPacket, and what the goroutine around it does with its error.       *)
SendRecv ==
    /\ cpc = "recv"
    /\ packetQueue # <<>>
    /\ packetQueue' = Tail(packetQueue)
    /\ cpc' = IF Head(packetQueue) = "meta" THEN "reform" ELSE "write"
    /\ UNCHANGED <<qclosed, closedChan, closed, prod, gone, xpc, hpc, failedFirst>>

(* MetaDataReform; it fails on metadata it cannot decode.                  *)
SendReform ==
    /\ cpc = "reform"
    /\ cpc' = "write"
    /\ UNCHANGED <<chans, prod, gone, xpc, hpc, failedFirst>>

SendOk ==
    /\ cpc = "write"
    /\ cpc' = "recv"
    /\ UNCHANGED <<chans, prod, gone, xpc, hpc, failedFirst>>

(* The channel is closed, the metadata is bad, or ctx.Write fails: closed  *)
(* is set, closedChan stays as it is.                                      *)
SendError ==
    /\ \/ cpc = "recv" /\ packetQueue = <<>> /\ qclosed
       \/ cpc = "reform"
       \/ cpc = "write" /\ gone
    /\ closed' = TRUE
    /\ failedFirst' = (failedFirst \/ (~closed /\ ~qclosed))
    /\ cpc' = "done"
    /\ UNCHANGED <<packetQueue, qclosed, closedChan, prod, gone, xpc, hpc>>

ClientLeaves ==
    /\ ~gone
    /\ gone' = TRUE
    /\ UNCHANGED <<chans, prod, cpc, xpc, hpc, failedFirst>>

(* Wait.                                                                   *)
Wait ==
    /\ hpc = "wait"
    /\ closedChan
    /\ hpc' = "returned"
    /\ UNCHANGED <<chans, prod, cpc, gone, xpc, failedFirst>>

-----------------------------------------------------------------------------
(* Close.                                                                  *)
CloseTest(c) ==
    /\ xpc[c] = "new"
    /\ xpc' = [xpc EXCEPT ![c] = IF closed THEN "flag" ELSE "queue"]
    /\ UNCHANGED <<chans, prod, cpc, gone, hpc, crashed, failedFirst>>

CloseQueue(c) ==
    /\ xpc[c] = "queue"
    /\ qclosed' = TRUE
    /\ crashed' = qclosed
    /\ xpc' = [xpc EXCEPT ![c] = "chan"]
    /\ UNCHANGED <<packetQueue, closedChan, closed, prod, cpc, gone, hpc, failedFirst>>

CloseChanForgotten(c) ==
    /\ xpc[c] = "chan"
    /\ xpc' = [xpc EXCEPT ![c] = "flag"]
    /\ UNCHANGED <<chans, prod, cpc, gone, hpc, crashed, failedFirst>>
CloseChan(c) ==
    /\ xpc[c] = "chan"
    /\ closedChan' = TRUE
    /\ xpc' = [xpc EXCEPT ![c] = "flag"]
    /\ UNCHANGED <<packetQueue, qclosed, closed, prod, cpc, gone, hpc, crashed,
                   failedFirst>>

CloseFlag(c) ==
    /\ xpc[c] = "flag"
    /\ closed' = TRUE
    /\ xpc' = [xpc EXCEPT ![c] = "done"]
    /\ UNCHANGED <<packetQueue, qclosed, closedChan, prod, cpc, gone, hpc, crashed,
                   failedFirst>>

-----------------------------------------------------------------------------
WriteStep == WriteEnter \/ WriteChoose \/ SendPanics \/ WriteSend
DropStep  == DropTake \/ DropKeep \/ DropTrim \/ DropExtra
SendStep  == SendRecv \/ SendReform \/ SendOk \/ SendError
CloseStep(c) == CloseTest(c) \/ CloseQueue(c) \/ CloseChan(c) \/ CloseFlag(c)

(* Nothing moves once the process has crashed.                             *)
Live == ~crashed /\ UNCHANGED crashed

Next ==
    \/ Live /\ (WriteStep \/ DropStep \/ SendStep \/ ClientLeaves \/ Wait)
    \/ ~crashed /\ \E c \in Closers : CloseStep(c)

Spec == Init /\ [][Next]_vars

(* The sender has been silent for ten seconds: it waits for a packet, or   *)
(* in ctx.Write, or is gone.  The sweeper then closes the player, once.    *)
Silent == cpc # "recv" \/ packetQueue = <<>>

(***************************************************************************)
(* Fairness: a goroutine that can run does run; the sweeper finds a player *)
(* that stays silent.  Nobody has to call Write, to leave, or to read from *)
(* the socket: the code sets no write deadline.                            *)
(***************************************************************************)
FairSpec ==
    /\ Spec
    /\ WF_vars(Live /\ ppc # "idle" /\ (WriteStep \/ DropStep))
    /\ WF_vars(Live /\ (SendRecv \/ SendReform \/ SendError))
    /\ WF_vars(Live /\ Wait)
    /\ WF_vars(~crashed /\ Silent /\ CloseTest(Sweeper))
    /\ \A c \in Closers : WF_vars(~crashed /\ xpc[c] # "new" /\ CloseStep(c))

-----------------------------------------------------------------------------
(* The type invariant; the transport holds a packet exactly where it has   *)
(* one to send.                                                            *)
TypeOK ==
    /\ packetQueue \in Seq(Kinds) /\ Len(packetQueue) <= QueueCap
    /\ {qclosed, closedChan, closed, gone, crashed, failedFirst} \subseteq BOOLEAN
    /\ offered \in 0 .. MaxPackets
    /\ ppc \in {"idle", "choose", "send", "take", "keep", "trim", "extra", "removed"}
    /\ pkt \in Kinds \union {"none"}
    /\ pkt \in Kinds <=> ppc \in {"choose", "send", "keep"}
    /\ round \in 0 .. QueueCap - DropSlack - 1
    /\ cpc \in {"recv", "reform", "write", "done"}
    /\ xpc \in [Closers -> {"new", "queue", "chan", "flag", "done"}]
    /\ hpc \in {"wait", "returned"}

(* The transport that writes to a player comes back from Write.  By itself *)
(* DropPacket would not: its receives (writer.go:66, 76, 79) can outnumber *)
(* the packets, and wait on a channel that only this transport fills until *)
(* the sweeper closes it.  If SendPacket has failed first (writer.go:56)   *)
(* Close no longer does, and the transport, with all its players, stays.   *)
(* (With the type invariant.)                                              *)
TransportResumes ==
    /\ []TypeOK
    /\ (ppc # "idle") ~> (ppc \in {"idle", "removed"} \/ failedFirst \/ crashed)

(* The HTTP handler returns once the writer is closed, unless SendPacket   *)
(* failed before Close was called (writer.go:56): then closed is set,      *)
(* Close skips closedChan, and nothing ever releases the handler.          *)
HandlerReturns == (closed /\ ~failedFirst) ~> (hpc = "returned" \/ failedFirst \/ crashed)

=============================================================================
