-------------------------- MODULE VirWriterProofs --------------------------
(***************************************************************************)
(* Theorems about VirWriter, for every number of transports and closers    *)
(* and every choice of the queue's capacity and slacks.                    *)
(***************************************************************************)
EXTENDS VirWriter, FiniteSetTheorems, TLAPS

USE DEF qvars, pvars, cvars, hist

(* The capacity leaves room above the mark and DropPacket has a round to   *)
(* run.                                                                    *)
LEMMA Marks == /\ HighMark \in Nat \ {0} /\ Rounds \in Nat \ {0}
               /\ HighMark = QueueCap - WriteSlack
               /\ Rounds <= HighMark
  BY SlackAssumption DEF HighMark, Rounds

(* The placeholder of an empty hand is not a packet.                       *)
LEMMA NoPktIsNone == NoPkt \notin Packets
  BY SlackAssumption DEF NoPkt, Packets

(* A step of DropPacket's loop leaves the counter within its bound.        *)
LEMMA NextRoundType ==
  ASSUME TypeOK, NEW p \in Producers, NextRound(p)
  PROVE  /\ round' \in [Producers -> 0 .. Rounds - 1]
         /\ \/ ppc' = [ppc EXCEPT ![p] = "take"]
            \/ ppc' = [ppc EXCEPT ![p] = "idle"]
  BY Marks DEF TypeOK, NextRound

(* Receiving from a channel that is not empty.                             *)
LEMMA Receive ==
  ASSUME TypeOK, packetQueue # <<>>
  PROVE  /\ Head(packetQueue) \in Packets
         /\ Tail(packetQueue) \in Seq(Packets)
         /\ Len(packetQueue) \in Nat \ {0}
         /\ Len(Tail(packetQueue)) = Len(packetQueue) - 1
  BY DEF TypeOK

(* TypeOK is preserved by every step.                                      *)
LEMMA TypeStep == TypeOK /\ [Next]_vars => TypeOK'
  <1> SUFFICES ASSUME TypeOK, [Next]_vars PROVE TypeOK'
    OBVIOUS
  <1> USE DEF TypeOK, PPCs
  <1>1. ASSUME Live, NEW p \in Producers, WriteStep(p) \/ DropStep(p)
        PROVE  TypeOK'
    <2>1. CASE WriteClosed(p)
      BY <1>1, <2>1, NoPktIsNone DEF WriteClosed, Live
    <2>2. CASE WriteEnter(p)
      BY <1>1, <2>2, NoPktIsNone, Marks, SlackAssumption
      DEF WriteEnter, Live, Packets
    <2>3. CASE WriteAccept(p)
      BY <1>1, <2>3, NoPktIsNone DEF WriteAccept, Live
    <2>4. CASE WriteOverflow(p)
      BY <1>1, <2>4, NoPktIsNone, Marks, SlackAssumption DEF WriteOverflow, Live
    <2>5. CASE WriteSend(p)
      BY <1>1, <2>5, NoPktIsNone DEF WriteSend, Live
    <2>6. CASE SendPanics(p)
      BY <1>1, <2>6, NoPktIsNone DEF SendPanics, Live
    <2>7. CASE DropTakeKeep(p)
      BY <1>1, <2>7, NoPktIsNone, Receive DEF DropTakeKeep, Live
    <2>8. CASE DropTakeInter(p)
      BY <1>1, <2>8, NoPktIsNone, Receive DEF DropTakeInter, Live
    <2>9. CASE DropTakeMeta(p)
      <3>1. NextRound(p) /\ pkt' = pkt /\ ppc[p] = "take"
        BY <2>9 DEF DropTakeMeta
      <3>2. /\ round' \in [Producers -> 0 .. Rounds - 1]
            /\ \/ ppc' = [ppc EXCEPT ![p] = "take"]
               \/ ppc' = [ppc EXCEPT ![p] = "idle"]
        BY <3>1, NextRoundType
      <3>3. packetQueue' \in Seq(Packets) /\ dropped' \subseteq Packets
        BY <2>9, Receive DEF DropTakeMeta
      <3>4. UNCHANGED <<qclosed, closed, cvars, xpc, nextId, sent, refused, lost,
                        overlapped, crashed>>
        BY <1>1, <2>9 DEF DropTakeMeta, Live
      <3> QED
        BY <3>1, <3>2, <3>3, <3>4, NoPktIsNone DEF cvars
    <2>10. CASE DropTakeNothing(p)
      BY <1>1, <2>10, NextRoundType, NoPktIsNone DEF DropTakeNothing, Live
    <2>11. CASE DropAudio(p)
      <3>1. pkt[p] \in Packets
        BY <2>11 DEF DropAudio
      <3>2. CASE Len(packetQueue) > QueueCap - AudioSlack
        BY <1>1, <2>11, <3>1, <3>2, NoPktIsNone DEF DropAudio, Live
      <3>3. CASE ~(Len(packetQueue) > QueueCap - AudioSlack)
        BY <1>1, <2>11, <3>3, NoPktIsNone DEF DropAudio, Live
      <3> QED
        BY <3>2, <3>3
    <2>12. CASE DropKeep(p)
      <3>1. packetQueue' \in Seq(Packets)
        BY <2>12 DEF DropKeep
      <3>2. CASE pkt[p].kind = "audio"
        <4>1. NextRound(p)
          BY <2>12, <3>2 DEF DropKeep
        <4>2. /\ round' \in [Producers -> 0 .. Rounds - 1]
              /\ \/ ppc' = [ppc EXCEPT ![p] = "take"]
                 \/ ppc' = [ppc EXCEPT ![p] = "idle"]
          BY <4>1, NextRoundType
        <4>3. pkt' = [pkt EXCEPT ![p] = NoPkt]
          BY <2>12 DEF DropKeep
        <4>4. UNCHANGED <<qclosed, closed, cvars, xpc, nextId, hist, overlapped,
                          crashed>>
          BY <1>1, <2>12 DEF DropKeep, Live
        <4> QED
          BY <3>1, <4>2, <4>3, <4>4, NoPktIsNone
      <3>3. CASE pkt[p].kind # "audio"
        BY <1>1, <2>12, <3>1, <3>3, NoPktIsNone DEF DropKeep, Live
      <3> QED
        BY <3>2, <3>3
    <2>13. CASE DropTrim(p)
      BY <1>1, <2>13, NextRoundType, NoPktIsNone DEF DropTrim, Live
    <2>14. CASE DropDiscard(p)
      <3>1. NextRound(p) /\ pkt' = pkt /\ ppc[p] = "discard"
        BY <2>14 DEF DropDiscard
      <3>2. /\ round' \in [Producers -> 0 .. Rounds - 1]
            /\ \/ ppc' = [ppc EXCEPT ![p] = "take"]
               \/ ppc' = [ppc EXCEPT ![p] = "idle"]
        BY <3>1, NextRoundType
      <3>3. packetQueue' \in Seq(Packets) /\ dropped' \subseteq Packets
        BY <2>14, Receive DEF DropDiscard
      <3>4. UNCHANGED <<qclosed, closed, cvars, xpc, nextId, sent, refused, lost,
                        overlapped, crashed>>
        BY <1>1, <2>14 DEF DropDiscard, Live
      <3> QED
        BY <3>1, <3>2, <3>3, <3>4, NoPktIsNone DEF cvars
    <2> QED
      BY <1>1, <2>1, <2>2, <2>3, <2>4, <2>5, <2>6, <2>7, <2>8, <2>9, <2>10, <2>11,
         <2>12, <2>13, <2>14
      DEF WriteStep, DropStep
  <1>2. ASSUME Live, SendStep PROVE TypeOK'
    <2>1. CASE SendRecv
      BY <1>2, <2>1, NoPktIsNone DEF SendRecv, Live
    <2>2. CASE SendEnd
      BY <1>2, <2>2, NoPktIsNone DEF SendEnd, Live
    <2>3. CASE SendWriteOk
      BY <1>2, <2>3, NoPktIsNone DEF SendWriteOk, Live
    <2>4. CASE SendWriteFail
      BY <1>2, <2>4, NoPktIsNone DEF SendWriteFail, Live
    <2> QED
      BY <1>2, <2>1, <2>2, <2>3, <2>4 DEF SendStep
  <1>3. ASSUME Live, NEW c \in Closers, CloseStep(c) PROVE TypeOK'
    BY <1>3 DEF CloseStep, CloseTest, CloseChan, CloseFlag, CloseConn, Live
  <1>4. ASSUME NEW c \in Closers, CloseChanPanics(c) PROVE TypeOK'
    BY <1>4 DEF CloseChanPanics
  <1>5. CASE UNCHANGED vars
    BY <1>5 DEF vars
  <1> QED
    BY <1>1, <1>2, <1>3, <1>4, <1>5 DEF Next

(* Type correctness, with the discipline of who holds a packet when.       *)
THEOREM TypeCorrect == Spec => []TypeOK
  <1>1. Init => TypeOK
    <2> SUFFICES ASSUME Init PROVE TypeOK
      OBVIOUS
    <2>1. 0 \in 0 .. Rounds - 1 /\ 1 \in 1 .. MaxPackets + 1
      BY Marks, SlackAssumption
    <2>2. <<>> \in Seq(Packets)
      OBVIOUS
    <2> QED
      BY <2>1, <2>2, NoPktIsNone DEF Init, TypeOK, PPCs
  <1> QED
    BY <1>1, TypeStep, PTL DEF Spec

-----------------------------------------------------------------------------
(* Counting the producers in flight.                                       *)
LEMMA FlightCount ==
  /\ IsFiniteSet(InFlight)
  /\ Cardinality(InFlight) \in Nat
  /\ Cardinality(Producers) \in Nat
  /\ Cardinality(InFlight) <= Cardinality(Producers)
  <1>1. InFlight \in SUBSET Producers
    BY DEF InFlight
  <1>2. IsFiniteSet(InFlight)
    BY <1>1, ProducersFinite, FS_Subset
  <1> QED
    BY <1>1, <1>2, ProducersFinite, FS_Subset, FS_CardinalityType

(* The same in the next state.                                             *)
LEMMA FlightCountNext ==
  /\ IsFiniteSet(InFlight')
  /\ Cardinality(InFlight') \in Nat
  /\ Cardinality(InFlight') <= Cardinality(Producers)
  <1>1. InFlight' \in SUBSET Producers
    BY DEF InFlight
  <1>2. IsFiniteSet(InFlight')
    BY <1>1, ProducersFinite, FS_Subset
  <1> QED
    BY <1>1, <1>2, ProducersFinite, FS_Subset, FS_CardinalityType

(* The ways a step may move the channel's length and the producers in      *)
(* flight without exceeding the bound.                                     *)
LEMMA BoundKept ==
  ASSUME TypeOK, TypeOK', QueueBound, NEW p,
         \/ Len(packetQueue') <= Len(packetQueue) /\ InFlight' \subseteq InFlight
         \/ Len(packetQueue') <= HighMark - 1
         \/ /\ Len(packetQueue') = Len(packetQueue) - 1
            /\ InFlight' = InFlight \union {p}
         \/ /\ Len(packetQueue') = Len(packetQueue) + 1
            /\ p \in InFlight
            /\ InFlight' = InFlight \ {p}
  PROVE  QueueBound'
  <1>1. Len(packetQueue) \in Nat /\ Len(packetQueue') \in Nat
    BY DEF TypeOK
  <1>2. Cardinality(Producers)' = Cardinality(Producers)
    OBVIOUS
  <1>3. CASE Len(packetQueue') <= Len(packetQueue) /\ InFlight' \subseteq InFlight
    <2>1. Cardinality(InFlight') <= Cardinality(InFlight)
      BY <1>3, FlightCount, FS_Subset
    <2> QED
      BY <1>1, <1>3, <2>1, FlightCount, FlightCountNext, Marks DEF QueueBound
  <1>4. CASE Len(packetQueue') <= HighMark - 1
    BY <1>1, <1>4, FlightCount, FlightCountNext, Marks DEF QueueBound
  <1>5. CASE /\ Len(packetQueue') = Len(packetQueue) - 1
             /\ InFlight' = InFlight \union {p}
    <2>0. Cardinality(InFlight \union {p}) =
             IF p \in InFlight THEN Cardinality(InFlight) ELSE Cardinality(InFlight) + 1
      BY FlightCount, FS_AddElement
    <2>1. Cardinality(InFlight') <= Cardinality(InFlight) + 1
      BY <1>5, <2>0, FlightCount
    <2> QED
      BY <1>1, <1>5, <2>1, FlightCount, FlightCountNext, Marks DEF QueueBound
  <1>6. CASE /\ Len(packetQueue') = Len(packetQueue) + 1
             /\ p \in InFlight
             /\ InFlight' = InFlight \ {p}
    <2>1. Cardinality(InFlight') = Cardinality(InFlight) - 1
      BY <1>6, FlightCount, FS_RemoveElement
    <2> QED
      BY <1>1, <1>6, <2>1, FlightCount, FlightCountNext, Marks DEF QueueBound
  <1> QED
    BY <1>3, <1>4, <1>5, <1>6

(* QueueBound is preserved by every step.                                  *)
LEMMA BoundStep == TypeOK /\ QueueBound /\ [Next]_vars => QueueBound'
  <1> SUFFICES ASSUME TypeOK, QueueBound, [Next]_vars PROVE QueueBound'
    OBVIOUS
  <1>0. TypeOK'
    BY TypeStep
  <1>1. ASSUME Live, NEW p \in Producers, WriteStep(p) \/ DropStep(p)
        PROVE  QueueBound'
    <2> SUFFICES \/ /\ Len(packetQueue') <= Len(packetQueue)
                    /\ InFlight' \subseteq InFlight
                 \/ Len(packetQueue') <= HighMark - 1
                 \/ /\ Len(packetQueue') = Len(packetQueue) - 1
                    /\ InFlight' = InFlight \union {p}
                 \/ /\ Len(packetQueue') = Len(packetQueue) + 1
                    /\ p \in InFlight
                    /\ InFlight' = InFlight \ {p}
      BY <1>0, BoundKept
    <2>0. Len(packetQueue) \in Nat
      BY DEF TypeOK
    <2>1. CASE WriteClosed(p) \/ WriteEnter(p) \/ WriteOverflow(p) \/ SendPanics(p)
      BY <2>0, <2>1
      DEF WriteClosed, WriteEnter, WriteOverflow, SendPanics, InFlight, TypeOK
    <2>2. CASE WriteAccept(p)
      BY <2>0, <2>2, Marks DEF WriteAccept, NearlyFull
    <2>3. CASE WriteSend(p)
      BY <2>0, <2>3 DEF WriteSend, InFlight, TypeOK
    <2>4. CASE DropTakeKeep(p)
      BY <2>0, <2>4, Receive DEF DropTakeKeep, InFlight, TypeOK
    <2>5. CASE DropTakeInter(p) \/ DropTakeMeta(p)
      BY <2>0, <2>5, Receive, NextRoundType
      DEF DropTakeInter, DropTakeMeta, InFlight, TypeOK
    <2>6. CASE DropTakeNothing(p) \/ DropTrim(p)
      BY <2>0, <2>6, NextRoundType DEF DropTakeNothing, DropTrim, InFlight, TypeOK
    <2>7. CASE DropAudio(p)
      BY <2>0, <2>7 DEF DropAudio, InFlight, TypeOK
    <2>8. CASE DropKeep(p)
      <3>1. Len(packetQueue') = Len(packetQueue) + 1
        BY <2>8 DEF DropKeep, TypeOK
      <3>2. \/ ppc' = [ppc EXCEPT ![p] = "take"]
            \/ ppc' = [ppc EXCEPT ![p] = "idle"]
            \/ ppc' = [ppc EXCEPT ![p] = "trim"]
        BY <2>8, NextRoundType DEF DropKeep
      <3>3. ppc[p] = "keep" /\ ppc \in [Producers -> PPCs]
        BY <2>8 DEF DropKeep, TypeOK
      <3> QED
        BY <3>1, <3>2, <3>3 DEF InFlight
    <2>9. CASE DropDiscard(p)
      <3>1. Len(packetQueue') <= Len(packetQueue)
        BY <2>0, <2>9, Receive DEF DropDiscard
      <3>2. InFlight' \subseteq InFlight
        BY <2>9, NextRoundType DEF DropDiscard, InFlight, TypeOK
      <3> QED
        BY <3>1, <3>2
    <2> QED
      BY <1>1, <2>1, <2>2, <2>3, <2>4, <2>5, <2>6, <2>7, <2>8, <2>9
      DEF WriteStep, DropStep
  <1>2. ASSUME SendStep PROVE QueueBound'
    <2>1. Len(packetQueue) \in Nat
      BY DEF TypeOK
    <2>2. Len(packetQueue') <= Len(packetQueue)
      BY <1>2, <2>1, Receive
      DEF SendStep, SendRecv, SendEnd, SendWriteOk, SendWriteFail
    <2>3. InFlight' = InFlight
      BY <1>2 DEF SendStep, SendRecv, SendEnd, SendWriteOk, SendWriteFail, InFlight
    <2> QED
      BY <1>0, <2>2, <2>3, BoundKept
  <1>3. ASSUME NEW c \in Closers, CloseStep(c) \/ CloseChanPanics(c)
        PROVE  QueueBound'
    BY <1>3 DEF CloseStep, CloseTest, CloseChan, CloseFlag, CloseConn,
                CloseChanPanics, QueueBound, InFlight
  <1>4. CASE UNCHANGED vars
    BY <1>4 DEF vars, QueueBound, InFlight
  <1> QED
    BY <1>1, <1>2, <1>3, <1>4 DEF Next

(* However many transports write to a player, its channel exceeds the mark *)
(* of Write's test by less than one packet per transport.                  *)
THEOREM QueueBounded == Spec => []QueueBound
  <1>1. Init => QueueBound
    <2> SUFFICES ASSUME Init PROVE QueueBound
      OBVIOUS
    <2>1. Len(packetQueue) = 0
      BY DEF Init
    <2>2. InFlight = {}
      BY DEF Init, InFlight
    <2> QED
      BY <2>1, <2>2, FS_EmptySet, FlightCount, Marks DEF QueueBound
  <1> QED
    BY <1>1, BoundStep, TypeCorrect, PTL DEF Spec

(* No transport ever waits for room on the channel of a slow player.       *)
THEOREM SendsNeverBlock == Spec => []SendNeverBlocks
  <1>1. TypeOK /\ QueueBound => SendNeverBlocks
    <2> SUFFICES ASSUME TypeOK, QueueBound,
                        Cardinality(Producers) <= WriteSlack + 1,
                        NEW p \in Producers, ppc[p] \in {"send", "keep"}
                 PROVE  Len(packetQueue) < QueueCap
      BY DEF SendNeverBlocks
    <2>1. p \in InFlight
      BY DEF InFlight
    <2>2. Cardinality(InFlight) >= 1
      BY <2>1, FlightCount, FS_EmptySet
    <2>3. Len(packetQueue) \in Nat
      BY DEF TypeOK
    <2> QED
      BY <2>2, <2>3, FlightCount, Marks, SlackAssumption DEF QueueBound
  <1> QED
    BY <1>1, TypeCorrect, QueueBounded, PTL

-----------------------------------------------------------------------------
(* With few transports no producer reaches a discarding receive.  The      *)
(* second conjunct makes EssentialKept inductive.                          *)
KeptInv ==
    Cardinality(Producers) <= WriteSlack - VideoSlack + 1 =>
        /\ \A x \in dropped : x.kind \notin Essential
        /\ \A p \in Producers : ppc[p] # "discard"

(* KeptInv is preserved by every step.                                     *)
LEMMA KeptStep == TypeOK /\ QueueBound /\ KeptInv /\ [Next]_vars => KeptInv'
  <1> SUFFICES ASSUME TypeOK, QueueBound, KeptInv, [Next]_vars,
                      Cardinality(Producers) <= WriteSlack - VideoSlack + 1
               PROVE  /\ \A x \in dropped' : x.kind \notin Essential
                      /\ \A q \in Producers : ppc'[q] # "discard"
    BY DEF KeptInv
  <1>0. /\ \A x \in dropped : x.kind \notin Essential
        /\ \A q \in Producers : ppc[q] # "discard"
    BY DEF KeptInv
  <1>1. Len(packetQueue) \in Nat /\ Len(packetQueue) <= QueueCap - VideoSlack
    <2>1. Len(packetQueue) \in Nat
      BY DEF TypeOK
    <2> QED
      BY <2>1, FlightCount, Marks, SlackAssumption DEF QueueBound
  <1>2. ASSUME Live, NEW p \in Producers, WriteStep(p) \/ DropStep(p)
        PROVE  /\ \A x \in dropped' : x.kind \notin Essential
               /\ \A q \in Producers : ppc'[q] # "discard"
    <2>1. CASE WriteStep(p)
      BY <1>0, <2>1
      DEF WriteStep, WriteClosed, WriteEnter, WriteAccept, WriteOverflow,
          WriteSend, SendPanics, TypeOK
    <2>2. CASE DropTakeKeep(p)
      BY <1>0, <2>2 DEF DropTakeKeep, TypeOK
    <2>3. CASE DropTakeInter(p)
      BY <1>0, <2>3 DEF DropTakeInter, TypeOK, Essential
    <2>4. CASE DropTakeMeta(p)
      BY <1>0, <2>4, NextRoundType DEF DropTakeMeta, TypeOK, Essential
    <2>5. CASE DropTakeNothing(p)
      BY <1>0, <2>5, NextRoundType DEF DropTakeNothing, TypeOK
    <2>6. CASE DropAudio(p)
      <3>1. ~(Len(packetQueue) > QueueCap - AudioSlack)
        <4>1. p \in InFlight
          BY <2>6 DEF DropAudio, InFlight
        <4>2. Cardinality(InFlight) >= 1
          BY <4>1, FlightCount, FS_EmptySet
        <4> QED
          BY <1>1, <4>2, FlightCount, Marks, SlackAssumption DEF QueueBound
      <3> QED
        BY <1>0, <2>6, <3>1 DEF DropAudio, TypeOK
    <2>7. CASE DropKeep(p)
      <3>1. \/ ppc' = [ppc EXCEPT ![p] = "take"]
            \/ ppc' = [ppc EXCEPT ![p] = "idle"]
            \/ ppc' = [ppc EXCEPT ![p] = "trim"]
        BY <2>7, NextRoundType DEF DropKeep
      <3>2. dropped' = dropped
        BY <2>7 DEF DropKeep
      <3> QED
        BY <1>0, <3>1, <3>2 DEF TypeOK
    <2>8. CASE DropTrim(p)
      <3>1. ~OverVideoMark
        BY <1>1, SlackAssumption DEF OverVideoMark
      <3> QED
        BY <1>0, <2>8, <3>1, NextRoundType DEF DropTrim, TypeOK
    <2>9. CASE DropDiscard(p)
      BY <1>0, <2>9 DEF DropDiscard
    <2> QED
      BY <1>2, <2>1, <2>2, <2>3, <2>4, <2>5, <2>6, <2>7, <2>8, <2>9 DEF DropStep
  <1>3. ASSUME SendStep
        PROVE  /\ \A x \in dropped' : x.kind \notin Essential
               /\ \A q \in Producers : ppc'[q] # "discard"
    BY <1>0, <1>3 DEF SendStep, SendRecv, SendEnd, SendWriteOk, SendWriteFail
  <1>4. ASSUME NEW c \in Closers, CloseStep(c) \/ CloseChanPanics(c)
        PROVE  /\ \A x \in dropped' : x.kind \notin Essential
               /\ \A q \in Producers : ppc'[q] # "discard"
    BY <1>0, <1>4 DEF CloseStep, CloseTest, CloseChan, CloseFlag, CloseConn,
                      CloseChanPanics
  <1>5. CASE UNCHANGED vars
    BY <1>0, <1>5 DEF vars
  <1> QED
    BY <1>2, <1>3, <1>4, <1>5 DEF Next

(* DropPacket never drops audio, a sequence header or a key frame, with up *)
(* to 15 transports and the code's constants (24 - 10 + 1).                *)
THEOREM EssentialsKept == Spec => []EssentialKept
  <1>1. Init => KeptInv
    BY DEF Init, KeptInv
  <1>2. KeptInv => EssentialKept
    BY DEF KeptInv, EssentialKept
  <1> QED
    BY <1>1, <1>2, KeptStep, TypeCorrect, QueueBounded, PTL DEF Spec

-----------------------------------------------------------------------------
(* A call of Close about to set closed has seen the sender's way out.      *)
SenderInv ==
    closed \/ (\E c \in Closers : xpc[c] = "flag") => qclosed \/ cpc = "done"

(* SendPacket is never left waiting on an open channel once closed is set. *)
THEOREM SenderHasWayOut == Spec => []SenderNotStranded
  <1>1. Init => SenderInv
    BY DEF Init, SenderInv
  <1>2. TypeOK /\ SenderInv /\ [Next]_vars => SenderInv'
    <2> SUFFICES ASSUME TypeOK, SenderInv, [Next]_vars PROVE SenderInv'
      OBVIOUS
    <2>1. ASSUME NEW p \in Producers, WriteStep(p) \/ DropStep(p)
          PROVE  UNCHANGED <<closed, xpc, qclosed, cpc>>
      BY <2>1
      DEF WriteStep, DropStep, WriteClosed, WriteEnter, WriteAccept,
          WriteOverflow, WriteSend, SendPanics, DropTakeKeep, DropTakeInter,
          DropTakeMeta, DropTakeNothing, DropAudio, DropKeep, DropTrim, DropDiscard
    <2>2. CASE SendStep
      BY <2>2 DEF SendStep, SendRecv, SendEnd, SendWriteOk, SendWriteFail, SenderInv
    <2>3. ASSUME NEW c \in Closers, CloseStep(c) \/ CloseChanPanics(c)
          PROVE  SenderInv'
      BY <2>3 DEF CloseStep, CloseTest, CloseChan, CloseFlag, CloseConn,
                  CloseChanPanics, SenderInv, TypeOK
    <2>4. CASE UNCHANGED vars
      BY <2>4 DEF vars, SenderInv
    <2> QED
      BY <2>1, <2>2, <2>3, <2>4 DEF Next, SenderInv
  <1>3. SenderInv => SenderNotStranded
    BY DEF SenderInv, SenderNotStranded
  <1> QED
    BY <1>1, <1>2, <1>3, TypeCorrect, PTL DEF Spec

(* While calls of Close do not overlap, at most one is between its test    *)
(* and its assignment, and the channel is closed by the one that has       *)
(* passed the test or by none.                                             *)
SerialInv ==
    ~overlapped =>
        /\ ~crashed
        /\ \A c, d \in InClose : c = d
        /\ \A c \in Closers : xpc[c] = "chan" => ~qclosed
        /\ qclosed => closed \/ \E c \in Closers : xpc[c] = "flag"

(* Calls of Close one after the other never panic.                         *)
THEOREM SerialClosesSafe == Spec => []SerialCloseSafe
  <1>1. Init => SerialInv
    BY DEF Init, SerialInv, InClose
  <1>2. TypeOK /\ SerialInv /\ [Next]_vars => SerialInv'
    <2> SUFFICES ASSUME TypeOK, SerialInv, [Next]_vars PROVE SerialInv'
      OBVIOUS
    <2>1. ASSUME Live, NEW p \in Producers, WriteStep(p) \/ DropStep(p)
          PROVE  SerialInv'
      <3>1. UNCHANGED <<closed, xpc, qclosed, overlapped, crashed>>
        BY <2>1
        DEF WriteStep, DropStep, WriteClosed, WriteEnter, WriteAccept,
            WriteOverflow, WriteSend, SendPanics, DropTakeKeep, DropTakeInter,
            DropTakeMeta, DropTakeNothing, DropAudio, DropKeep, DropTrim,
            DropDiscard, Live
      <3> QED
        BY <3>1 DEF SerialInv, InClose
    <2>2. ASSUME Live, SendStep PROVE SerialInv'
      BY <2>2 DEF SendStep, SendRecv, SendEnd, SendWriteOk, SendWriteFail,
                  SerialInv, InClose, Live
    <2>3. ASSUME Live, NEW c \in Closers, CloseStep(c) PROVE SerialInv'
      <3>1. CASE CloseTest(c)
        BY <2>3, <3>1 DEF CloseTest, SerialInv, InClose, Live, TypeOK
      <3>2. CASE CloseChan(c)
        BY <2>3, <3>2 DEF CloseChan, SerialInv, InClose, Live, TypeOK
      <3>3. CASE CloseFlag(c)
        BY <2>3, <3>3 DEF CloseFlag, SerialInv, InClose, Live, TypeOK
      <3>4. CASE CloseConn(c)
        BY <2>3, <3>4 DEF CloseConn, SerialInv, InClose, Live, TypeOK
      <3> QED
        BY <2>3, <3>1, <3>2, <3>3, <3>4 DEF CloseStep
    <2>4. ASSUME NEW c \in Closers, CloseChanPanics(c) PROVE SerialInv'
      BY <2>4 DEF CloseChanPanics, SerialInv, InClose
    <2>5. CASE UNCHANGED vars
      BY <2>5 DEF vars, SerialInv, InClose
    <2> QED
      BY <2>1, <2>2, <2>3, <2>4, <2>5 DEF Next
  <1>3. SerialInv => SerialCloseSafe
    BY DEF SerialInv, SerialCloseSafe
  <1> QED
    BY <1>1, <1>2, <1>3, TypeCorrect, PTL DEF Spec

-----------------------------------------------------------------------------
(***************************************************************************)
(* Where packets are.  Counting by place: the packets with number i among  *)
(* the producers' hands, a sequence, a set.                                *)
(***************************************************************************)
HandsOf(f, i) == {q \in Producers : f[q].id = i}
At(s, i) == {n \in DOMAIN s : s[n].id = i}
Of(S, i) == {x \in S : x.id = i}
Is(x, i) == IF x.id = i THEN 1 ELSE 0

LEMMA HandsChange ==
  ASSUME NEW f \in [Producers -> Packets \union {NoPkt}], NEW p \in Producers,
         NEW x \in Packets \union {NoPkt}, NEW i
  PROVE  /\ Cardinality(HandsOf(f, i)) \in Nat
         /\ f[p].id = i => Cardinality(HandsOf(f, i)) > 0
         /\ Cardinality(HandsOf([f EXCEPT ![p] = x], i))
               = Cardinality(HandsOf(f, i)) - Is(f[p], i) + Is(x, i)
  <1> DEFINE H == HandsOf(f, i)
             R == H \ {p}
             N == HandsOf([f EXCEPT ![p] = x], i)
  <1>1. IsFiniteSet(H) /\ Cardinality(H) \in Nat
    BY ProducersFinite, FS_Subset, FS_CardinalityType DEF HandsOf
  <1>2. p \in H <=> f[p].id = i
    BY DEF HandsOf
  <1>3. /\ IsFiniteSet(R)
        /\ Cardinality(R) = IF p \in H THEN Cardinality(H) - 1 ELSE Cardinality(H)
    BY <1>1, FS_RemoveElement
  <1>4. Cardinality(R) \in Nat /\ p \notin R
    BY <1>3, FS_CardinalityType
  <1>5. Cardinality(R) = Cardinality(H) - Is(f[p], i)
    BY <1>1, <1>2, <1>3 DEF Is
  <1>6. N = IF x.id = i THEN R \union {p} ELSE R
    BY DEF HandsOf
  <1>7. Cardinality(R \union {p}) = Cardinality(R) + 1
    BY <1>3, <1>4, FS_AddElement
  <1>8. Cardinality(N) = Cardinality(R) + Is(x, i)
    <2> HIDE DEF N, R
    <2>1. CASE x.id = i
      BY <1>6, <1>7, <2>1 DEF Is
    <2>2. CASE x.id # i
      BY <1>4, <1>6, <2>2 DEF Is
    <2> QED
      BY <2>1, <2>2
  <1>9. f[p].id = i => Cardinality(H) > 0
    BY <1>1, <1>2, FS_EmptySet
  <1> QED
    BY <1>1, <1>5, <1>8, <1>9

LEMMA AtCount ==
  ASSUME NEW s \in Seq(Packets), NEW i
  PROVE  /\ IsFiniteSet(At(s, i)) /\ Cardinality(At(s, i)) \in Nat
         /\ \A n \in 1 .. Len(s) : s[n].id = i => Cardinality(At(s, i)) > 0
  <1>1. DOMAIN s = 1 .. Len(s) /\ Len(s) \in Nat
    OBVIOUS
  <1>2. IsFiniteSet(1 .. Len(s)) /\ At(s, i) \in SUBSET (1 .. Len(s))
    BY <1>1, FS_Interval DEF At
  <1>3. IsFiniteSet(At(s, i)) /\ Cardinality(At(s, i)) \in Nat
    BY <1>2, FS_Subset, FS_CardinalityType
  <1>4. ASSUME NEW n \in 1 .. Len(s), s[n].id = i
        PROVE  Cardinality(At(s, i)) > 0
    <2>1. n \in At(s, i)
      BY <1>1, <1>4 DEF At
    <2> QED
      BY <1>3, <2>1, FS_EmptySet
  <1> QED
    BY <1>3, <1>4

LEMMA AtAppend ==
  ASSUME NEW s \in Seq(Packets), NEW x \in Packets, NEW i
  PROVE  Cardinality(At(Append(s, x), i)) = Cardinality(At(s, i)) + Is(x, i)
  <1>1. Len(s) \in Nat /\ DOMAIN s = 1 .. Len(s) /\ DOMAIN Append(s, x) = 1 .. Len(s) + 1
    OBVIOUS
  <1>2. /\ \A n \in 1 .. Len(s) : Append(s, x)[n] = s[n]
        /\ Append(s, x)[Len(s) + 1] = x
    OBVIOUS
  <1>3. At(Append(s, x), i) = IF x.id = i THEN At(s, i) \union {Len(s) + 1} ELSE At(s, i)
    BY <1>1, <1>2 DEF At
  <1>4. Len(s) + 1 \notin At(s, i)
    BY <1>1 DEF At
  <1>5. Cardinality(At(s, i) \union {Len(s) + 1}) = Cardinality(At(s, i)) + 1
    BY <1>4, AtCount, FS_AddElement
  <1>6. CASE x.id = i
    BY <1>3, <1>5, <1>6 DEF Is
  <1>7. CASE x.id # i
    BY <1>3, <1>7, AtCount DEF Is
  <1> QED
    BY <1>6, <1>7

LEMMA AtTail ==
  ASSUME NEW s \in Seq(Packets), s # <<>>, NEW i
  PROVE  /\ Cardinality(At(Tail(s), i)) = Cardinality(At(s, i)) - Is(Head(s), i)
         /\ Head(s).id = i => Cardinality(At(s, i)) > 0
  <1> DEFINE T == At(Tail(s), i)
             R == At(s, i) \ {1}
             f == [n \in T |-> n + 1]
  <1>1. /\ Len(s) \in Nat \ {0} /\ DOMAIN s = 1 .. Len(s) /\ Head(s) = s[1]
        /\ Tail(s) \in Seq(Packets) /\ Len(Tail(s)) = Len(s) - 1
        /\ DOMAIN Tail(s) = 1 .. Len(s) - 1
    OBVIOUS
  <1>2. \A n \in 1 .. Len(s) - 1 : Tail(s)[n] = s[n + 1]
    BY <1>1
  <1>3. T = {n \in 1 .. Len(s) - 1 : s[n + 1].id = i}
    BY <1>1, <1>2 DEF At
  <1>4. R = {n \in 2 .. Len(s) : s[n].id = i}
    BY <1>1 DEF At
  <1>5. f \in Bijection(T, R)
    <2>1. \A n \in T : n \in Int /\ n + 1 \in R
      BY <1>1, <1>3, <1>4
    <2>2. \A n \in R : n - 1 \in T /\ (n - 1) + 1 = n
      BY <1>1, <1>3, <1>4
    <2> HIDE DEF T, R
    <2>3. f \in [T -> R]
      BY <2>1
    <2>4. f \in Injection(T, R)
      BY <2>1, <2>3 DEF Injection, IsInjective
    <2>5. f \in Surjection(T, R)
      BY <2>2, <2>3 DEF Surjection
    <2> QED
      BY <2>4, <2>5 DEF Bijection
  <1>6. Cardinality(R) = Cardinality(T)
    <2>1. IsFiniteSet(T)
      BY <1>1, AtCount
    <2>2. ExistsBijection(T, R)
      BY <1>5 DEF ExistsBijection
    <2> HIDE DEF T, R
    <2> QED
      BY <2>1, <2>2, FS_Bijection
  <1>7. 1 \in At(s, i) <=> Head(s).id = i
    BY <1>1 DEF At
  <1>8. Cardinality(R) = Cardinality(At(s, i)) - Is(Head(s), i)
    <2>1. /\ IsFiniteSet(At(s, i)) /\ Cardinality(At(s, i)) \in Nat
      BY AtCount
    <2>2. Cardinality(R) = IF 1 \in At(s, i) THEN Cardinality(At(s, i)) - 1
                           ELSE Cardinality(At(s, i))
      BY <2>1, FS_RemoveElement
    <2> QED
      BY <1>7, <2>1, <2>2 DEF Is
  <1>9. Head(s).id = i => Cardinality(At(s, i)) > 0
    BY <1>1, AtCount
  <1> QED
    BY <1>6, <1>8, <1>9

LEMMA OfCount ==
  ASSUME NEW S, IsFiniteSet(S), NEW i
  PROVE  /\ IsFiniteSet(Of(S, i)) /\ Cardinality(Of(S, i)) \in Nat
         /\ \A x \in S : x.id = i => Cardinality(Of(S, i)) > 0
  <1>1. IsFiniteSet(Of(S, i)) /\ Cardinality(Of(S, i)) \in Nat
    BY FS_Subset, FS_CardinalityType DEF Of
  <1>2. \A x \in S : x.id = i => Of(S, i) # {}
    BY DEF Of
  <1> QED
    BY <1>1, <1>2, FS_EmptySet

LEMMA OfAdd ==
  ASSUME NEW S, IsFiniteSet(S), NEW x, x \notin S, NEW i
  PROVE  /\ IsFiniteSet(S \union {x})
         /\ Cardinality(Of(S \union {x}, i)) = Cardinality(Of(S, i)) + Is(x, i)
  <1>1. IsFiniteSet(S \union {x})
    BY FS_AddElement
  <1>2. Of(S \union {x}, i) = IF x.id = i THEN Of(S, i) \union {x} ELSE Of(S, i)
    BY DEF Of
  <1>3. IsFiniteSet(Of(S, i)) /\ Cardinality(Of(S, i)) \in Nat /\ x \notin Of(S, i)
    BY OfCount DEF Of
  <1>4. Cardinality(Of(S, i) \union {x}) = Cardinality(Of(S, i)) + 1
    BY <1>3, FS_AddElement
  <1>5. CASE x.id = i
    BY <1>1, <1>2, <1>4, <1>5 DEF Is
  <1>6. CASE x.id # i
    BY <1>1, <1>2, <1>3, <1>6 DEF Is
  <1> QED
    BY <1>5, <1>6

LEMMA OfOne ==
  ASSUME NEW x, NEW i
  PROVE  Cardinality(Of({x}, i)) = Is(x, i)
  <1>1. Of({x}, i) = IF x.id = i THEN {x} ELSE {}
    BY DEF Of
  <1> QED
    BY <1>1, FS_EmptySet, FS_Singleton DEF Is

(* The number of places a packet with number i is in.                      *)
Held(i) == Cardinality(HandsOf(pkt, i))
Queued(i) == Cardinality(At(packetQueue, i))
Sent(i) == Cardinality(At(sent, i))
Sending(i) == Is(cur, i)
Discarded(i) == Cardinality(Of(dropped, i))
Refused(i) == Cardinality(Of(refused, i))
Lost(i) == Cardinality(Of(lost, i))
Total(i) == (((((Held(i) + Queued(i)) + Sent(i)) + Sending(i)) + Discarded(i)) + Refused(i)) + Lost(i)

(* The strengthening of Accounted: also the packets not yet offered are    *)
(* counted, in no place, and the sets are finite.                          *)
CountInv ==
    /\ IsFiniteSet(dropped) /\ IsFiniteSet(refused) /\ IsFiniteSet(lost)
    /\ \A i \in 1 .. MaxPackets : Total(i) = IF i < nextId THEN 1 ELSE 0

LEMMA CountTypes ==
  ASSUME TypeOK, CountInv, NEW i \in 1 .. MaxPackets
  PROVE  /\ Held(i) \in Nat /\ Queued(i) \in Nat /\ Sent(i) \in Nat /\ Sending(i) \in {0, 1}
         /\ Discarded(i) \in Nat /\ Refused(i) \in Nat /\ Lost(i) \in Nat
  <1>1. Held(i) \in Nat
    BY ProducersFinite, FS_Subset, FS_CardinalityType DEF Held, HandsOf
  <1>2. Queued(i) \in Nat /\ Sent(i) \in Nat
    BY AtCount DEF TypeOK, Queued, Sent
  <1>3. Discarded(i) \in Nat /\ Refused(i) \in Nat /\ Lost(i) \in Nat
    BY OfCount DEF CountInv, Discarded, Refused, Lost
  <1>4. Sending(i) \in {0, 1}
    BY DEF Sending, Is
  <1> QED
    BY <1>1, <1>2, <1>3, <1>4

(* A packet on its way is in none of the sets.                             *)
LEMMA Elsewhere ==
  ASSUME TypeOK, CountInv, NEW x \in Packets,
         \/ Held(x.id) > 0
         \/ Queued(x.id) > 0
         \/ Sending(x.id) > 0
  PROVE  x \notin dropped /\ x \notin refused /\ x \notin lost
  <1> DEFINE i == x.id
  <1>1. i \in 1 .. MaxPackets
    BY DEF Packets
  <1>2. /\ Held(i) \in Nat /\ Queued(i) \in Nat /\ Sent(i) \in Nat /\ Sending(i) \in {0, 1}
        /\ Discarded(i) \in Nat /\ Refused(i) \in Nat /\ Lost(i) \in Nat
    BY <1>1, CountTypes
  <1>3. Total(i) \in {0, 1}
    BY <1>1 DEF CountInv
  <1>4. /\ x \in dropped => Discarded(i) > 0
        /\ x \in refused => Refused(i) > 0
        /\ x \in lost => Lost(i) > 0
    BY OfCount DEF CountInv, Discarded, Refused, Lost
  <1> HIDE DEF i
  <1>5. Held(i) > 0 \/ Queued(i) > 0 \/ Sending(i) > 0
    BY DEF i
  <1> QED
    BY <1>2, <1>3, <1>4, <1>5 DEF Total

(* What the steps do to the counts.                                        *)
LEMMA HandsStep ==
  ASSUME TypeOK, NEW p \in Producers, NEW x \in Packets \union {NoPkt},
         pkt' = [pkt EXCEPT ![p] = x], NEW i
  PROVE  /\ Held(i)' = (Held(i) - Is(pkt[p], i)) + Is(x, i)
         /\ pkt[p].id = i => Held(i) > 0
  <1>1. pkt \in [Producers -> Packets \union {NoPkt}]
    BY DEF TypeOK
  <1>2. /\ pkt[p].id = i => Cardinality(HandsOf(pkt, i)) > 0
        /\ Cardinality(HandsOf([pkt EXCEPT ![p] = x], i))
              = (Cardinality(HandsOf(pkt, i)) - Is(pkt[p], i)) + Is(x, i)
    BY <1>1, HandsChange
  <1> QED
    BY <1>2 DEF Held

LEMMA NoPktCounts ==
  ASSUME NEW i \in 1 .. MaxPackets
  PROVE  Is(NoPkt, i) = 0
  BY DEF Is, NoPkt

LEMMA HandEmptied ==
  ASSUME TypeOK, NEW p \in Producers, pkt' = [pkt EXCEPT ![p] = NoPkt],
         NEW i \in 1 .. MaxPackets, Held(i) \in Nat
  PROVE  Held(i)' = Held(i) - Is(pkt[p], i)
  <1>1. Held(i)' = (Held(i) - Is(pkt[p], i)) + Is(NoPkt, i)
    BY HandsStep
  <1>2. Is(NoPkt, i) = 0 /\ Is(pkt[p], i) \in {0, 1}
    BY NoPktCounts DEF Is
  <1> QED
    BY <1>1, <1>2

LEMMA HandFilled ==
  ASSUME TypeOK, NEW p \in Producers, pkt[p] = NoPkt, NEW x \in Packets,
         pkt' = [pkt EXCEPT ![p] = x], NEW i \in 1 .. MaxPackets, Held(i) \in Nat
  PROVE  Held(i)' = Held(i) + Is(x, i)
  <1>1. Held(i)' = (Held(i) - Is(pkt[p], i)) + Is(x, i)
    BY HandsStep
  <1>2. Is(pkt[p], i) = 0 /\ Is(x, i) \in {0, 1}
    BY NoPktCounts DEF Is
  <1> QED
    BY <1>1, <1>2

LEMMA EmptyHand ==
  ASSUME TypeOK, NEW p \in Producers, ppc[p] \notin {"choose", "send", "audio", "keep"}
  PROVE  pkt[p] = NoPkt
  BY DEF TypeOK

LEMMA FullHand ==
  ASSUME TypeOK, NEW p \in Producers, ppc[p] \in {"choose", "send", "audio", "keep"}
  PROVE  pkt[p] \in Packets
  BY DEF TypeOK

LEMMA CountInit == Init => CountInv
  <1> SUFFICES ASSUME Init PROVE CountInv
    OBVIOUS
  <1>1. IsFiniteSet(dropped) /\ IsFiniteSet(refused) /\ IsFiniteSet(lost)
    BY FS_EmptySet DEF Init
  <1>2. ASSUME NEW i \in 1 .. MaxPackets
        PROVE  Total(i) = IF i < nextId THEN 1 ELSE 0
    <2>1. HandsOf(pkt, i) = {}
      BY DEF Init, HandsOf, NoPkt
    <2>2. At(packetQueue, i) = {} /\ At(sent, i) = {}
      BY DEF Init, At
    <2>3. Of(dropped, i) = {} /\ Of(refused, i) = {} /\ Of(lost, i) = {}
      BY DEF Init, Of
    <2>4. /\ Held(i) = 0 /\ Queued(i) = 0 /\ Sent(i) = 0
          /\ Discarded(i) = 0 /\ Refused(i) = 0 /\ Lost(i) = 0
      BY <2>1, <2>2, <2>3, FS_EmptySet DEF Held, Queued, Sent, Discarded, Refused, Lost
    <2>5. Sending(i) = 0
      BY NoPktCounts DEF Init, Sending
    <2>6. ~(i < nextId)
      BY DEF Init
    <2> QED
      BY <2>4, <2>5, <2>6 DEF Total
  <1> QED
    BY <1>1, <1>2 DEF CountInv

(* A packet goes from a producer's hand onto the channel, or is taken off  *)
(* it: the total stays.                                                    *)
LEMMA SamePlaces ==
  ASSUME CountInv, UNCHANGED <<pkt, packetQueue, sent, cur, dropped, refused, lost, nextId>>
  PROVE  CountInv'
  BY DEF CountInv, Total, Held, Queued, Sent, Sending, Discarded, Refused, Lost

LEMMA HandToQueue ==
  ASSUME TypeOK, CountInv, NEW p \in Producers, pkt[p] \in Packets,
         pkt' = [pkt EXCEPT ![p] = NoPkt], packetQueue' = Append(packetQueue, pkt[p]),
         UNCHANGED <<sent, cur, dropped, refused, lost, nextId>>
  PROVE  CountInv'
  <1>1. ASSUME NEW i \in 1 .. MaxPackets
        PROVE  Total(i)' = Total(i)
    <2>1. Held(i)' = Held(i) - Is(pkt[p], i)
      BY HandEmptied, CountTypes
    <2>2. Queued(i)' = Queued(i) + Is(pkt[p], i)
      BY AtAppend DEF Queued, TypeOK
    <2>3. UNCHANGED <<Sent(i), Sending(i), Discarded(i), Refused(i), Lost(i)>>
      BY DEF Sent, Sending, Discarded, Refused, Lost
    <2>4. Is(pkt[p], i) \in {0, 1}
      BY DEF Is
    <2> QED
      BY <2>1, <2>2, <2>3, <2>4, CountTypes DEF Total
  <1> QED
    BY <1>1 DEF CountInv

LEMMA QueueToHand ==
  ASSUME TypeOK, CountInv, NEW p \in Producers, pkt[p] = NoPkt, packetQueue # <<>>,
         pkt' = [pkt EXCEPT ![p] = Head(packetQueue)], packetQueue' = Tail(packetQueue),
         UNCHANGED <<sent, cur, dropped, refused, lost, nextId>>
  PROVE  CountInv'
  <1> DEFINE x == Head(packetQueue)
  <1>0. x \in Packets
    BY Receive
  <1>1. ASSUME NEW i \in 1 .. MaxPackets
        PROVE  Total(i)' = Total(i)
    <2>1. Held(i)' = Held(i) + Is(x, i)
      BY <1>0, HandFilled, CountTypes
    <2>2. Queued(i)' = Queued(i) - Is(x, i)
      BY AtTail DEF Queued, TypeOK
    <2>3. UNCHANGED <<Sent(i), Sending(i), Discarded(i), Refused(i), Lost(i)>>
      BY DEF Sent, Sending, Discarded, Refused, Lost
    <2>4. Is(x, i) \in {0, 1}
      BY DEF Is
    <2> HIDE DEF x
    <2> QED
      BY <2>1, <2>2, <2>3, <2>4, CountTypes DEF Total
  <1> QED
    BY <1>1 DEF CountInv

DropsHead ==
    /\ packetQueue # <<>>
    /\ dropped' = dropped \union {Head(packetQueue)} /\ packetQueue' = Tail(packetQueue)
    /\ UNCHANGED <<pkt, sent, cur, refused, lost, nextId>>

LEMMA QueueToDropped ==
  ASSUME TypeOK, CountInv, DropsHead
  PROVE  CountInv'
  <1> DEFINE x == Head(packetQueue)
  <1>1. x \in Packets
    BY Receive DEF DropsHead
  <1>2. x \notin dropped
    <2>1. Queued(x.id) > 0
      BY AtTail DEF Queued, TypeOK, DropsHead
    <2> QED
      BY <1>1, <2>1, Elsewhere
  <1>3. IsFiniteSet(dropped)
    BY DEF CountInv
  <1>4. ASSUME NEW i \in 1 .. MaxPackets
        PROVE  Total(i)' = Total(i)
    <2>1. Discarded(i)' = Discarded(i) + Is(x, i)
      BY <1>2, <1>3, OfAdd DEF Discarded, DropsHead
    <2>2. Queued(i)' = Queued(i) - Is(x, i)
      BY AtTail DEF Queued, TypeOK, DropsHead
    <2>3. UNCHANGED <<Held(i), Sent(i), Sending(i), Refused(i), Lost(i)>>
      BY DEF Held, Sent, Sending, Refused, Lost, DropsHead
    <2>4. Is(x, i) \in {0, 1}
      BY DEF Is
    <2> HIDE DEF x
    <2> QED
      BY <2>1, <2>2, <2>3, <2>4, CountTypes DEF Total
  <1>5. IsFiniteSet(dropped')
    BY <1>2, <1>3, OfAdd DEF DropsHead
  <1> QED
    BY <1>4, <1>5 DEF CountInv, DropsHead

LEMMA QueueToSender ==
  ASSUME TypeOK, CountInv, cur = NoPkt, packetQueue # <<>>,
         cur' = Head(packetQueue), packetQueue' = Tail(packetQueue),
         UNCHANGED <<pkt, sent, dropped, refused, lost, nextId>>
  PROVE  CountInv'
  <1> DEFINE x == Head(packetQueue)
  <1>1. ASSUME NEW i \in 1 .. MaxPackets
        PROVE  Total(i)' = Total(i)
    <2>1. Sending(i)' = Is(x, i) /\ Sending(i) = 0
      BY NoPktCounts DEF Sending
    <2>2. Queued(i)' = Queued(i) - Is(x, i)
      BY AtTail DEF Queued, TypeOK
    <2>3. UNCHANGED <<Held(i), Sent(i), Discarded(i), Refused(i), Lost(i)>>
      BY DEF Held, Sent, Discarded, Refused, Lost
    <2>4. Is(x, i) \in {0, 1}
      BY DEF Is
    <2> HIDE DEF x
    <2> QED
      BY <2>1, <2>2, <2>3, <2>4, CountTypes DEF Total
  <1> QED
    BY <1>1 DEF CountInv

LEMMA SenderToSent ==
  ASSUME TypeOK, CountInv, cur \in Packets, cur' = NoPkt, sent' = Append(sent, cur),
         UNCHANGED <<pkt, packetQueue, dropped, refused, lost, nextId>>
  PROVE  CountInv'
  <1>1. ASSUME NEW i \in 1 .. MaxPackets
        PROVE  Total(i)' = Total(i)
    <2>1. Sending(i)' = 0 /\ Sending(i) = Is(cur, i)
      BY NoPktCounts DEF Sending
    <2>2. Sent(i)' = Sent(i) + Is(cur, i)
      BY AtAppend DEF Sent, TypeOK
    <2>3. UNCHANGED <<Held(i), Queued(i), Discarded(i), Refused(i), Lost(i)>>
      BY DEF Held, Queued, Discarded, Refused, Lost
    <2> QED
      BY <2>1, <2>2, <2>3, CountTypes DEF Total
  <1> QED
    BY <1>1 DEF CountInv

LEMMA SenderToLost ==
  ASSUME TypeOK, CountInv, cur \in Packets, cur' = NoPkt, lost' = lost \union {cur},
         UNCHANGED <<pkt, packetQueue, sent, dropped, refused, nextId>>
  PROVE  CountInv'
  <1>1. cur \notin lost
    <2>1. Sending(cur.id) > 0
      BY DEF Sending, Is
    <2> QED
      BY <2>1, Elsewhere
  <1>2. IsFiniteSet(lost)
    BY DEF CountInv
  <1>3. ASSUME NEW i \in 1 .. MaxPackets
        PROVE  Total(i)' = Total(i)
    <2>1. Sending(i)' = 0 /\ Sending(i) = Is(cur, i)
      BY NoPktCounts DEF Sending
    <2>2. Lost(i)' = Lost(i) + Is(cur, i)
      BY <1>1, <1>2, OfAdd DEF Lost
    <2>3. UNCHANGED <<Held(i), Queued(i), Sent(i), Discarded(i), Refused(i)>>
      BY DEF Held, Queued, Sent, Discarded, Refused
    <2> QED
      BY <2>1, <2>2, <2>3, CountTypes DEF Total
  <1>4. IsFiniteSet(lost')
    BY <1>1, <1>2, OfAdd
  <1> QED
    BY <1>3, <1>4 DEF CountInv

(* From a producer's hand into one of the sets.                            *)
LEMMA HandToSet ==
  ASSUME TypeOK, CountInv, NEW p \in Producers, pkt[p] \in Packets,
         pkt' = [pkt EXCEPT ![p] = NoPkt], UNCHANGED <<packetQueue, sent, cur, nextId>>,
         \/ dropped' = dropped \union {pkt[p]} /\ UNCHANGED <<refused, lost>>
         \/ refused' = refused \union {pkt[p]} /\ UNCHANGED <<dropped, lost>>
         \/ lost' = lost \union {pkt[p]} /\ UNCHANGED <<dropped, refused>>
  PROVE  CountInv'
  <1> DEFINE x == pkt[p]
  <1>1. x \notin dropped /\ x \notin refused /\ x \notin lost
    <2>1. Held(x.id) > 0
      BY HandsStep
    <2> QED
      BY <2>1, Elsewhere
  <1>2. IsFiniteSet(dropped) /\ IsFiniteSet(refused) /\ IsFiniteSet(lost)
    BY DEF CountInv
  <1>3. ASSUME NEW i \in 1 .. MaxPackets
        PROVE  Total(i)' = Total(i)
    <2>1. Held(i)' = Held(i) - Is(x, i)
      BY HandEmptied, CountTypes
    <2>2. UNCHANGED <<Queued(i), Sent(i), Sending(i)>>
      BY DEF Queued, Sent, Sending
    <2>3. \/ Discarded(i)' = Discarded(i) + Is(x, i) /\ UNCHANGED <<Refused(i), Lost(i)>>
          \/ Refused(i)' = Refused(i) + Is(x, i) /\ UNCHANGED <<Discarded(i), Lost(i)>>
          \/ Lost(i)' = Lost(i) + Is(x, i) /\ UNCHANGED <<Discarded(i), Refused(i)>>
      <3>1. CASE dropped' = dropped \union {x} /\ UNCHANGED <<refused, lost>>
        <4>1. Discarded(i)' = Discarded(i) + Is(x, i)
          BY <1>1, <1>2, <3>1, OfAdd DEF Discarded
        <4>2. UNCHANGED <<Refused(i), Lost(i)>>
          BY <3>1 DEF Refused, Lost
        <4> QED
          BY <4>1, <4>2
      <3>2. CASE refused' = refused \union {x} /\ UNCHANGED <<dropped, lost>>
        BY <1>1, <1>2, <3>2, OfAdd DEF Discarded, Refused, Lost
      <3>3. CASE lost' = lost \union {x} /\ UNCHANGED <<dropped, refused>>
        BY <1>1, <1>2, <3>3, OfAdd DEF Discarded, Refused, Lost
      <3> QED
        BY <3>1, <3>2, <3>3
    <2>4. Is(x, i) \in {0, 1}
      BY DEF Is
    <2> HIDE DEF x
    <2> QED
      BY <2>1, <2>2, <2>3, <2>4, CountTypes DEF Total
  <1>4. IsFiniteSet(dropped') /\ IsFiniteSet(refused') /\ IsFiniteSet(lost')
    <2>1. /\ IsFiniteSet(dropped \union {x}) /\ IsFiniteSet(refused \union {x})
          /\ IsFiniteSet(lost \union {x})
      BY <1>2, FS_AddElement
    <2> HIDE DEF x
    <2>2. /\ dropped' \in {dropped, dropped \union {x}}
          /\ refused' \in {refused, refused \union {x}}
          /\ lost' \in {lost, lost \union {x}}
      BY DEF x
    <2> QED
      BY <1>2, <2>1, <2>2
  <1> QED
    BY <1>3, <1>4 DEF CountInv

(* Write takes a new packet: it is now counted, in one place.              *)
LEMMA NewPacket ==
  ASSUME TypeOK, CountInv, NEW p \in Producers, WriteEnter(p)
  PROVE  CountInv'
  <1>1. PICK k \in Kinds : pkt' = [pkt EXCEPT ![p] = [id |-> nextId, kind |-> k]]
    BY DEF WriteEnter
  <1> DEFINE x == [id |-> nextId, kind |-> k]
  <1>2. x \in Packets /\ nextId \in 1 .. MaxPackets /\ nextId' = nextId + 1
    BY SlackAssumption DEF WriteEnter, Packets, TypeOK
  <1>3. pkt[p] = NoPkt
    BY EmptyHand DEF WriteEnter
  <1>4. UNCHANGED <<packetQueue, sent, cur, dropped, refused, lost>>
    BY DEF WriteEnter
  <1>5. ASSUME NEW i \in 1 .. MaxPackets
        PROVE  Total(i)' = IF i < nextId' THEN 1 ELSE 0
    <2>1. Held(i)' = Held(i) + Is(x, i)
      BY <1>1, <1>2, <1>3, HandFilled, CountTypes
    <2>2. UNCHANGED <<Queued(i), Sent(i), Sending(i), Discarded(i), Refused(i), Lost(i)>>
      BY <1>4 DEF Queued, Sent, Sending, Discarded, Refused, Lost
    <2>3. Is(x, i) = IF nextId = i THEN 1 ELSE 0
      BY DEF Is
    <2> HIDE DEF x
    <2>4. Total(i)' = Total(i) + Is(x, i)
      BY <2>1, <2>2, <2>3, CountTypes DEF Total
    <2>5. Total(i) = IF i < nextId THEN 1 ELSE 0
      BY DEF CountInv
    <2> QED
      BY <1>2, <2>3, <2>4, <2>5
  <1> QED
    BY <1>4, <1>5 DEF CountInv

LEMMA CountStep == TypeOK /\ CountInv /\ [Next]_vars => CountInv'
  <1> SUFFICES ASSUME TypeOK, CountInv, [Next]_vars
               PROVE  CountInv'
    OBVIOUS
  <1>1. ASSUME NEW p \in Producers, WriteStep(p) \/ DropStep(p)
        PROVE  CountInv'
    <2>1. CASE WriteClosed(p) \/ WriteAccept(p) \/ DropTakeNothing(p) \/ DropTrim(p)
      <3>1. UNCHANGED <<pkt, packetQueue, sent, cur, dropped, refused, lost, nextId>>
        BY <2>1 DEF WriteClosed, WriteAccept, DropTakeNothing, DropTrim
      <3> QED
        BY <3>1, SamePlaces
    <2>2. CASE WriteEnter(p)
      BY <2>2, NewPacket
    <2>3. CASE WriteOverflow(p)
      BY <2>3, FullHand, HandToSet DEF WriteOverflow
    <2>4. CASE WriteSend(p)
      BY <2>4, FullHand, HandToQueue DEF WriteSend
    <2>5. CASE SendPanics(p)
      BY <2>5, FullHand, HandToSet DEF SendPanics
    <2>6. CASE DropTakeKeep(p)
      BY <2>6, EmptyHand, QueueToHand DEF DropTakeKeep
    <2>7. CASE DropTakeInter(p) \/ DropTakeMeta(p)
      <3>1. DropsHead
        BY <2>7 DEF DropTakeInter, DropTakeMeta, DropsHead
      <3> QED
        BY <3>1, QueueToDropped
    <2>8. CASE DropAudio(p)
      <3>1. CASE Len(packetQueue) > QueueCap - AudioSlack
        BY <2>8, <3>1, FullHand, HandToSet DEF DropAudio
      <3>2. CASE ~(Len(packetQueue) > QueueCap - AudioSlack)
        BY <2>8, <3>2, SamePlaces DEF DropAudio
      <3> QED
        BY <3>1, <3>2
    <2>9. CASE DropKeep(p)
      BY <2>9, FullHand, HandToQueue DEF DropKeep
    <2>10. CASE DropDiscard(p)
      <3>1. CASE packetQueue = <<>>
        BY <2>10, <3>1, SamePlaces DEF DropDiscard
      <3>2. CASE packetQueue # <<>>
        <4>1. DropsHead
          BY <2>10, <3>2 DEF DropDiscard, DropsHead
        <4> QED
          BY <4>1, QueueToDropped
      <3> QED
        BY <3>1, <3>2
    <2> QED
      BY <1>1, <2>1, <2>2, <2>3, <2>4, <2>5, <2>6, <2>7, <2>8, <2>9, <2>10
      DEF WriteStep, DropStep
  <1>2. CASE SendStep
    <2>1. CASE SendRecv
      <3>1. cur = NoPkt
        BY <2>1 DEF SendRecv, TypeOK
      <3> QED
        BY <2>1, <3>1, QueueToSender DEF SendRecv
    <2>2. CASE SendEnd
      BY <2>2, SamePlaces DEF SendEnd
    <2>3. cpc = "write" => cur \in Packets
      BY DEF TypeOK
    <2>4. CASE SendWriteOk
      BY <2>3, <2>4, SenderToSent DEF SendWriteOk
    <2>5. CASE SendWriteFail
      BY <2>3, <2>5, SenderToLost DEF SendWriteFail
    <2> QED
      BY <1>2, <2>1, <2>2, <2>4, <2>5 DEF SendStep
  <1>3. ASSUME NEW c \in Closers, CloseStep(c) \/ CloseChanPanics(c)
        PROVE  CountInv'
    <2>1. UNCHANGED <<pkt, packetQueue, sent, cur, dropped, refused, lost, nextId>>
      BY <1>3 DEF CloseStep, CloseTest, CloseChan, CloseFlag, CloseConn, CloseChanPanics
    <2> QED
      BY <2>1, SamePlaces
  <1>4. CASE UNCHANGED vars
    BY <1>4, SamePlaces DEF vars
  <1> QED
    BY <1>1, <1>2, <1>3, <1>4 DEF Next

(* Every packet offered to Write is in exactly one place, whatever the     *)
(* number of transports and closers: DropPacket's take and put back, the   *)
(* panic of a send on a closed channel and the races of Close neither      *)
(* duplicate nor leak one.                                                 *)
THEOREM EveryPacketAccounted == Spec => []Accounted
  <1>1. Init => CountInv
    BY CountInit
  <1>2. TypeOK /\ CountInv /\ [Next]_vars => CountInv'
    BY CountStep
  <1>3. TypeOK /\ CountInv => Accounted
    <2> SUFFICES ASSUME TypeOK, CountInv, NEW i \in 1 .. nextId - 1
                 PROVE  Cardinality({p \in Producers : pkt[p].id = i})
                          + Cardinality({n \in DOMAIN packetQueue : packetQueue[n].id = i})
                          + Cardinality({n \in DOMAIN sent : sent[n].id = i})
                          + Cardinality({x \in {cur} : x.id = i})
                          + Cardinality({x \in dropped : x.id = i})
                          + Cardinality({x \in refused : x.id = i})
                          + Cardinality({x \in lost : x.id = i}) = 1
      BY DEF Accounted
    <2>1. i \in 1 .. MaxPackets /\ i < nextId
      BY SlackAssumption DEF TypeOK
    <2>2. Total(i) = 1
      BY <2>1 DEF CountInv
    <2>3. Sending(i) = Cardinality(Of({cur}, i))
      BY OfOne DEF Sending
    <2> QED
      BY <2>2, <2>3
      DEF Total, Held, Queued, Sent, Discarded, Refused, Lost, HandsOf, At, Of
  <1> QED
    BY <1>1, <1>2, <1>3, TypeCorrect, PTL DEF Spec
=============================================================================
