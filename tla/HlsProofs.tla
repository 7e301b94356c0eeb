----------------------------- MODULE HlsProofs ------------------------------
(***************************************************************************)
(* Theorems about Hls, for any queue length, segment duration, window and  *)
(* number of cached audio frames, and anything the publisher may send.     *)
(***************************************************************************)
EXTENDS Hls, SequenceTheorems, TLAPS

Frame == [id : Nat, kind : Kinds, ts : Nat]

(* What TypeOK needs to be inductive: the types of the other variables,    *)
(* and that DropPacket has rounds left.                                    *)
Types ==
    /\ queue \in Seq(Frame) /\ p \in Frame
    /\ segment \in Seq(Frame) /\ cache \in Seq(Frame) /\ muxed \in Seq(Frame)
    /\ written \in Nat /\ now \in Nat /\ seq \in Nat /\ name \in Nat /\ ll \in Seq(Nat)
    /\ wpc = "drop" => round < Rounds

(* The playlist's names increase, the newest is the last second used, and  *)
(* every one leads to the segment it was given for.                        *)
Increasing(s) == \A i, j \in 1 .. Len(s) : i < j => s[i] < s[j]
WindowInv == ~collided =>
    /\ Increasing(ll) /\ \A k \in 1 .. Len(ll) : ll[k] <= name
    /\ \A k \in 1 .. Len(ll) : ll[k] \in DOMAIN lm /\ lm[ll[k]] = (seq - Len(ll)) + k
    /\ Len(ll) = IF seq < Window THEN seq ELSE Window

(* No frame is in two places: the queue, the sender's hand, what is muxed. *)
Distinct(s) == \A i, j \in 1 .. Len(s) : s[i].id = s[j].id => i = j
FreshInv ==
    /\ Distinct(queue) /\ \A k \in 1 .. Len(queue) : queue[k].id <= written
    /\ \A n \in 1 .. Len(muxed) :
          muxed[n].id <= written /\ \A k \in 1 .. Len(queue) : queue[k].id # muxed[n].id
    /\ spc \in {"parse", "mux"} =>
          /\ p.id <= written
          /\ \A k \in 1 .. Len(queue) : queue[k].id # p.id
          /\ \A n \in 1 .. Len(muxed) : muxed[n].id # p.id

(* The segment being filled begins with the key frame whose time stamp is  *)
(* first, and holds the frame whose time stamp is last, or the cache does. *)
Holds(s, c, x) == \/ \E n \in 1 .. Len(s) : s[n] = x
                  \/ \E n \in 1 .. Len(c) : c[n] = x
FillInv ==
    /\ segment = <<>> => cache = <<>> /\ first = -1
    /\ segment # <<>> =>
          /\ segment[1].kind = "key" /\ segment[1].ts = first
          /\ \E x \in Frame : Holds(segment, cache, x) /\ x.ts = last
          /\ \E m \in 1 .. Len(muxed) : muxed[m] = segment[1]
    /\ \A n \in 1 .. Len(muxed) : (segment # <<>> /\ Holds(segment, cache, muxed[n])) =>
          \E m \in 1 .. n : muxed[m] = segment[1]
CutInv ==
    /\ segments \in Seq(Seq(Frame))
    /\ \A k \in 1 .. Len(segments) :
          /\ segments[k][1].kind = "key"
          /\ \E i, j \in 1 .. Len(segments[k]) : segments[k][j].ts - segments[k][i].ts >= Duration

HlsInv == TypeOK /\ Types /\ WindowInv /\ FreshInv /\ FillInv /\ CutInv

-----------------------------------------------------------------------------
(* Queues.                                                                 *)
LEMMA QueueTail ==
  ASSUME NEW q \in Seq(Frame), q # <<>>
  PROVE  /\ Head(q) \in Frame /\ Head(q) = q[1] /\ Len(q) \in Nat \ {0}
         /\ Tail(q) \in Seq(Frame) /\ Len(Tail(q)) = Len(q) - 1
         /\ \A i \in 1 .. Len(q) - 1 : Tail(q)[i] = q[i + 1]
  BY HeadTailProperties

LEMMA QueueAppend ==
  ASSUME NEW q \in Seq(Frame), NEW x \in Frame
  PROVE  /\ Append(q, x) \in Seq(Frame) /\ Len(q) \in Nat
         /\ Len(Append(q, x)) = Len(q) + 1 /\ Append(q, x)[Len(q) + 1] = x
         /\ \A i \in 1 .. Len(q) : Append(q, x)[i] = q[i]
  OBVIOUS

LEMMA FrameAt ==
  ASSUME NEW q \in Seq(Frame)
  PROVE  /\ Len(q) \in Nat
         /\ \A k \in 1 .. Len(q) : q[k] \in Frame /\ q[k].ts \in Nat /\ q[k].id \in Nat
  <1>1. Len(q) \in Nat /\ \A k \in 1 .. Len(q) : q[k] \in Frame
    BY ElementOfSeq
  <1>2. \A x \in Frame : x.ts \in Nat /\ x.id \in Nat
    BY DEF Frame
  <1> QED
    BY <1>1, <1>2

(* What DropPacket and the receive leave: the queue, a rest or a rotation. *)
Rotated(q) == Append(Tail(q), Head(q))
Left(new, q) == new = q \/ (q # <<>> /\ (new = Tail(q) \/ new = Rotated(q)))

LEMMA RotatedElements ==
  ASSUME NEW q \in Seq(Frame), q # <<>>
  PROVE  /\ Rotated(q) \in Seq(Frame) /\ Len(Rotated(q)) = Len(q) /\ Len(q) \in Nat \ {0}
         /\ \A i \in 1 .. Len(q) : Rotated(q)[i] = q[IF i = Len(q) THEN 1 ELSE i + 1]
  <1>1. /\ Head(q) \in Frame /\ Head(q) = q[1] /\ Len(q) \in Nat \ {0}
        /\ Tail(q) \in Seq(Frame) /\ Len(Tail(q)) = Len(q) - 1
        /\ \A i \in 1 .. Len(q) - 1 : Tail(q)[i] = q[i + 1]
    BY QueueTail
  <1>2. /\ Rotated(q) \in Seq(Frame) /\ Len(Rotated(q)) = Len(q) /\ Rotated(q)[Len(q)] = q[1]
        /\ \A i \in 1 .. Len(q) - 1 : Rotated(q)[i] = Tail(q)[i]
    BY <1>1, QueueAppend DEF Rotated
  <1>3. ASSUME NEW i \in 1 .. Len(q)
        PROVE  Rotated(q)[i] = q[IF i = Len(q) THEN 1 ELSE i + 1]
    <2>1. CASE i = Len(q)
      BY <1>2, <2>1
    <2>2. CASE i # Len(q)
      <3>0. Len(q) \in Nat \ {0}
        BY <1>1
      <3>1. i \in 1 .. Len(q) - 1
        BY <2>2, <3>0
      <3> QED
        BY <1>1, <1>2, <2>2, <3>1
    <2> QED
      BY <2>1, <2>2
  <1> QED
    BY <1>1, <1>2, <1>3

LEMMA LeftElements ==
  ASSUME NEW q \in Seq(Frame), NEW new, Left(new, q)
  PROVE  /\ new \in Seq(Frame) /\ Len(new) \in Nat /\ Len(q) \in Nat /\ Len(new) <= Len(q)
         /\ \A i \in 1 .. Len(new) : \E j \in 1 .. Len(q) : new[i] = q[j]
         /\ Distinct(q) => Distinct(new)
  <1>1. CASE new = q
    BY <1>1
  <1>2. CASE q # <<>> /\ new = Tail(q)
    <2>1. /\ new \in Seq(Frame) /\ Len(new) = Len(q) - 1 /\ Len(q) \in Nat \ {0}
          /\ \A i \in 1 .. Len(new) : i + 1 \in 1 .. Len(q) /\ new[i] = q[i + 1]
      BY <1>2, QueueTail
    <2>2. Distinct(q) => Distinct(new)
      BY <2>1 DEF Distinct
    <2>3. \A i \in 1 .. Len(new) : \E j \in 1 .. Len(q) : new[i] = q[j]
      BY <2>1
    <2> QED
      BY <2>1, <2>2, <2>3
  <1>3. CASE q # <<>> /\ new = Rotated(q)
    <2>1. /\ new \in Seq(Frame) /\ Len(new) = Len(q) /\ Len(q) \in Nat \ {0}
          /\ \A i \in 1 .. Len(q) : new[i] = q[IF i = Len(q) THEN 1 ELSE i + 1]
      BY <1>3, RotatedElements
    <2> DEFINE to(i) == IF i = Len(q) THEN 1 ELSE i + 1
    <2>2. \A i \in 1 .. Len(q) : to(i) \in 1 .. Len(q) /\ new[i] = q[to(i)]
      BY <2>1
    <2>3. \A i, j \in 1 .. Len(q) : to(i) = to(j) => i = j
      BY <2>1
    <2> HIDE DEF to
    <2>4. Distinct(q) => Distinct(new)
      <3> SUFFICES ASSUME Distinct(q), NEW i \in 1 .. Len(q), NEW j \in 1 .. Len(q),
                          new[i].id = new[j].id
                   PROVE  i = j
        BY <2>1 DEF Distinct
      <3>1. q[to(i)].id = q[to(j)].id /\ to(i) \in 1 .. Len(q) /\ to(j) \in 1 .. Len(q)
        BY <2>2
      <3>2. to(i) = to(j)
        BY <3>1 DEF Distinct
      <3> QED
        BY <2>3, <3>2
    <2>5. \A i \in 1 .. Len(new) : \E j \in 1 .. Len(q) : new[i] = q[j]
      BY <2>1, <2>2
    <2> QED
      BY <2>1, <2>4, <2>5
  <1> QED
    BY <1>1, <1>2, <1>3 DEF Left

-----------------------------------------------------------------------------
(* The effects of Write and DropPacket.                                    *)
LEMMA WriteEffect ==
  ASSUME HlsAssumption, Types, Write
  PROVE  \/ wpc' = "gone" /\ UNCHANGED <<queue, round, written, now>>
         \/ /\ written' = written + 1 /\ now' \in Nat
            /\ wpc' \in {"idle", "gone"} /\ round' = round
            /\ \/ queue' = queue
               \/ /\ Len(queue) < HighMark
                  /\ \E kind \in Kinds :
                        queue' = Append(queue, [id |-> written + 1, kind |-> kind, ts |-> now'])
         \/ /\ written' = written + 1 /\ now' \in Nat
            /\ wpc' = "drop" /\ round' = 0 /\ queue' = queue
  <1>1. CASE closed
    BY <1>1 DEF Write
  <1>2. CASE ~closed
    <2>1. written' = written + 1 /\ written < Len(Steps)
      BY <1>2 DEF Write
    <2>2. PICK s \in Steps[written'] :
             /\ now' = now + s[2] /\ now' >= 0
             /\ IF Len(queue) >= HighMark
                THEN wpc' = "drop" /\ round' = 0 /\ UNCHANGED queue
                ELSE /\ wpc' = IF qclosed THEN "gone" ELSE "idle"
                     /\ queue' = IF qclosed THEN queue
                                 ELSE Append(queue, [id |-> written', kind |-> s[1], ts |-> now'])
                     /\ UNCHANGED round
      BY <1>2 DEF Write
    <2>3. s[1] \in Kinds /\ s[2] \in Int
      <3>1. written' \in 1 .. Len(Steps)
        BY <2>1 DEF Types, HlsAssumption
      <3>2. Steps[written'] \in SUBSET (Kinds \X Int)
        BY <3>1, ElementOfSeq DEF HlsAssumption
      <3> QED
        BY <3>2
    <2>4. now' \in Nat
      BY <2>2, <2>3 DEF Types
    <2>5. CASE Len(queue) >= HighMark
      BY <2>1, <2>2, <2>4, <2>5
    <2>6. CASE ~(Len(queue) >= HighMark)
      <3>1. Len(queue) < HighMark
        BY <2>6 DEF Types, HlsAssumption
      <3> QED
        BY <2>1, <2>2, <2>3, <2>4, <2>6, <3>1
    <2> QED
      BY <2>5, <2>6
  <1> QED
    BY <1>1, <1>2

LEMMA DropEffect ==
  ASSUME DropPacket
  PROVE  /\ Left(queue', queue) /\ round' = round + 1 /\ wpc = "drop"
         /\ wpc' \in {"gone", "idle", "drop"} /\ (wpc' = "drop" => round' # Rounds)
  BY DEF DropPacket, Left, Rotated

-----------------------------------------------------------------------------
(* Types.                                                                  *)
EndTypes ==
    /\ spc \in {"loop", "recv", "parse", "mux", "ended"}
    /\ cpc \in {"no", "closing", "nil", "done"}
    /\ {qclosed, closed, buffers, collided} \subseteq BOOLEAN
QueueTypes ==
    /\ queue \in Seq(Frame) /\ Len(queue) <= QueueCap
WriterTypes ==
    /\ wpc \in {"idle", "drop", "gone"} /\ round \in 0 .. Rounds
    /\ written \in Nat /\ now \in Nat
    /\ wpc = "drop" => round < Rounds
SegmentTypes ==
    /\ p \in Frame
    /\ segment \in Seq(Frame) /\ cache \in Seq(Frame) /\ muxed \in Seq(Frame)
    /\ first \in Nat \cup {-1} /\ last \in Nat /\ Len(cache) < MaxFrames
ListTypes ==
    /\ seq \in Nat /\ name \in Nat /\ ll \in Seq(Nat)
    /\ Len(ll) <= Window /\ \A n \in DOMAIN lm : \E k \in 1 .. Len(ll) : ll[k] = n

AllTypes == EndTypes /\ QueueTypes /\ WriterTypes /\ SegmentTypes /\ ListTypes

LEMMA TypesSplit == AllTypes <=> TypeOK /\ Types
  <1>1. ASSUME queue \in Seq(Frame)
        PROVE  \A k \in DOMAIN queue : queue[k].kind \in Kinds
    <2>1. DOMAIN queue = 1 .. Len(queue) /\ \A k \in 1 .. Len(queue) : queue[k] \in Frame
      BY <1>1, ElementOfSeq
    <2> QED
      BY <2>1 DEF Frame
  <1>2. ASSUME ll \in Seq(Nat)
        PROVE  DOMAIN lm \subseteq ToSet(ll) <=> \A n \in DOMAIN lm : \E k \in 1 .. Len(ll) : ll[k] = n
    <2>1. DOMAIN ll = 1 .. Len(ll)
      BY <1>2
    <2> QED
      BY <2>1 DEF ToSet
  <1>3. AllTypes => TypeOK
    BY <1>1, <1>2 DEF AllTypes, EndTypes, QueueTypes, WriterTypes, SegmentTypes, ListTypes, TypeOK
  <1>4. AllTypes => Types
    BY DEF AllTypes, EndTypes, QueueTypes, WriterTypes, SegmentTypes, ListTypes, Types
  <1>5. TypeOK /\ Types => AllTypes
    BY <1>1, <1>2
    DEF AllTypes, EndTypes, QueueTypes, WriterTypes, SegmentTypes, ListTypes, TypeOK, Types
  <1> QED
    BY <1>3, <1>4, <1>5

LEMMA TypesInit == HlsAssumption /\ Init => AllTypes
  <1> SUFFICES ASSUME HlsAssumption, Init
               PROVE  AllTypes
    OBVIOUS
  <1>0. EndTypes
    BY DEF Init, EndTypes
  <1>1. WriterTypes
    <2>1. Rounds \in Nat \ {0}
      BY DEF HlsAssumption
    <2> QED
      BY <2>1 DEF Init, WriterTypes
  <1>2. QueueTypes
    BY DEF Init, QueueTypes, HlsAssumption
  <1>3. SegmentTypes
    BY DEF Init, SegmentTypes, HlsAssumption, None, Frame, Kinds
  <1>4. ListTypes
    BY DEF Init, ListTypes, HlsAssumption
  <1> QED
    BY <1>0, <1>1, <1>2, <1>3, <1>4 DEF AllTypes

LEMMA TypesWrite ==
  ASSUME HlsAssumption, AllTypes, Write
  PROVE  AllTypes'
  <1>1. Types /\ TypeOK
    BY TypesSplit
  <1>2. UNCHANGED <<closed, spc, p, segVars, endVars>>
    BY DEF Write
  <1>3. EndTypes'
    BY <1>2 DEF AllTypes, EndTypes, segVars, endVars
  <1>4. ListTypes'
    BY <1>2 DEF AllTypes, ListTypes, segVars
  <1>5. now \in Nat /\ now' \in Nat
    BY <1>1, WriteEffect DEF Types
  <1>6. SegmentTypes'
    BY <1>2, <1>5 DEF AllTypes, SegmentTypes, segVars, Frame
  <1>7. WriterTypes'
    BY <1>1, <1>5, WriteEffect DEF AllTypes, WriterTypes, HlsAssumption
  <1>8. QueueTypes'
    <2>0. queue \in Seq(Frame) /\ Len(queue) \in Nat /\ Len(queue) <= QueueCap
      BY DEF AllTypes, QueueTypes
    <2>1. CASE queue' = queue
      BY <2>0, <2>1 DEF QueueTypes
    <2>2. ASSUME NEW kind \in Kinds, Len(queue) < HighMark,
                 queue' = Append(queue, [id |-> written + 1, kind |-> kind, ts |-> now'])
          PROVE  QueueTypes'
      <3> DEFINE x == [id |-> written + 1, kind |-> kind, ts |-> now']
      <3>1. x \in Frame /\ x.ts = now'
        BY <1>5 DEF AllTypes, WriterTypes, Frame
      <3> HIDE DEF x
      <3>2. queue' = Append(queue, x)
        BY <2>2 DEF x
      <3>4. /\ queue' \in Seq(Frame) /\ Len(queue) \in Nat
            /\ Len(queue') = Len(queue) + 1
        BY <2>0, <3>1, <3>2, QueueAppend
      <3>6. Len(queue') <= QueueCap
        BY <2>2, <3>4 DEF HlsAssumption
      <3> QED
        BY <3>4, <3>6 DEF QueueTypes
    <2> QED
      BY <1>1, <2>1, <2>2, WriteEffect
  <1> QED
    BY <1>3, <1>4, <1>6, <1>7, <1>8 DEF AllTypes

LEMMA QueueLeft ==
  ASSUME QueueTypes, Left(queue', queue)
  PROVE  QueueTypes'
  <1>1. /\ queue' \in Seq(Frame) /\ Len(queue') \in Nat /\ Len(queue) \in Nat
        /\ Len(queue') <= Len(queue)
    BY LeftElements DEF QueueTypes
  <1>2. QueueCap \in Nat
    BY HlsAssumption DEF HlsAssumption
  <1> QED
    BY <1>1, <1>2 DEF QueueTypes

LEMMA TypesDrop ==
  ASSUME HlsAssumption, AllTypes, DropPacket
  PROVE  AllTypes'
  <1>1. UNCHANGED <<closed, written, now, spc, p, segVars, endVars>>
    BY DEF DropPacket
  <1>2. EndTypes' /\ ListTypes' /\ SegmentTypes'
    BY <1>1 DEF AllTypes, EndTypes, ListTypes, SegmentTypes, segVars, endVars
  <1>3. WriterTypes'
    BY <1>1, DropEffect DEF AllTypes, WriterTypes, HlsAssumption
  <1>4. QueueTypes'
    BY <1>1, DropEffect, QueueLeft DEF AllTypes
  <1> QED
    BY <1>2, <1>3, <1>4 DEF AllTypes

LEMMA RecvEffect ==
  ASSUME SendRecv
  PROVE  /\ Left(queue', queue) /\ spc = "recv" /\ spc' \in {"loop", "ended", "parse"}
         /\ closed' = closed \/ closed' = TRUE
         /\ \/ queue # <<>> /\ queue' = Tail(queue) /\ p' = Head(queue)
            \/ queue' = queue /\ p' = p /\ spc' = "ended"
  BY DEF SendRecv, Left

LEMMA TypesRecv ==
  ASSUME HlsAssumption, AllTypes, SendRecv
  PROVE  AllTypes'
  <1>1. UNCHANGED <<segVars, wVars, endVars>>
    BY DEF SendRecv
  <1>2. EndTypes'
    BY <1>1, RecvEffect DEF AllTypes, EndTypes, segVars, endVars
  <1>3. ListTypes' /\ WriterTypes'
    BY <1>1 DEF AllTypes, ListTypes, WriterTypes, segVars, wVars
  <1>4. QueueTypes'
    BY RecvEffect, QueueLeft DEF AllTypes
  <1>5. p' \in Frame
    BY RecvEffect, QueueTail DEF AllTypes, SegmentTypes, QueueTypes
  <1>6. SegmentTypes'
    BY <1>1, <1>5 DEF AllTypes, SegmentTypes, segVars
  <1> QED
    BY <1>2, <1>3, <1>4, <1>6 DEF AllTypes

-----------------------------------------------------------------------------
(* SetItem: the names move up by one place when the list is full.          *)
Shift == IF Len(ll) = Window THEN 1 ELSE 0

LEMMA ListEffect ==
  ASSUME HlsAssumption, ListTypes, SetItem, name' \in Nat
  PROVE  /\ ll' \in Seq(Nat) /\ Len(ll) \in Nat /\ Len(ll) <= Window /\ Shift \in {0, 1}
         /\ Shift <= Len(ll) /\ Len(ll') = (Len(ll) - Shift) + 1 /\ Len(ll') <= Window
         /\ \A i \in 1 .. Len(ll) - Shift : ll'[i] = ll[i + Shift]
         /\ ll'[Len(ll')] = name'
         /\ DOMAIN lm' = (IF Shift = 1 THEN DOMAIN lm \ {ll[1]} ELSE DOMAIN lm) \cup {name'}
         /\ \A n \in DOMAIN lm' : lm'[n] = IF n = name' THEN seq' ELSE lm[n]
  <1>1. ll \in Seq(Nat) /\ Len(ll) \in Nat /\ Len(ll) <= Window /\ Window \in Nat \ {0}
    BY DEF ListTypes, HlsAssumption
  <1>2. CASE Len(ll) = Window
    <2>1. /\ ll # <<>> /\ Head(ll) = ll[1] /\ Tail(ll) \in Seq(Nat)
          /\ Len(Tail(ll)) = Len(ll) - 1
          /\ \A i \in 1 .. Len(ll) - 1 : Tail(ll)[i] = ll[i + 1]
      BY <1>1, <1>2, HeadTailProperties
    <2>2. ll' = Append(Tail(ll), name')
      BY <1>2 DEF SetItem
    <2>3. /\ ll' \in Seq(Nat) /\ Len(ll') = Len(ll) /\ ll'[Len(ll)] = name'
          /\ \A i \in 1 .. Len(ll) - 1 : ll'[i] = Tail(ll)[i]
      BY <1>1, <2>1, <2>2
    <2>4. lm' = [n \in (DOMAIN lm \ {ll[1]}) \cup {name'} |-> IF n = name' THEN seq' ELSE lm[n]]
      BY <1>2, <2>1 DEF SetItem
    <2>5. /\ DOMAIN lm' = (DOMAIN lm \ {ll[1]}) \cup {name'}
          /\ \A n \in DOMAIN lm' : lm'[n] = IF n = name' THEN seq' ELSE lm[n]
      BY <2>4
    <2>6. Shift = 1
      BY <1>2 DEF Shift
    <2> QED
      BY <1>1, <1>2, <2>1, <2>3, <2>5, <2>6
  <1>3. CASE Len(ll) # Window
    <2>1. ll' = Append(ll, name')
      BY <1>3 DEF SetItem
    <2>2. /\ ll' \in Seq(Nat) /\ Len(ll') = Len(ll) + 1 /\ ll'[Len(ll) + 1] = name'
          /\ \A i \in 1 .. Len(ll) : ll'[i] = ll[i]
      BY <1>1, <2>1
    <2>3. lm' = [n \in DOMAIN lm \cup {name'} |-> IF n = name' THEN seq' ELSE lm[n]]
      BY <1>3 DEF SetItem
    <2>4. /\ DOMAIN lm' = DOMAIN lm \cup {name'}
          /\ \A n \in DOMAIN lm' : lm'[n] = IF n = name' THEN seq' ELSE lm[n]
      BY <2>3
    <2>5. Shift = 0
      BY <1>3 DEF Shift
    <2> QED
      BY <1>1, <1>3, <2>2, <2>4, <2>5
  <1> QED
    BY <1>2, <1>3

LEMMA ListTypesSet ==
  ASSUME HlsAssumption, ListTypes, SetItem, name' \in Nat, seq' \in Nat
  PROVE  ListTypes'
  <1>1. /\ ll' \in Seq(Nat) /\ Len(ll) \in Nat /\ Len(ll) <= Window /\ Shift \in {0, 1}
        /\ Shift <= Len(ll) /\ Len(ll') = (Len(ll) - Shift) + 1 /\ Len(ll') <= Window
        /\ \A i \in 1 .. Len(ll) - Shift : ll'[i] = ll[i + Shift]
        /\ ll'[Len(ll')] = name'
        /\ DOMAIN lm' = (IF Shift = 1 THEN DOMAIN lm \ {ll[1]} ELSE DOMAIN lm) \cup {name'}
    BY ListEffect
  <1>2. ASSUME NEW n \in DOMAIN lm'
        PROVE  \E k \in 1 .. Len(ll') : ll'[k] = n
    <2>1. CASE n = name'
      <3>1. Len(ll') \in 1 .. Len(ll')
        BY <1>1
      <3> QED
        BY <1>1, <2>1, <3>1
    <2>2. CASE n # name'
      <3>1. n \in DOMAIN lm /\ (Shift = 1 => n # ll[1])
        BY <1>1, <2>2
      <3>2. PICK k \in 1 .. Len(ll) : ll[k] = n
        BY <3>1 DEF ListTypes
      <3>3. k - Shift \in 1 .. Len(ll) - Shift /\ k - Shift \in 1 .. Len(ll')
        <4>1. CASE Shift = 0
          BY <1>1, <4>1
        <4>2. CASE Shift = 1
          <5>1. k # 1
            BY <3>1, <3>2, <4>2
          <5>2. Len(ll) \in Nat /\ Len(ll') = Len(ll)
            BY <1>1, <4>2
          <5> QED
            BY <4>2, <5>1, <5>2
        <4> QED
          BY <1>1, <4>1, <4>2
      <3>4. ll'[k - Shift] = ll[(k - Shift) + Shift] /\ (k - Shift) + Shift = k
        BY <1>1, <3>3
      <3> QED
        BY <3>2, <3>3, <3>4
    <2> QED
      BY <2>1, <2>2
  <1> QED
    BY <1>1, <1>2 DEF ListTypes

(* What a cut leaves; every segment that is not the first gets a new name, *)
(* or collided says so.                                                    *)
LEMMA CutEffect ==
  ASSUME SendCut
  PROVE  /\ spc = "parse" /\ spc' = "mux"
         /\ UNCHANGED <<queue, closed, p, muxed, wVars, endVars>>
         /\ \/ /\ SetItem /\ collided' = (collided \/ (seq > 0 /\ name' = name))
               /\ seq' = seq + 1 /\ name' \in {name, name + 1}
               /\ segment # <<>> /\ last - first >= Duration
               /\ segments' = Append(segments, segment \o cache)
               /\ segment' = <<>> /\ cache' = <<>> /\ first' = -1 /\ last' = last
            \/ UNCHANGED segVars
  BY DEF SendCut, Cut, segVars

LEMMA TypesCut ==
  ASSUME HlsAssumption, AllTypes, SendCut
  PROVE  AllTypes'
  <1>1. spc' = "mux" /\ UNCHANGED <<queue, closed, p, muxed, wVars, endVars>>
    BY CutEffect
  <1>2. QueueTypes' /\ WriterTypes'
    BY <1>1 DEF AllTypes, QueueTypes, WriterTypes, wVars
  <1>3. CASE UNCHANGED segVars
    <2>1. EndTypes' /\ ListTypes' /\ SegmentTypes'
      BY <1>1, <1>3 DEF AllTypes, EndTypes, ListTypes, SegmentTypes, segVars, wVars, endVars
    <2> QED
      BY <1>2, <2>1 DEF AllTypes
  <1>4. CASE /\ SetItem /\ collided' = (collided \/ (seq > 0 /\ name' = name))
             /\ seq' = seq + 1 /\ name' \in {name, name + 1}
             /\ segment' = <<>> /\ cache' = <<>> /\ first' = -1 /\ last' = last
    <2>1. EndTypes'
      <3>1. collided' \in BOOLEAN
        BY <1>4
      <3> QED
        BY <1>1, <3>1 DEF AllTypes, EndTypes, endVars
    <2>2. ListTypes'
      <3>1. name' \in Nat /\ seq' \in Nat
        BY <1>4 DEF AllTypes, ListTypes
      <3> QED
        BY <1>4, <3>1, ListTypesSet DEF AllTypes
    <2>3. SegmentTypes'
      <3>1. MaxFrames \in Nat \ {0}
        BY DEF HlsAssumption
      <3>2. first' \in Nat \cup {-1} /\ Len(cache') < MaxFrames
        BY <1>4, <3>1
      <3> QED
        BY <1>1, <1>4, <3>2 DEF AllTypes, SegmentTypes
    <2> QED
      BY <1>2, <2>1, <2>2, <2>3 DEF AllTypes
  <1> QED
    BY <1>3, <1>4, CutEffect

LEMMA WindowSet ==
  ASSUME HlsAssumption, ListTypes, WindowInv, SetItem,
         collided' = (collided \/ (seq > 0 /\ name' = name)),
         seq' = seq + 1, name' \in {name, name + 1}
  PROVE  WindowInv'
  <1> SUFFICES ASSUME ~collided'
               PROVE  /\ Increasing(ll') /\ \A k \in 1 .. Len(ll') : ll'[k] <= name'
                      /\ \A k \in 1 .. Len(ll') :
                            ll'[k] \in DOMAIN lm' /\ lm'[ll'[k]] = (seq' - Len(ll')) + k
                      /\ Len(ll') = IF seq' < Window THEN seq' ELSE Window
    BY DEF WindowInv
  <1>1. /\ name \in Nat /\ name' \in Nat /\ seq \in Nat /\ Window \in Nat \ {0}
        /\ ll \in Seq(Nat) /\ \A k \in 1 .. Len(ll) : ll[k] \in Nat
    BY ElementOfSeq DEF ListTypes, HlsAssumption
  <1>2. /\ Increasing(ll) /\ \A k \in 1 .. Len(ll) : ll[k] <= name
        /\ \A k \in 1 .. Len(ll) : ll[k] \in DOMAIN lm /\ lm[ll[k]] = (seq - Len(ll)) + k
        /\ Len(ll) = IF seq < Window THEN seq ELSE Window
    BY DEF WindowInv
  <1>3. /\ ll' \in Seq(Nat) /\ Len(ll) \in Nat /\ Len(ll) <= Window /\ Shift \in {0, 1}
        /\ Shift <= Len(ll) /\ Len(ll') = (Len(ll) - Shift) + 1
        /\ \A i \in 1 .. Len(ll) - Shift : ll'[i] = ll[i + Shift]
        /\ ll'[Len(ll')] = name'
        /\ DOMAIN lm' = (IF Shift = 1 THEN DOMAIN lm \ {ll[1]} ELSE DOMAIN lm) \cup {name'}
        /\ \A n \in DOMAIN lm' : lm'[n] = IF n = name' THEN seq' ELSE lm[n]
    BY <1>1, ListEffect
  <1>4. \A k \in 1 .. Len(ll) : ll[k] < name'
    <2>1. CASE seq = 0
      BY <1>1, <1>2, <2>1
    <2>2. CASE seq > 0
      <3>1. name' = name + 1
        BY <2>2
      <3> QED
        BY <1>1, <1>2, <3>1
    <2> QED
      BY <1>1, <2>1, <2>2
  <1>5. Len(ll') = IF seq' < Window THEN seq' ELSE Window
    BY <1>1, <1>2, <1>3 DEF Shift
  <1>6. ASSUME NEW k \in 1 .. Len(ll'), k # Len(ll')
        PROVE  /\ k + Shift \in 1 .. Len(ll) /\ ll'[k] = ll[k + Shift]
               /\ Shift = 1 => k + Shift > 1
    BY <1>3, <1>6
  <1>7. ASSUME NEW k \in 1 .. Len(ll')
        PROVE  /\ ll'[k] <= name' /\ (k # Len(ll') => ll'[k] < name')
               /\ ll'[k] \in DOMAIN lm' /\ lm'[ll'[k]] = (seq' - Len(ll')) + k
    <2>1. CASE k = Len(ll')
      <3>1. ll'[k] = name' /\ lm'[name'] = seq'
        BY <1>3, <2>1
      <3>2. seq' = (seq' - Len(ll')) + k
        BY <1>1, <1>3, <2>1
      <3> QED
        BY <1>1, <1>3, <2>1, <3>1, <3>2
    <2>2. CASE k # Len(ll')
      <3> DEFINE j == k + Shift
      <3>1. j \in 1 .. Len(ll) /\ ll'[k] = ll[j] /\ (Shift = 1 => j > 1)
        BY <1>6, <2>2
      <3>2. (seq - Len(ll)) + j = (seq' - Len(ll')) + k
        BY <1>1, <1>3
      <3> HIDE DEF j
      <3>3. ll[j] < name' /\ ll[j] \in Nat /\ ll[j] # name'
        BY <1>1, <1>4, <3>1
      <3>4. ll[j] \in DOMAIN lm /\ lm[ll[j]] = (seq - Len(ll)) + j
        BY <1>2, <3>1
      <3>5. Shift = 1 => ll[j] # ll[1]
        <4>1. ASSUME Shift = 1
              PROVE  1 \in 1 .. Len(ll) /\ 1 < j
          BY <1>3, <3>1, <4>1
        <4>2. ASSUME Shift = 1
              PROVE  ll[1] < ll[j]
          BY <1>2, <3>1, <4>1, <4>2 DEF Increasing
        <4> QED
          BY <1>1, <3>1, <4>1, <4>2
      <3>6. ll[j] \in DOMAIN lm'
        BY <1>3, <3>4, <3>5
      <3>7. lm'[ll[j]] = lm[ll[j]]
        BY <1>3, <3>3, <3>6
      <3> QED
        BY <1>1, <3>1, <3>2, <3>3, <3>4, <3>6, <3>7
    <2> QED
      BY <2>1, <2>2
  <1>8. Increasing(ll')
    <2> SUFFICES ASSUME NEW i \in 1 .. Len(ll'), NEW j \in 1 .. Len(ll'), i < j
                 PROVE  ll'[i] < ll'[j]
      BY DEF Increasing
    <2>1. i # Len(ll')
      BY <1>3
    <2>2. CASE j = Len(ll')
      BY <1>3, <1>7, <2>1, <2>2
    <2>3. CASE j # Len(ll')
      <3>1. /\ i + Shift \in 1 .. Len(ll) /\ ll'[i] = ll[i + Shift]
            /\ j + Shift \in 1 .. Len(ll) /\ ll'[j] = ll[j + Shift]
        BY <1>6, <2>1, <2>3
      <3>2. i + Shift < j + Shift
        BY <1>3
      <3> QED
        BY <1>2, <3>1, <3>2 DEF Increasing
    <2> QED
      BY <2>2, <2>3
  <1> QED
    BY <1>5, <1>7, <1>8

LEMMA WindowKeeps ==
  ASSUME WindowInv, UNCHANGED <<collided, ll, lm, seq, name>>
  PROVE  WindowInv'
  BY DEF WindowInv, Increasing

-----------------------------------------------------------------------------
(* What SendMux adds: the frame in hand, to the segment or to the cache.   *)
Filled ==
    /\ first' = (IF first = -1 THEN p.ts ELSE first) /\ last' = p.ts
    /\ muxed' = Append(muxed, p)
    /\ \/ Video(p) /\ segment' = Append(segment, p) /\ cache' = cache
       \/ /\ ~Video(p) /\ segment' = segment /\ cache' = Append(cache, p)
          /\ Len(cache) + 1 < MaxFrames
       \/ ~Video(p) /\ segment' = segment \o Append(cache, p) /\ cache' = <<>>

LEMMA MuxEffect ==
  ASSUME SendMux
  PROVE  /\ spc = "mux" /\ spc' = "loop"
         /\ UNCHANGED <<queue, closed, p, seq, ll, lm, name, segments, collided, wVars, endVars>>
         /\ \/ UNCHANGED <<segment, cache, first, last, muxed>>
            \/ /\ Filled
               /\ segment = <<>> => p.kind = "key" /\ segment' = Append(segment, p) /\ cache' = cache
  <1>1. /\ spc = "mux" /\ spc' = "loop"
        /\ UNCHANGED <<queue, closed, p, seq, ll, lm, name, segments, collided, wVars, endVars>>
    BY DEF SendMux
  <1>2. CASE segment = <<>> /\ p.kind # "key"
    BY <1>1, <1>2 DEF SendMux
  <1>3. CASE ~(segment = <<>> /\ p.kind # "key")
    <2>1. p.kind = "key" => Video(p)
      BY DEF Video
    <2>2. /\ first' = (IF first = -1 THEN p.ts ELSE first) /\ last' = p.ts
          /\ muxed' = Append(muxed, p)
          /\ IF Video(p) THEN segment' = Append(segment, p) /\ UNCHANGED cache
             ELSE IF Len(cache) + 1 < MaxFrames THEN cache' = Append(cache, p) /\ UNCHANGED segment
             ELSE segment' = segment \o Append(cache, p) /\ cache' = <<>>
      BY <1>3 DEF SendMux
    <2>3. Filled
      BY <2>2 DEF Filled
    <2> QED
      BY <1>1, <1>3, <2>1, <2>2, <2>3
  <1> QED
    BY <1>2, <1>3

(* What joining two sequences of frames gives.                             *)
LEMMA Joined ==
  ASSUME NEW s \in Seq(Frame), NEW c \in Seq(Frame)
  PROVE  /\ s \o c \in Seq(Frame) /\ Len(s) \in Nat /\ Len(c) \in Nat
         /\ Len(s \o c) = Len(s) + Len(c)
         /\ \A i \in 1 .. Len(s) : (s \o c)[i] = s[i]
         /\ \A i \in 1 .. Len(c) : (s \o c)[Len(s) + i] = c[i]
         /\ s # <<>> => 1 \in 1 .. Len(s)
         /\ \A i \in 1 .. Len(s) + Len(c) :
               i \in 1 .. Len(s) \/ (i - Len(s) \in 1 .. Len(c) /\ (s \o c)[i] = c[i - Len(s)])
  <1>1. s \o c \in Seq(Frame) /\ Len(s) \in Nat /\ Len(c) \in Nat
    OBVIOUS
  <1>2. Len(s \o c) = Len(s) + Len(c)
    OBVIOUS
  <1>3. \A i \in 1 .. Len(s) + Len(c) :
           (s \o c)[i] = IF i <= Len(s) THEN s[i] ELSE c[i - Len(s)]
    OBVIOUS
  <1>4. \A i \in 1 .. Len(s) : (s \o c)[i] = s[i]
    BY <1>1, <1>3
  <1>5. \A i \in 1 .. Len(c) : (s \o c)[Len(s) + i] = c[i]
    <2> TAKE i \in 1 .. Len(c)
    <2>1. Len(s) + i \in 1 .. Len(s) + Len(c) /\ ~(Len(s) + i <= Len(s)) /\ (Len(s) + i) - Len(s) = i
      BY <1>1
    <2> QED
      BY <1>3, <2>1
  <1>6. s # <<>> => 1 \in 1 .. Len(s)
    OBVIOUS
  <1>7. \A i \in 1 .. Len(s) + Len(c) :
           i \in 1 .. Len(s) \/ (i - Len(s) \in 1 .. Len(c) /\ (s \o c)[i] = c[i - Len(s)])
    BY <1>1, <1>3
  <1> QED
    BY <1>1, <1>2, <1>4, <1>5, <1>6, <1>7

(* The frame in hand joins what the segment and the cache hold.            *)
LEMMA HoldsJoined ==
  ASSUME NEW s \in Seq(Frame), NEW c \in Seq(Frame), NEW x
  PROVE  Holds(s \o c, <<>>, x) <=> Holds(s, c, x)
  <1>1. /\ Len(s) \in Nat /\ Len(c) \in Nat /\ Len(s \o c) = Len(s) + Len(c)
        /\ \A i \in 1 .. Len(s) : (s \o c)[i] = s[i]
        /\ \A i \in 1 .. Len(c) : (s \o c)[Len(s) + i] = c[i]
        /\ \A i \in 1 .. Len(s) + Len(c) :
              i \in 1 .. Len(s) \/ (i - Len(s) \in 1 .. Len(c) /\ (s \o c)[i] = c[i - Len(s)])
    BY Joined
  <1>2. ASSUME NEW n \in 1 .. Len(s \o c), (s \o c)[n] = x
        PROVE  Holds(s, c, x)
    BY <1>1, <1>2 DEF Holds
  <1>3. ASSUME NEW n \in 1 .. Len(s), s[n] = x
        PROVE  \E i \in 1 .. Len(s \o c) : (s \o c)[i] = x
    <2>1. n \in 1 .. Len(s \o c)
      BY <1>1
    <2> QED
      BY <1>1, <1>3, <2>1
  <1>4. ASSUME NEW n \in 1 .. Len(c), c[n] = x
        PROVE  \E i \in 1 .. Len(s \o c) : (s \o c)[i] = x
    <2>1. Len(s) + n \in 1 .. Len(s \o c)
      BY <1>1
    <2> QED
      BY <1>1, <1>4, <2>1
  <1>5. Len(<<>>) = 0
    OBVIOUS
  <1> QED
    BY <1>2, <1>3, <1>4, <1>5 DEF Holds

LEMMA HoldsAppend ==
  ASSUME NEW s \in Seq(Frame), NEW y \in Frame, NEW x
  PROVE  (\E n \in 1 .. Len(Append(s, y)) : Append(s, y)[n] = x)
           <=> (\E n \in 1 .. Len(s) : s[n] = x) \/ x = y
  <1>1. /\ Len(s) \in Nat /\ Len(Append(s, y)) = Len(s) + 1 /\ Append(s, y)[Len(s) + 1] = y
        /\ \A i \in 1 .. Len(s) : Append(s, y)[i] = s[i]
    BY QueueAppend
  <1>2. \A n \in 1 .. Len(s) + 1 : n \in 1 .. Len(s) \/ n = Len(s) + 1
    BY <1>1
  <1>3. Len(s) + 1 \in 1 .. Len(s) + 1 /\ \A n \in 1 .. Len(s) : n \in 1 .. Len(s) + 1
    BY <1>1
  <1> QED
    BY <1>1, <1>2, <1>3

LEMMA HoldsCached ==
  ASSUME NEW s, NEW c \in Seq(Frame), NEW y \in Frame, NEW x
  PROVE  Holds(s, Append(c, y), x) <=> Holds(s, c, x) \/ x = y
  <1>1. (\E n \in 1 .. Len(Append(c, y)) : Append(c, y)[n] = x)
          <=> (\E n \in 1 .. Len(c) : c[n] = x) \/ x = y
    BY HoldsAppend
  <1> QED
    BY <1>1, Zenon DEF Holds

LEMMA FilledHolds ==
  ASSUME HlsAssumption, SegmentTypes, Filled
  PROVE  /\ segment' \in Seq(Frame) /\ cache' \in Seq(Frame) /\ Len(cache') < MaxFrames
         /\ muxed' \in Seq(Frame)
         /\ \A x : Holds(segment', cache', x) <=> Holds(segment, cache, x) \/ x = p
  <1>1. /\ segment \in Seq(Frame) /\ cache \in Seq(Frame) /\ muxed \in Seq(Frame) /\ p \in Frame
        /\ Len(cache) < MaxFrames /\ MaxFrames \in Nat \ {0} /\ Len(cache) \in Nat
    BY DEF SegmentTypes, HlsAssumption
  <1>2. muxed' \in Seq(Frame)
    BY <1>1 DEF Filled
  <1>3. CASE segment' = Append(segment, p) /\ cache' = cache
    <2>1. \A x : Holds(segment', cache', x) <=> Holds(segment, cache, x) \/ x = p
      BY <1>1, <1>3, HoldsAppend DEF Holds
    <2> QED
      BY <1>1, <1>2, <1>3, <2>1
  <1>4. CASE segment' = segment /\ cache' = Append(cache, p) /\ Len(cache) + 1 < MaxFrames
    <2>1. \A x : Holds(segment', cache', x) <=> Holds(segment, cache, x) \/ x = p
      BY <1>1, <1>4, HoldsCached
    <2>2. Len(cache') = Len(cache) + 1 /\ cache' \in Seq(Frame)
      BY <1>1, <1>4
    <2> QED
      BY <1>1, <1>2, <1>4, <2>1, <2>2
  <1>5. CASE segment' = segment \o Append(cache, p) /\ cache' = <<>>
    <2>1. Append(cache, p) \in Seq(Frame)
      BY <1>1
    <2>2. \A x : Holds(segment', cache', x) <=> Holds(segment, Append(cache, p), x)
      BY <1>1, <1>5, <2>1, HoldsJoined
    <2>3. \A x : Holds(segment, Append(cache, p), x) <=> Holds(segment, cache, x) \/ x = p
      BY <1>1, HoldsCached
    <2>4. segment' \in Seq(Frame) /\ cache' \in Seq(Frame) /\ Len(cache') < MaxFrames
      BY <1>1, <1>5, <2>1
    <2> QED
      BY <1>2, <2>2, <2>3, <2>4
  <1> QED
    BY <1>3, <1>4, <1>5 DEF Filled

LEMMA TypesMux ==
  ASSUME HlsAssumption, AllTypes, SendMux
  PROVE  AllTypes'
  <1>1. /\ spc' = "loop"
        /\ UNCHANGED <<queue, closed, p, seq, ll, lm, name, segments, collided, wVars, endVars>>
    BY MuxEffect
  <1>2. QueueTypes' /\ WriterTypes' /\ ListTypes'
    BY <1>1 DEF AllTypes, QueueTypes, WriterTypes, ListTypes, wVars
  <1>3. EndTypes'
    BY <1>1 DEF AllTypes, EndTypes, endVars
  <1>4. SegmentTypes'
    <2>1. CASE UNCHANGED <<segment, cache, first, last, muxed>>
      BY <1>1, <2>1 DEF AllTypes, SegmentTypes
    <2>2. CASE Filled
      <3>1. /\ segment' \in Seq(Frame) /\ cache' \in Seq(Frame) /\ Len(cache') < MaxFrames
            /\ muxed' \in Seq(Frame)
        BY <2>2, FilledHolds DEF AllTypes
      <3>2. p \in Frame /\ p.ts \in Nat /\ first \in Nat \cup {-1}
        BY DEF AllTypes, SegmentTypes, Frame
      <3>3. first' \in Nat \cup {-1} /\ last' \in Nat
        BY <2>2, <3>2 DEF Filled
      <3> QED
        BY <1>1, <3>1, <3>2, <3>3 DEF SegmentTypes
    <2> QED
      BY <2>1, <2>2, MuxEffect
  <1> QED
    BY <1>2, <1>3, <1>4 DEF AllTypes

(* The other steps move a program counter or set a flag.                   *)
Flags == SendLoop \/ SendNil \/ Close
LEMMA FlagsEffect ==
  ASSUME EndTypes, Flags
  PROVE  /\ UNCHANGED <<queue, p, segVars, wVars>>
         /\ spc' = spc \/ spc' \notin {"parse", "mux"}
         /\ EndTypes'
  BY DEF Flags, SendLoop, SendNil, Close, CloseTest, CloseCleanup, CloseFlag, EndTypes, endVars,
         segVars

LEMMA TypesFlags ==
  ASSUME HlsAssumption, AllTypes, Flags
  PROVE  AllTypes'
  <1>1. UNCHANGED <<queue, p, segVars, wVars>> /\ EndTypes'
    BY FlagsEffect DEF AllTypes
  <1>2. QueueTypes' /\ WriterTypes' /\ SegmentTypes' /\ ListTypes'
    BY <1>1 DEF AllTypes, QueueTypes, WriterTypes, SegmentTypes, ListTypes, segVars, wVars
  <1> QED
    BY <1>1, <1>2 DEF AllTypes

-----------------------------------------------------------------------------
(* No frame is in two places.                                              *)
LEMMA FreshWrite ==
  ASSUME HlsAssumption, AllTypes, FreshInv, Write
  PROVE  FreshInv'
  <1>1. Types
    BY TypesSplit
  <1>2. spc' = spc /\ p' = p /\ muxed' = muxed
    BY DEF Write, segVars
  <1>3. /\ queue \in Seq(Frame) /\ Len(queue) \in Nat /\ \A k \in 1 .. Len(queue) : queue[k].id \in Nat
        /\ muxed \in Seq(Frame) /\ Len(muxed) \in Nat /\ \A n \in 1 .. Len(muxed) : muxed[n].id \in Nat
    BY FrameAt DEF AllTypes, QueueTypes, SegmentTypes
  <1>4. written \in Nat /\ p \in Frame /\ p.id \in Nat
    BY DEF AllTypes, WriterTypes, SegmentTypes, Frame
  <1>5. CASE queue' = queue
    <2>1. written' \in Nat /\ written' >= written
      BY <1>1, <1>4, WriteEffect
    <2> QED
      BY <1>2, <1>3, <1>4, <1>5, <2>1 DEF FreshInv, Distinct
  <1>6. ASSUME NEW kind \in Kinds, written' = written + 1, now' \in Nat,
               queue' = Append(queue, [id |-> written + 1, kind |-> kind, ts |-> now'])
        PROVE  FreshInv'
    <2> DEFINE x == [id |-> written + 1, kind |-> kind, ts |-> now']
    <2>1. x \in Frame /\ x.id = written + 1
      BY <1>4, <1>6 DEF Frame
    <2>2. queue' = Append(queue, x)
      BY <1>6
    <2> HIDE DEF x
    <2>3. /\ Len(queue') = Len(queue) + 1 /\ queue'[Len(queue) + 1] = x
          /\ \A i \in 1 .. Len(queue) : queue'[i] = queue[i]
      BY <1>3, <2>1, <2>2, QueueAppend
    <2>4. \A i \in 1 .. Len(queue') : i \in 1 .. Len(queue) \/ i = Len(queue) + 1
      BY <1>3, <2>3
    <2>5. \A i \in 1 .. Len(queue) : queue'[i].id = queue[i].id /\ queue[i].id <= written
      BY <2>3 DEF FreshInv
    <2>6. Distinct(queue')
      <3>1. \A i, j \in 1 .. Len(queue) : queue[i].id = queue[j].id => i = j
        BY DEF FreshInv, Distinct
      <3>2. \A i \in 1 .. Len(queue) : queue'[i].id # written + 1
        BY <1>3, <1>4, <2>5
      <3> QED
        BY <2>1, <2>3, <2>4, <2>5, <3>1, <3>2 DEF Distinct
    <2>7. \A k \in 1 .. Len(queue') : queue'[k].id <= written'
      BY <1>3, <1>4, <1>6, <2>1, <2>3, <2>4, <2>5
    <2>8. ASSUME NEW y \in Nat, y <= written, \A k \in 1 .. Len(queue) : queue[k].id # y
          PROVE  y <= written' /\ \A k \in 1 .. Len(queue') : queue'[k].id # y
      BY <1>4, <1>6, <2>1, <2>3, <2>4, <2>5, <2>8
    <2>9. \A n \in 1 .. Len(muxed') :
             muxed'[n].id <= written' /\ \A k \in 1 .. Len(queue') : queue'[k].id # muxed'[n].id
      BY <1>2, <1>3, <2>8 DEF FreshInv
    <2>10. spc' \in {"parse", "mux"} =>
             /\ p'.id <= written'
             /\ \A k \in 1 .. Len(queue') : queue'[k].id # p'.id
             /\ \A n \in 1 .. Len(muxed') : muxed'[n].id # p'.id
      BY <1>2, <1>4, <2>8 DEF FreshInv
    <2> QED
      BY <2>6, <2>7, <2>9, <2>10 DEF FreshInv
  <1> QED
    BY <1>1, <1>5, <1>6, WriteEffect

(* The queue loses frames, or only their order, and p is not a new one.    *)
LEMMA FreshLeft ==
  ASSUME QueueTypes, FreshInv, Left(queue', queue), written' = written, muxed' = muxed,
         spc' \in {"parse", "mux"} => spc' = spc /\ p' = p
  PROVE  FreshInv'
  <1>1. /\ \A i \in 1 .. Len(queue') : \E j \in 1 .. Len(queue) : queue'[i] = queue[j]
        /\ Distinct(queue) => Distinct(queue')
    BY LeftElements DEF QueueTypes
  <1>2. Distinct(queue')
    BY <1>1 DEF FreshInv
  <1>3. \A k \in 1 .. Len(queue') : queue'[k].id <= written'
    BY <1>1 DEF FreshInv
  <1>4. \A n \in 1 .. Len(muxed') :
           muxed'[n].id <= written' /\ \A k \in 1 .. Len(queue') : queue'[k].id # muxed'[n].id
    BY <1>1 DEF FreshInv
  <1>5. spc' \in {"parse", "mux"} =>
           /\ p'.id <= written'
           /\ \A k \in 1 .. Len(queue') : queue'[k].id # p'.id
           /\ \A n \in 1 .. Len(muxed') : muxed'[n].id # p'.id
    BY <1>1 DEF FreshInv
  <1> QED
    BY <1>2, <1>3, <1>4, <1>5 DEF FreshInv

LEMMA FreshRecv ==
  ASSUME AllTypes, FreshInv, SendRecv
  PROVE  FreshInv'
  <1>1. written' = written /\ muxed' = muxed
    BY DEF SendRecv, wVars, segVars
  <1>2. CASE queue' = queue /\ p' = p /\ spc' = "ended"
    BY <1>1, <1>2, FreshLeft, RecvEffect DEF AllTypes
  <1>3. CASE queue # <<>> /\ queue' = Tail(queue) /\ p' = Head(queue)
    <2>1. /\ Head(queue) = queue[1] /\ Len(queue) \in Nat \ {0}
          /\ Len(queue') = Len(queue) - 1
          /\ \A i \in 1 .. Len(queue) - 1 : queue'[i] = queue[i + 1]
      BY <1>3, QueueTail DEF AllTypes, QueueTypes
    <2>2. \A i \in 1 .. Len(queue') : i + 1 \in 1 .. Len(queue) /\ i + 1 # 1 /\ queue'[i] = queue[i + 1]
      BY <2>1
    <2>3. 1 \in 1 .. Len(queue) /\ p' = queue[1]
      BY <1>3, <2>1
    <2>4. \A i \in 1 .. Len(queue') : queue'[i].id # p'.id
      BY <2>2, <2>3 DEF FreshInv, Distinct
    <2>5. p'.id <= written' /\ \A n \in 1 .. Len(muxed') : muxed'[n].id # p'.id
      BY <1>1, <2>3 DEF FreshInv
    <2>6. Distinct(queue')
      BY <2>2 DEF FreshInv, Distinct
    <2>7. \A k \in 1 .. Len(queue') : queue'[k].id <= written'
      BY <1>1, <2>2 DEF FreshInv
    <2>8. \A n \in 1 .. Len(muxed') :
             muxed'[n].id <= written' /\ \A k \in 1 .. Len(queue') : queue'[k].id # muxed'[n].id
      BY <1>1, <2>2 DEF FreshInv
    <2> QED
      BY <2>4, <2>5, <2>6, <2>7, <2>8 DEF FreshInv
  <1> QED
    BY <1>2, <1>3, RecvEffect

LEMMA FreshMux ==
  ASSUME AllTypes, FreshInv, SendMux
  PROVE  FreshInv'
  <1>1. spc = "mux" /\ spc' = "loop" /\ queue' = queue /\ p' = p /\ written' = written
    BY MuxEffect DEF wVars
  <1>2. CASE muxed' = muxed
    BY <1>1, <1>2 DEF FreshInv, Distinct
  <1>3. CASE muxed' = Append(muxed, p)
    <2>1. /\ Len(muxed) \in Nat /\ Len(muxed') = Len(muxed) + 1 /\ muxed'[Len(muxed) + 1] = p
          /\ \A i \in 1 .. Len(muxed) : muxed'[i] = muxed[i]
      BY <1>3, QueueAppend DEF AllTypes, SegmentTypes
    <2>2. \A i \in 1 .. Len(muxed') : i \in 1 .. Len(muxed) \/ i = Len(muxed) + 1
      BY <2>1
    <2>3. \A n \in 1 .. Len(muxed') :
             muxed'[n].id <= written' /\ \A k \in 1 .. Len(queue') : queue'[k].id # muxed'[n].id
      BY <1>1, <2>1, <2>2 DEF FreshInv
    <2> QED
      BY <1>1, <2>3 DEF FreshInv, Distinct
  <1> QED
    BY <1>2, <1>3, MuxEffect DEF Filled

-----------------------------------------------------------------------------
(* The segment being filled, and the ones that were cut.                   *)
LEMMA FillMux ==
  ASSUME HlsAssumption, AllTypes, FreshInv, FillInv, SendMux
  PROVE  FillInv'
  <1>1. CASE UNCHANGED <<segment, cache, first, last, muxed>>
    BY <1>1 DEF FillInv
  <1>2. CASE /\ Filled
             /\ segment = <<>> => p.kind = "key" /\ segment' = Append(segment, p) /\ cache' = cache
    <2>1. /\ segment \in Seq(Frame) /\ cache \in Seq(Frame) /\ muxed \in Seq(Frame)
          /\ p \in Frame /\ p.ts \in Nat
      BY DEF AllTypes, SegmentTypes, Frame
    <2>2. \A x : Holds(segment', cache', x) <=> Holds(segment, cache, x) \/ x = p
      BY <1>2, FilledHolds DEF AllTypes
    <2>3. /\ Len(muxed) \in Nat /\ Len(muxed') = Len(muxed) + 1 /\ muxed'[Len(muxed) + 1] = p
          /\ \A i \in 1 .. Len(muxed) : muxed'[i] = muxed[i]
      BY <1>2, <2>1, QueueAppend DEF Filled
    <2>4. \A i \in 1 .. Len(muxed') : i \in 1 .. Len(muxed) \/ i = Len(muxed) + 1
      BY <2>3
    <2>5. \A n \in 1 .. Len(muxed) : muxed[n] # p
      BY MuxEffect DEF FreshInv
    <2>6. CASE segment = <<>>
      <3>1. segment' = <<p>> /\ cache' = <<>> /\ first' = p.ts /\ last' = p.ts
        BY <1>2, <2>6 DEF FillInv, Filled
      <3>2. segment' # <<>> /\ segment'[1] = p /\ p.kind = "key"
        BY <1>2, <2>6, <3>1
      <3>3. \A x : ~Holds(segment, cache, x)
        <4>1. Len(segment) = 0 /\ Len(cache) = 0
          BY <2>6 DEF FillInv
        <4> QED
          BY <4>1 DEF Holds
      <3>4. \A n \in 1 .. Len(muxed') :
               Holds(segment', cache', muxed'[n]) => \E m \in 1 .. n : muxed'[m] = segment'[1]
        <4> SUFFICES ASSUME NEW n \in 1 .. Len(muxed'), Holds(segment', cache', muxed'[n])
                     PROVE  \E m \in 1 .. n : muxed'[m] = segment'[1]
          OBVIOUS
        <4>1. muxed'[n] = p /\ n \in 1 .. n
          BY <2>2, <3>3
        <4> QED
          BY <3>2, <4>1
      <3>5. Holds(segment', cache', p) /\ Len(muxed) + 1 \in 1 .. Len(muxed')
        BY <2>2, <2>3
      <3> QED
        BY <2>1, <2>3, <3>1, <3>2, <3>4, <3>5 DEF FillInv
    <2>7. CASE segment # <<>>
      <3>1. /\ segment[1].kind = "key" /\ segment[1].ts = first
            /\ \E m \in 1 .. Len(muxed) : muxed[m] = segment[1]
            /\ \A n \in 1 .. Len(muxed) : Holds(segment, cache, muxed[n]) =>
                  \E m \in 1 .. n : muxed[m] = segment[1]
        BY <2>7 DEF FillInv
      <3>2. 1 \in 1 .. Len(segment) /\ segment[1] \in Frame /\ segment[1].ts \in Nat
        BY <2>1, <2>7, FrameAt
      <3>3. first' = first /\ last' = p.ts
        BY <1>2, <3>1, <3>2 DEF Filled
      <3>4. segment' # <<>> /\ segment'[1] = segment[1]
        <4>1. CASE segment' = segment
          BY <2>7, <4>1
        <4>2. CASE segment' = Append(segment, p)
          BY <2>1, <3>2, <4>2
        <4>3. CASE segment' = segment \o Append(cache, p)
          <5>1. Append(cache, p) \in Seq(Frame)
            BY <2>1
          <5>2. segment'[1] = segment[1] /\ Len(segment') = Len(segment) + Len(Append(cache, p))
            BY <2>1, <3>2, <4>3, <5>1, Joined
          <5>3. Len(segment) > 0 /\ Len(Append(cache, p)) \in Nat /\ Len(segment) \in Nat
            BY <2>1, <3>2, <5>1
          <5>4. Len(segment') # 0
            BY <5>2, <5>3
          <5> QED
            BY <5>2, <5>4
        <4> QED
          BY <1>2, <4>1, <4>2, <4>3 DEF Filled
      <3>5. \A n \in 1 .. Len(muxed') :
               Holds(segment', cache', muxed'[n]) => \E m \in 1 .. n : muxed'[m] = segment'[1]
        <4> SUFFICES ASSUME NEW n \in 1 .. Len(muxed'), Holds(segment', cache', muxed'[n])
                     PROVE  \E m \in 1 .. n : muxed'[m] = segment'[1]
          OBVIOUS
        <4>1. CASE n \in 1 .. Len(muxed)
          <5>1. muxed'[n] = muxed[n] /\ muxed[n] # p
            BY <2>3, <2>5, <4>1
          <5>2. Holds(segment, cache, muxed[n])
            BY <2>2, <5>1
          <5>3. PICK m \in 1 .. n : muxed[m] = segment[1]
            BY <3>1, <4>1, <5>2
          <5>4. m \in 1 .. Len(muxed)
            BY <2>3, <4>1
          <5> QED
            BY <2>3, <3>4, <5>3, <5>4
        <4>2. CASE n = Len(muxed) + 1
          <5>1. PICK m \in 1 .. Len(muxed) : muxed[m] = segment[1]
            BY <3>1
          <5>2. m \in 1 .. n
            BY <2>3, <4>2
          <5> QED
            BY <2>3, <3>4, <5>1, <5>2
        <4> QED
          BY <2>4, <4>1, <4>2
      <3>6. \E m \in 1 .. Len(muxed') : muxed'[m] = segment'[1]
        <4>1. PICK m \in 1 .. Len(muxed) : muxed[m] = segment[1]
          BY <3>1
        <4>2. m \in 1 .. Len(muxed')
          BY <2>3
        <4> QED
          BY <2>3, <3>4, <4>1, <4>2
      <3>7. p \in Frame /\ Holds(segment', cache', p) /\ p.ts = last'
        BY <2>1, <2>2, <3>3
      <3> QED
        BY <3>1, <3>3, <3>4, <3>5, <3>6, <3>7 DEF FillInv
    <2> QED
      BY <2>6, <2>7
  <1> QED
    BY <1>1, <1>2, MuxEffect

LEMMA FillCut ==
  ASSUME FillInv, SendCut
  PROVE  FillInv'
  <1>1. CASE UNCHANGED segVars
    BY <1>1 DEF FillInv, segVars
  <1>2. CASE segment' = <<>> /\ cache' = <<>> /\ first' = -1
    BY <1>2 DEF FillInv
  <1> QED
    BY <1>1, <1>2, CutEffect

LEMMA CutCut ==
  ASSUME HlsAssumption, AllTypes, FillInv, CutInv, SendCut
  PROVE  CutInv'
  <1>1. CASE UNCHANGED segVars
    BY <1>1 DEF CutInv, segVars
  <1>2. CASE /\ segments' = Append(segments, segment \o cache)
             /\ segment # <<>> /\ last - first >= Duration
    <2> DEFINE new == segment \o cache
    <2>1. segment \in Seq(Frame) /\ cache \in Seq(Frame)
      BY DEF AllTypes, SegmentTypes
    <2>2. /\ new \in Seq(Frame) /\ Len(segment) \in Nat /\ Len(cache) \in Nat
          /\ Len(new) = Len(segment) + Len(cache)
          /\ \A i \in 1 .. Len(segment) : new[i] = segment[i]
          /\ \A i \in 1 .. Len(cache) : new[Len(segment) + i] = cache[i]
          /\ 1 \in 1 .. Len(segment)
      BY <1>2, <2>1, Joined
    <2>3. segments' = Append(segments, new)
      BY <1>2
    <2> HIDE DEF new
    <2>4. new[1].kind = "key" /\ new[1].ts = first /\ 1 \in 1 .. Len(new)
      BY <1>2, <2>2 DEF FillInv
    <2>5. \E j \in 1 .. Len(new) : new[j].ts = last
      <3>1. PICK x \in Frame : Holds(segment, cache, x) /\ x.ts = last
        BY <1>2 DEF FillInv
      <3>2. CASE \E n \in 1 .. Len(segment) : segment[n] = x
        <4>1. PICK n \in 1 .. Len(segment) : segment[n] = x
          BY <3>2
        <4>2. n \in 1 .. Len(new)
          BY <2>2
        <4> QED
          BY <2>2, <3>1, <4>1, <4>2
      <3>3. CASE \E n \in 1 .. Len(cache) : cache[n] = x
        <4>1. PICK n \in 1 .. Len(cache) : cache[n] = x
          BY <3>3
        <4>2. Len(segment) + n \in 1 .. Len(new)
          BY <2>2
        <4> QED
          BY <2>2, <3>1, <4>1, <4>2
      <3> QED
        BY <3>1, <3>2, <3>3 DEF Holds
    <2>6. \E i, j \in 1 .. Len(new) : new[j].ts - new[i].ts >= Duration
      BY <1>2, <2>4, <2>5
    <2>7. segments \in Seq(Seq(Frame))
      BY DEF CutInv
    <2>8. /\ segments' \in Seq(Seq(Frame)) /\ Len(segments) \in Nat
          /\ Len(segments') = Len(segments) + 1 /\ segments'[Len(segments) + 1] = new
          /\ \A k \in 1 .. Len(segments) : segments'[k] = segments[k]
      BY <2>2, <2>3, <2>7, AppendProperties
    <2>9. \A k \in 1 .. Len(segments') : k \in 1 .. Len(segments) \/ k = Len(segments) + 1
      BY <2>8
    <2>10. ASSUME NEW k \in 1 .. Len(segments')
           PROVE  /\ segments'[k][1].kind = "key"
                  /\ \E i, j \in 1 .. Len(segments'[k]) :
                        segments'[k][j].ts - segments'[k][i].ts >= Duration
      <3>1. CASE k \in 1 .. Len(segments)
        BY <2>8, <3>1 DEF CutInv
      <3>2. CASE k = Len(segments) + 1
        BY <2>4, <2>6, <2>8, <3>2
      <3> QED
        BY <2>9, <3>1, <3>2
    <2> QED
      BY <2>8, <2>10 DEF CutInv
  <1> QED
    BY <1>1, <1>2, CutEffect

-----------------------------------------------------------------------------
LEMMA SegmentsKeep ==
  ASSUME WindowInv, FillInv, CutInv, UNCHANGED segVars
  PROVE  WindowInv' /\ FillInv' /\ CutInv'
  <1>1. WindowInv'
    BY WindowKeeps DEF segVars
  <1>2. FillInv' /\ CutInv'
    BY DEF FillInv, CutInv, segVars
  <1> QED
    BY <1>1, <1>2

LEMMA HlsInit == Init => HlsInv
  <1> SUFFICES ASSUME Init
               PROVE  HlsInv
    OBVIOUS
  <1>1. TypeOK /\ Types
    BY HlsAssumption, TypesInit, TypesSplit
  <1>2. Window \in Nat \ {0}
    BY HlsAssumption DEF HlsAssumption
  <1>3. WindowInv
    BY <1>2 DEF Init, WindowInv, Increasing
  <1>4. FreshInv
    BY DEF Init, FreshInv, Distinct
  <1>5. FillInv
    BY DEF Init, FillInv
  <1>6. CutInv
    BY DEF Init, CutInv
  <1> QED
    BY <1>1, <1>3, <1>4, <1>5, <1>6 DEF HlsInv

LEMMA HlsStep == HlsInv /\ [Next]_vars => HlsInv'
  <1> SUFFICES ASSUME HlsInv, [Next]_vars
               PROVE  HlsInv'
    OBVIOUS
  <1>1. HlsAssumption /\ AllTypes /\ WindowInv /\ FreshInv /\ FillInv /\ CutInv
    BY HlsAssumption, TypesSplit DEF HlsInv
  <1> SUFFICES AllTypes' /\ WindowInv' /\ FreshInv' /\ FillInv' /\ CutInv'
    <2>1. AllTypes' => TypeOK' /\ Types'
      BY TypesSplit, PTL
    <2> QED
      BY <2>1 DEF HlsInv
  <1>2. CASE Write
    <2>1. UNCHANGED segVars
      BY <1>2 DEF Write
    <2> QED
      BY <1>1, <1>2, <2>1, TypesWrite, FreshWrite, SegmentsKeep
  <1>3. CASE DropPacket
    <2>1. UNCHANGED segVars /\ spc' = spc /\ p' = p /\ written' = written /\ muxed' = muxed
      BY <1>3 DEF DropPacket, segVars
    <2>2. FreshInv'
      BY <1>1, <1>3, <2>1, DropEffect, FreshLeft DEF AllTypes
    <2> QED
      BY <1>1, <1>3, <2>1, <2>2, TypesDrop, SegmentsKeep
  <1>4. CASE SendRecv
    <2>1. UNCHANGED segVars
      BY <1>4 DEF SendRecv
    <2> QED
      BY <1>1, <1>4, <2>1, TypesRecv, FreshRecv, SegmentsKeep
  <1>5. CASE SendCut
    <2>1. FreshInv'
      <3>1. /\ spc = "parse" /\ spc' = "mux" /\ queue' = queue /\ p' = p
            /\ muxed' = muxed /\ written' = written
        BY <1>5, CutEffect DEF wVars
      <3> QED
        BY <1>1, <3>1 DEF FreshInv, Distinct
    <2>2. WindowInv'
      <3>1. CASE UNCHANGED segVars
        BY <1>1, <3>1, SegmentsKeep
      <3>2. CASE /\ SetItem /\ collided' = (collided \/ (seq > 0 /\ name' = name))
                 /\ seq' = seq + 1 /\ name' \in {name, name + 1}
        BY <1>1, <3>2, WindowSet DEF AllTypes
      <3> QED
        BY <1>5, <3>1, <3>2, CutEffect
    <2> QED
      BY <1>1, <1>5, <2>1, <2>2, TypesCut, FillCut, CutCut
  <1>6. CASE SendMux
    <2>1. WindowInv'
      BY <1>1, <1>6, MuxEffect, WindowKeeps
    <2>2. CutInv'
      <3>1. segments' = segments
        BY <1>6, MuxEffect
      <3> QED
        BY <1>1, <3>1 DEF CutInv
    <2> QED
      BY <1>1, <1>6, <2>1, <2>2, TypesMux, FreshMux, FillMux
  <1>7. CASE Flags
    <2>1. /\ UNCHANGED <<queue, p, segVars, wVars>>
          /\ spc' = spc \/ spc' \notin {"parse", "mux"}
      BY <1>1, <1>7, FlagsEffect DEF AllTypes
    <2>2. FreshInv'
      <3>1. Left(queue', queue) /\ written' = written /\ muxed' = muxed
        BY <2>1 DEF Left, wVars, segVars
      <3> QED
        BY <1>1, <2>1, <3>1, FreshLeft DEF AllTypes
    <2> QED
      BY <1>1, <1>7, <2>1, <2>2, TypesFlags, SegmentsKeep
  <1>8. CASE UNCHANGED vars
    <2>1. UNCHANGED segVars /\ spc' = spc /\ p' = p /\ written' = written /\ muxed' = muxed
      BY <1>8 DEF vars, segVars, wVars
    <2>2. FreshInv'
      <3>1. Left(queue', queue)
        BY <1>8 DEF Left, vars
      <3> QED
        BY <1>1, <2>1, <3>1, FreshLeft DEF AllTypes
    <2>3. AllTypes'
      BY <1>1, <1>8 DEF vars, AllTypes, EndTypes, QueueTypes, WriterTypes, SegmentTypes, ListTypes,
                        segVars, wVars, endVars
    <2> QED
      BY <1>1, <2>1, <2>2, <2>3, SegmentsKeep
  <1> QED
    BY <1>2, <1>3, <1>4, <1>5, <1>6, <1>7, <1>8 DEF Next, SendPacket, Flags

(* HlsInv holds in every state the HLS source reaches.                     *)
THEOREM HlsInvariant == Spec => []HlsInv
  BY HlsInit, HlsStep, PTL DEF Spec

(* The playlist of tsCache offers exactly the last Window segments that    *)
(* were cut, oldest first and none missing, until two cuts fall in the     *)
(* same second: the file names that SetItem lists and maps stay in step.   *)
THEOREM PlaylistIsWindow == Spec => []PlaylistWindow
  <1>1. HlsInv => PlaylistWindow
    <2> SUFFICES ASSUME HlsInv, ~collided
                 PROVE  /\ Playlist = [k \in 1 .. Len(ll) |-> seq - Len(ll) + k]
                        /\ Len(ll) = IF seq < Window THEN seq ELSE Window
      BY DEF HlsInv, PlaylistWindow
    <2>1. /\ \A k \in 1 .. Len(ll) : ll[k] \in DOMAIN lm /\ lm[ll[k]] = (seq - Len(ll)) + k
          /\ Len(ll) = IF seq < Window THEN seq ELSE Window
      BY DEF HlsInv, WindowInv
    <2>2. DOMAIN ll = 1 .. Len(ll)
      BY DEF HlsInv, Types
    <2>3. {j \in DOMAIN ll : ll[j] \in DOMAIN lm} = 1 .. Len(ll)
      BY <2>1, <2>2
    <2>4. Playlist = [k \in 1 .. Len(ll) |-> lm[ll[k]]]
      BY <2>3 DEF Playlist
    <2> QED
      BY <2>1, <2>4
  <1> QED
    BY <1>1, HlsInvariant, PTL

(* Every segment that cut hands to the playlist begins with a key frame    *)
(* and spans at least Duration, and nothing that was muxed before the key  *)
(* frame of the segment being filled is in it.                             *)
THEOREM SegmentsStandAlone == Spec => []SegmentBoundary
  <1>1. HlsInv => SegmentBoundary
    <2> SUFFICES ASSUME HlsInv
                 PROVE  SegmentBoundary
      OBVIOUS
    <2>1. ASSUME NEW k \in DOMAIN segments
          PROVE  /\ segments[k][1].kind = "key"
                 /\ \E x, y \in {segments[k][n].ts : n \in DOMAIN segments[k]} : y - x >= Duration
      <3>1. segments \in Seq(Seq(Frame)) /\ k \in 1 .. Len(segments)
        BY DEF HlsInv, CutInv
      <3>2. segments[k] \in Seq(Frame)
        BY <3>1, ElementOfSeq
      <3>3. DOMAIN segments[k] = 1 .. Len(segments[k])
        BY <3>2
      <3>4. PICK i \in 1 .. Len(segments[k]), j \in 1 .. Len(segments[k]) :
               segments[k][j].ts - segments[k][i].ts >= Duration
        BY <3>1 DEF HlsInv, CutInv
      <3>5. segments[k][1].kind = "key"
        BY <3>1 DEF HlsInv, CutInv
      <3> QED
        BY <3>3, <3>4, <3>5
    <2>2. ASSUME NEW n \in DOMAIN muxed, segment # <<>>, muxed[n] \in ToSet(segment \o cache)
          PROVE  \E m \in 1 .. n : muxed[m] = segment[1]
      <3>1. segment \in Seq(Frame) /\ cache \in Seq(Frame) /\ muxed \in Seq(Frame)
        BY DEF HlsInv, Types
      <3>2. n \in 1 .. Len(muxed)
        BY <3>1
      <3>3. segment \o cache \in Seq(Frame)
        BY <3>1
      <3>4. PICK i \in DOMAIN (segment \o cache) : (segment \o cache)[i] = muxed[n]
        BY <2>2 DEF ToSet
      <3>5. i \in 1 .. Len(segment \o cache)
        BY <3>3
      <3>6. Holds(segment \o cache, <<>>, muxed[n])
        BY <3>4, <3>5 DEF Holds
      <3>7. Holds(segment, cache, muxed[n])
        BY <3>1, <3>6, HoldsJoined
      <3> QED
        BY <2>2, <3>2, <3>7 DEF HlsInv, FillInv
    <2> QED
      BY <2>1, <2>2 DEF SegmentBoundary
  <1> QED
    BY <1>1, HlsInvariant, PTL

-----------------------------------------------------------------------------
(* Every frame in one place and in order.  A spot is a place of MediaInOrder *)
(* with the frame that is there.                                           *)
Spots == [part : Nat, at : Nat, frame : Frame]
Part(g, s, c, k) == IF k <= Len(g) THEN g[k] ELSE IF k = Len(g) + 1 THEN s ELSE c
Where(g, s, c) ==
    {t \in Spots : /\ t.part \in 1 .. Len(g) + 2
                   /\ t.at \in 1 .. Len(Part(g, s, c, t.part))
                   /\ t.frame = Part(g, s, c, t.part)[t.at]}

Before(t, v) == t.part < v.part \/ (t.part = v.part /\ t.at <= v.at)
Alike(x, y) == Video(x) <=> Video(y)
Placed(T, u) ==
    /\ \A t \in T : \E i \in 1 .. Len(u) : u[i] = t.frame
    /\ \A i \in 1 .. Len(u) : \E t \in T : t.frame = u[i]
    /\ \A t, v \in T, i, j \in 1 .. Len(u) :
          (i <= j /\ t.frame = u[i] /\ v.frame = u[j] /\ Alike(t.frame, v.frame)) => Before(t, v)

(* What makes MediaInOrder inductive, beside HlsInv: no video waits in the *)
(* audio cache, or a later frame would overtake it.                        *)
OrderInv ==
    /\ Placed(Where(segments, segment, cache), muxed)
    /\ \A n \in 1 .. Len(cache) : ~Video(cache[n])

(* A frame muxed last may go to a spot behind all that are like it.        *)
LEMMA PlacedAdd ==
  ASSUME NEW T \in SUBSET Spots, NEW u \in Seq(Frame), Placed(T, u), NEW t \in Spots,
         \A i \in 1 .. Len(u) : u[i] # t.frame,
         \A v \in T : Alike(v.frame, t.frame) => Before(v, t)
  PROVE  Placed(T \union {t}, Append(u, t.frame))
  <1> DEFINE w == Append(u, t.frame)
  <1>1. t.frame \in Frame /\ t.part \in Nat /\ t.at \in Nat
    BY DEF Spots
  <1>2. /\ Len(u) \in Nat /\ Len(w) = Len(u) + 1 /\ w[Len(u) + 1] = t.frame
        /\ \A i \in 1 .. Len(u) : w[i] = u[i]
    BY <1>1, QueueAppend
  <1> HIDE DEF w
  <1>3. \A i \in 1 .. Len(w) : i \in 1 .. Len(u) \/ i = Len(u) + 1
    BY <1>2
  <1>4. Len(u) + 1 \in 1 .. Len(w) /\ \A i \in 1 .. Len(u) : i \in 1 .. Len(w)
    BY <1>2
  <1>5. \A v \in T \union {t} : \E i \in 1 .. Len(w) : w[i] = v.frame
    BY <1>2, <1>4 DEF Placed
  <1>6. \A i \in 1 .. Len(w) : \E v \in T \union {t} : v.frame = w[i]
    BY <1>2, <1>3 DEF Placed
  <1>7. ASSUME NEW x \in T \union {t}, NEW y \in T \union {t},
               NEW i \in 1 .. Len(w), NEW j \in 1 .. Len(w),
               i <= j, x.frame = w[i], y.frame = w[j], Alike(x.frame, y.frame)
        PROVE  Before(x, y)
    <2>1. CASE y = t
      <3>1. CASE x = t
        BY <1>1, <2>1, <3>1 DEF Before
      <3>2. CASE x \in T
        BY <1>7, <2>1, <3>2
      <3> QED
        BY <3>1, <3>2
    <2>2. CASE y \in T
      <3>1. y.frame # t.frame
        BY <2>2 DEF Placed
      <3>2. j \in 1 .. Len(u)
        BY <1>2, <1>3, <1>7, <3>1
      <3>3. i \in 1 .. Len(u)
        BY <1>2, <1>7, <3>2
      <3>4. x.frame = u[i] /\ y.frame = u[j]
        BY <1>2, <1>7, <3>2, <3>3
      <3>5. x \in T
        BY <3>3, <3>4
      <3> QED
        BY <1>7, <2>2, <3>2, <3>3, <3>4, <3>5 DEF Placed
    <2> QED
      BY <2>1, <2>2
  <1> QED
    BY <1>5, <1>6, <1>7 DEF Placed, w

(* Frames may move together as long as none overtakes another.             *)
LEMMA PlacedMove ==
  ASSUME NEW T \in SUBSET Spots, NEW U \in SUBSET Spots, NEW u \in Seq(Frame), Placed(T, u),
         NEW F \in [T -> U],
         \A v \in U : \E t \in T : F[t] = v,
         \A t \in T : F[t].frame = t.frame,
         \A t, v \in T : Before(t, v) => Before(F[t], F[v])
  PROVE  Placed(U, u)
  <1>1. \A v \in U : \E i \in 1 .. Len(u) : u[i] = v.frame
    BY DEF Placed
  <1>2. \A i \in 1 .. Len(u) : \E v \in U : v.frame = u[i]
    BY DEF Placed
  <1>3. ASSUME NEW x \in U, NEW y \in U, NEW i \in 1 .. Len(u), NEW j \in 1 .. Len(u),
               i <= j, x.frame = u[i], y.frame = u[j], Alike(x.frame, y.frame)
        PROVE  Before(x, y)
    <2>1. PICK t \in T : F[t] = x
      OBVIOUS
    <2>2. PICK v \in T : F[v] = y
      OBVIOUS
    <2>3. t.frame = x.frame /\ v.frame = y.frame
      BY <2>1, <2>2
    <2>4. Before(t, v)
      BY <1>3, <2>3 DEF Placed
    <2> QED
      BY <2>1, <2>2, <2>4
  <1> QED
    BY <1>1, <1>2, <1>3 DEF Placed

LEMMA PartCases ==
  ASSUME NEW n \in Nat, NEW k \in 1 .. n + 2
  PROVE  k \in 1 .. n \/ k = n + 1 \/ k = n + 2
  OBVIOUS

Spot(k, n, x) == [part |-> k, at |-> n, frame |-> x]
LEMMA SpotIs ==
  ASSUME NEW k \in Nat, NEW n \in Nat, NEW x \in Frame
  PROVE  /\ Spot(k, n, x) \in Spots
         /\ Spot(k, n, x).part = k /\ Spot(k, n, x).at = n /\ Spot(k, n, x).frame = x
         /\ \A t \in Spots : t = Spot(k, n, x) <=> t.part = k /\ t.at = n /\ t.frame = x
  BY DEF Spot, Spots

(* A frame at the end of a sequence.                                       *)
LEMMA LastSpot ==
  ASSUME NEW s \in Seq(Frame), NEW x \in Frame, NEW n \in Nat, NEW y
  PROVE  (n \in 1 .. Len(Append(s, x)) /\ y = Append(s, x)[n])
           <=> (n \in 1 .. Len(s) /\ y = s[n]) \/ (n = Len(s) + 1 /\ y = x)
  <1>1. /\ Len(s) \in Nat /\ Len(Append(s, x)) = Len(s) + 1 /\ Append(s, x)[Len(s) + 1] = x
        /\ \A i \in 1 .. Len(s) : Append(s, x)[i] = s[i]
    BY QueueAppend
  <1>2. n \in 1 .. Len(s) + 1 <=> n \in 1 .. Len(s) \/ n = Len(s) + 1
    BY <1>1
  <1> QED
    BY <1>1, <1>2

LEMMA WhereVideo ==
  ASSUME NEW g \in Seq(Seq(Frame)), NEW s \in Seq(Frame), NEW c, NEW x \in Frame
  PROVE  Where(g, Append(s, x), c) = Where(g, s, c) \union {Spot(Len(g) + 1, Len(s) + 1, x)}
  <1> DEFINE a == Append(s, x)
  <1>1. Len(g) \in Nat /\ Len(s) \in Nat
    OBVIOUS
  <1>2. Spot(Len(g) + 1, Len(s) + 1, x) \in Spots
    BY <1>1, SpotIs
  <1>3. ASSUME NEW t \in Spots
        PROVE  t \in Where(g, a, c)
                 <=> t \in Where(g, s, c) \/ t = Spot(Len(g) + 1, Len(s) + 1, x)
    <2>1. t.part \in Nat /\ t.at \in Nat
      BY DEF Spots
    <2>2. t = Spot(Len(g) + 1, Len(s) + 1, x)
            <=> t.part = Len(g) + 1 /\ t.at = Len(s) + 1 /\ t.frame = x
      BY <1>1, SpotIs
    <2>3. CASE t.part = Len(g) + 1
      <3>1. Part(g, a, c, t.part) = a /\ Part(g, s, c, t.part) = s /\ t.part \in 1 .. Len(g) + 2
        BY <1>1, <2>3 DEF Part
      <3>2. (t.at \in 1 .. Len(a) /\ t.frame = a[t.at])
              <=> (t.at \in 1 .. Len(s) /\ t.frame = s[t.at]) \/ (t.at = Len(s) + 1 /\ t.frame = x)
        BY <2>1, LastSpot
      <3> HIDE DEF a
      <3> QED
        BY <2>2, <2>3, <3>1, <3>2 DEF Where
    <2>4. CASE t.part # Len(g) + 1
      <3>1. Part(g, a, c, t.part) = Part(g, s, c, t.part)
        BY <2>4 DEF Part
      <3> HIDE DEF a
      <3> QED
        BY <2>2, <2>4, <3>1 DEF Where
    <2> QED
      BY <2>3, <2>4
  <1>4. Where(g, a, c) \subseteq Spots /\ Where(g, s, c) \subseteq Spots
    BY DEF Where
  <1> QED
    BY <1>2, <1>3, <1>4

LEMMA WhereAudio ==
  ASSUME NEW g \in Seq(Seq(Frame)), NEW s, NEW c \in Seq(Frame), NEW x \in Frame
  PROVE  Where(g, s, Append(c, x)) = Where(g, s, c) \union {Spot(Len(g) + 2, Len(c) + 1, x)}
  <1> DEFINE a == Append(c, x)
  <1>1. Len(g) \in Nat /\ Len(c) \in Nat
    OBVIOUS
  <1>2. Spot(Len(g) + 2, Len(c) + 1, x) \in Spots
    BY <1>1, SpotIs
  <1>3. ASSUME NEW t \in Spots
        PROVE  t \in Where(g, s, a)
                 <=> t \in Where(g, s, c) \/ t = Spot(Len(g) + 2, Len(c) + 1, x)
    <2>1. t.part \in Nat /\ t.at \in Nat
      BY DEF Spots
    <2>2. t = Spot(Len(g) + 2, Len(c) + 1, x)
            <=> t.part = Len(g) + 2 /\ t.at = Len(c) + 1 /\ t.frame = x
      BY <1>1, SpotIs
    <2>3. CASE t.part = Len(g) + 2
      <3>1. Part(g, s, a, t.part) = a /\ Part(g, s, c, t.part) = c /\ t.part \in 1 .. Len(g) + 2
        BY <1>1, <2>3 DEF Part
      <3>2. (t.at \in 1 .. Len(a) /\ t.frame = a[t.at])
              <=> (t.at \in 1 .. Len(c) /\ t.frame = c[t.at]) \/ (t.at = Len(c) + 1 /\ t.frame = x)
        BY <2>1, LastSpot
      <3> HIDE DEF a
      <3> QED
        BY <2>2, <2>3, <3>1, <3>2 DEF Where
    <2>4. CASE t.part # Len(g) + 2
      <3>1. t.part \in 1 .. Len(g) + 2 => Part(g, s, a, t.part) = Part(g, s, c, t.part)
        BY <1>1, <2>1, <2>4 DEF Part
      <3> HIDE DEF a
      <3> QED
        BY <2>2, <2>4, <3>1 DEF Where
    <2> QED
      BY <2>3, <2>4
  <1>4. Where(g, s, a) \subseteq Spots /\ Where(g, s, c) \subseteq Spots
    BY DEF Where
  <1> QED
    BY <1>2, <1>3, <1>4

(* A segment that is cut keeps its number.                                 *)
LEMMA WhereCut ==
  ASSUME NEW g \in Seq(Seq(Frame)), NEW s \in Seq(Frame)
  PROVE  Where(Append(g, s), <<>>, <<>>) = Where(g, s, <<>>)
  <1> DEFINE h == Append(g, s)
  <1>1. /\ Len(g) \in Nat /\ Len(h) = Len(g) + 1 /\ h[Len(g) + 1] = s
        /\ \A k \in 1 .. Len(g) : h[k] = g[k]
    BY AppendProperties
  <1> HIDE DEF h
  <1>2. Len(<<>>) = 0
    OBVIOUS
  <1>3. ASSUME NEW t \in Spots
        PROVE  t \in Where(h, <<>>, <<>>) <=> t \in Where(g, s, <<>>)
    <2>1. t.part \in Nat
      BY DEF Spots
    <2>2. CASE t.part \in 1 .. Len(g) + 1
      <3>1. Part(h, <<>>, <<>>, t.part) = Part(g, s, <<>>, t.part)
        BY <1>1, <2>2 DEF Part
      <3>2. t.part \in 1 .. Len(h) + 2 /\ t.part \in 1 .. Len(g) + 2
        BY <1>1, <2>2
      <3> QED
        BY <3>1, <3>2 DEF Where
    <2>3. CASE t.part \notin 1 .. Len(g) + 1
      <3>1. t.part \in 1 .. Len(h) + 2 => Part(h, <<>>, <<>>, t.part) = <<>>
        BY <1>1, <2>1, <2>3 DEF Part
      <3>2. t.part \in 1 .. Len(g) + 2 => Part(g, s, <<>>, t.part) = <<>>
        BY <1>1, <2>1, <2>3 DEF Part
      <3>3. 1 .. 0 = {}
        OBVIOUS
      <3> QED
        BY <1>2, <3>1, <3>2, <3>3 DEF Where
    <2> QED
      BY <2>2, <2>3
  <1>4. Where(h, <<>>, <<>>) \subseteq Spots /\ Where(g, s, <<>>) \subseteq Spots
    BY DEF Where
  <1> QED
    BY <1>3, <1>4 DEF h

(* The cached audio moves behind the segment.                              *)
LEMMA WhereFlush ==
  ASSUME NEW g \in Seq(Seq(Frame)), NEW s \in Seq(Frame), NEW c \in Seq(Frame),
         NEW u \in Seq(Frame), Placed(Where(g, s, c), u)
  PROVE  Placed(Where(g, s \o c, <<>>), u)
  <1> DEFINE T == Where(g, s, c)
             U == Where(g, s \o c, <<>>)
             to(t) == IF t.part = Len(g) + 2 THEN Spot(Len(g) + 1, Len(s) + t.at, t.frame) ELSE t
             F == [t \in T |-> to(t)]
  <1>1. /\ Len(g) \in Nat /\ Len(s) \in Nat /\ Len(c) \in Nat /\ Len(<<>>) = 0
        /\ T \subseteq Spots /\ U \subseteq Spots
    BY DEF Where
  <1>2. /\ Len(s \o c) = Len(s) + Len(c)
        /\ \A i \in 1 .. Len(s) : (s \o c)[i] = s[i]
        /\ \A i \in 1 .. Len(c) : (s \o c)[Len(s) + i] = c[i]
        /\ \A i \in 1 .. Len(s) + Len(c) :
              i \in 1 .. Len(s) \/ (i - Len(s) \in 1 .. Len(c) /\ (s \o c)[i] = c[i - Len(s)])
    BY Joined
  <1>3. \A t \in Spots : t.part \in Nat /\ t.at \in Nat /\ t.frame \in Frame
    BY DEF Spots
  <1>4. \A t \in T : /\ t.part \in 1 .. Len(g) + 2
                     /\ t.part = Len(g) + 1 => t.at \in 1 .. Len(s) /\ t.frame = s[t.at]
                     /\ t.part = Len(g) + 2 => t.at \in 1 .. Len(c) /\ t.frame = c[t.at]
    BY <1>1 DEF Where, Part
  <1>5. ASSUME NEW t \in T
        PROVE  /\ to(t) \in U /\ to(t).frame = t.frame
               /\ t.part = Len(g) + 2 => to(t).part = Len(g) + 1 /\ to(t).at = Len(s) + t.at
    <2>1. CASE t.part = Len(g) + 2
      <3> DEFINE n == Len(s) + t.at
      <3>1. t \in Spots /\ t.at \in 1 .. Len(c) /\ t.frame = c[t.at] /\ t.frame \in Frame
        BY <1>1, <1>3, <1>4, <2>1
      <3>2. n \in 1 .. Len(s \o c) /\ (s \o c)[n] = t.frame /\ n \in Nat
        BY <1>1, <1>2, <3>1
      <3> HIDE DEF n
      <3>3. to(t) = Spot(Len(g) + 1, n, t.frame)
        BY <2>1 DEF n
      <3> HIDE DEF to
      <3>0. Len(g) + 1 \in Nat
        BY <1>1
      <3>a. n \in Nat /\ t.frame \in Frame
        BY <3>1, <3>2
      <3>b. to(t).part = Len(g) + 1 /\ to(t).at = n /\ to(t).frame = t.frame
        BY <3>3 DEF Spot
      <3>4. to(t) \in Spots
        BY <3>0, <3>3, <3>a DEF Spot, Spots
      <3>5. Part(g, s \o c, <<>>, to(t).part) = s \o c /\ to(t).part \in 1 .. Len(g) + 2
        BY <1>1, <3>b DEF Part
      <3>6. to(t) \in U
        BY <3>2, <3>4, <3>5, <3>b DEF Where
      <3> QED
        BY <3>6, <3>b DEF n
    <2>2. CASE t.part = Len(g) + 1
      <3>1. to(t) = t
        BY <1>1, <2>2
      <3>2. t \in Spots /\ t.at \in 1 .. Len(s) /\ t.frame = s[t.at]
        BY <1>1, <1>4, <2>2
      <3>3. t.at \in 1 .. Len(s \o c) /\ t.frame = (s \o c)[t.at]
        BY <1>1, <1>2, <3>2
      <3>4. Part(g, s \o c, <<>>, t.part) = s \o c /\ t.part \in 1 .. Len(g) + 2
        BY <1>1, <2>2 DEF Part
      <3>5. t \in U
        BY <3>2, <3>3, <3>4 DEF Where
      <3> QED
        BY <1>1, <2>2, <3>1, <3>5
    <2>3. CASE t.part \in 1 .. Len(g)
      <3>1. to(t) = t /\ t.part # Len(g) + 2
        BY <1>1, <2>3
      <3>2. Part(g, s \o c, <<>>, t.part) = Part(g, s, c, t.part)
        BY <1>1, <2>3 DEF Part
      <3>3. t \in U
        BY <3>2 DEF Where
      <3> QED
        BY <3>1, <3>3
    <2>4. t.part \in 1 .. Len(g) \/ t.part = Len(g) + 1 \/ t.part = Len(g) + 2
      <3>1. Len(g) \in Nat /\ t.part \in 1 .. Len(g) + 2
        BY <1>1, <1>4
      <3> QED
        BY <3>1, PartCases
    <2> QED
      BY <2>1, <2>2, <2>3, <2>4
  <1>6. ASSUME NEW v \in U
        PROVE  \E t \in T : to(t) = v
    <2>1. /\ v \in Spots /\ v.part \in 1 .. Len(g) + 2 /\ v.at \in Nat /\ v.frame \in Frame
          /\ v.at \in 1 .. Len(Part(g, s \o c, <<>>, v.part))
          /\ v.frame = Part(g, s \o c, <<>>, v.part)[v.at]
      BY <1>1, <1>3 DEF Where
    <2>2. CASE v.part = Len(g) + 2
      <3>1. Part(g, s \o c, <<>>, v.part) = <<>>
        BY <1>1, <2>2 DEF Part
      <3>2. v.at \in 1 .. 0
        BY <1>1, <2>1, <3>1
      <3> QED
        BY <2>1, <3>2
    <2>3. CASE v.part \in 1 .. Len(g)
      <3>1. Part(g, s \o c, <<>>, v.part) = Part(g, s, c, v.part) /\ v.part # Len(g) + 2
        BY <1>1, <2>3 DEF Part
      <3>2. v \in T
        BY <2>1, <3>1 DEF Where
      <3> QED
        BY <3>1, <3>2
    <2>4. CASE v.part = Len(g) + 1
      <3>1. v.at \in 1 .. Len(s) + Len(c) /\ v.frame = (s \o c)[v.at]
        BY <1>1, <1>2, <2>1, <2>4 DEF Part
      <3>2. CASE v.at \in 1 .. Len(s)
        <4>1. Part(g, s, c, v.part) = s /\ v.part # Len(g) + 2
          BY <1>1, <2>4 DEF Part
        <4>2. v.frame = s[v.at]
          BY <1>2, <3>1, <3>2
        <4>3. v \in T
          BY <2>1, <3>2, <4>1, <4>2 DEF Where
        <4> QED
          BY <4>1, <4>3
      <3>3. CASE v.at - Len(s) \in 1 .. Len(c) /\ (s \o c)[v.at] = c[v.at - Len(s)]
        <4> DEFINE n == v.at - Len(s)
                   t == Spot(Len(g) + 2, n, v.frame)
        <4>0. Len(c) \in Nat /\ Len(s) \in Nat /\ v.at \in Nat /\ Len(g) + 2 \in Nat
          BY <1>1, <2>1
        <4>1. n \in 1 .. Len(c) /\ v.frame = c[n] /\ n \in Nat
          BY <3>1, <3>3, <4>0
        <4>a. Len(s) + n = v.at
          BY <4>0
        <4> HIDE DEF n
        <4>2. t \in Spots /\ t.part = Len(g) + 2 /\ t.at = n /\ t.frame = v.frame
          <5> DEFINE y == v.frame
          <5>1. y \in Frame
            BY <2>1
          <5> HIDE DEF y
          <5>2. Spot(Len(g) + 2, n, y) \in Spots
            BY <4>0, <4>1, <5>1, SpotIs
          <5>3. /\ Spot(Len(g) + 2, n, y).part = Len(g) + 2 /\ Spot(Len(g) + 2, n, y).at = n
                /\ Spot(Len(g) + 2, n, y).frame = y
            BY DEF Spot
          <5> QED
            BY <5>2, <5>3 DEF y
        <4>3. to(t) = Spot(Len(g) + 1, v.at, v.frame)
          BY <4>2, <4>a
        <4>4. v = Spot(Len(g) + 1, v.at, v.frame)
          BY <1>1, <2>1, <2>4, SpotIs
        <4> HIDE DEF t, to
        <4>5. Part(g, s, c, t.part) = c /\ t.part \in 1 .. Len(g) + 2
          BY <1>1, <4>2 DEF Part
        <4>6. t \in T
          BY <4>1, <4>2, <4>5 DEF Where
        <4> QED
          BY <4>3, <4>4, <4>6
      <3> QED
        BY <1>2, <3>1, <3>2, <3>3
    <2> QED
      BY <1>1, <2>1, <2>2, <2>3, <2>4
  <1>7. ASSUME NEW t \in T, NEW v \in T, Before(t, v)
        PROVE  Before(to(t), to(v))
    <2>1. /\ t.part \in 1 .. Len(g) + 2 /\ v.part \in 1 .. Len(g) + 2 /\ t.at \in Nat /\ v.at \in Nat
          /\ t.part = Len(g) + 1 => t.at <= Len(s)
      BY <1>1, <1>3, <1>4
    <2>2. /\ t.part = Len(g) + 2 => to(t).part = Len(g) + 1 /\ to(t).at = Len(s) + t.at
          /\ v.part = Len(g) + 2 => to(v).part = Len(g) + 1 /\ to(v).at = Len(s) + v.at
      BY <1>5
    <2>3. /\ t.part # Len(g) + 2 => to(t) = t
          /\ v.part # Len(g) + 2 => to(v) = v
      OBVIOUS
    <2> HIDE DEF to
    <2> QED
      BY <1>1, <1>7, <2>1, <2>2, <2>3 DEF Before
  <1> HIDE DEF T, U, to
  <1>8. F \in [T -> U] /\ \A t \in T : F[t] = to(t)
    BY <1>5
  <1> HIDE DEF F
  <1>9. /\ \A v \in U : \E t \in T : F[t] = v
        /\ \A t \in T : F[t].frame = t.frame
        /\ \A t, v \in T : Before(t, v) => Before(F[t], F[v])
    BY <1>5, <1>6, <1>7, <1>8
  <1>10. Placed(T, u)
    BY DEF T
  <1>11. Placed(U, u)
    BY <1>1, <1>8, <1>9, <1>10, PlacedMove
  <1> QED
    BY <1>11 DEF U

(* What a spot says about its frame.                                       *)
LEMMA WhereIs ==
  ASSUME NEW g \in Seq(Seq(Frame)), NEW s \in Seq(Frame), NEW c \in Seq(Frame),
         NEW t \in Where(g, s, c)
  PROVE  /\ Len(g) \in Nat /\ Len(s) \in Nat /\ Len(c) \in Nat
         /\ t \in Spots /\ t.part \in 1 .. Len(g) + 2 /\ t.at \in Nat
         /\ t.part = Len(g) + 1 => t.at \in 1 .. Len(s) /\ t.frame = s[t.at]
         /\ t.part = Len(g) + 2 => t.at \in 1 .. Len(c) /\ t.frame = c[t.at]
  <1>1. Len(g) \in Nat /\ Len(s) \in Nat /\ Len(c) \in Nat
    OBVIOUS
  <1>2. t \in Spots /\ t.part \in 1 .. Len(g) + 2
    BY DEF Where
  <1>3. t.at \in Nat
    BY <1>2 DEF Spots
  <1> QED
    BY <1>1, <1>2, <1>3 DEF Where, Part

LEMMA AddVideo ==
  ASSUME NEW g \in Seq(Seq(Frame)), NEW s \in Seq(Frame), NEW c \in Seq(Frame),
         NEW u \in Seq(Frame), Placed(Where(g, s, c), u), NEW x \in Frame, Video(x),
         \A i \in 1 .. Len(u) : u[i] # x, \A n \in 1 .. Len(c) : ~Video(c[n])
  PROVE  Placed(Where(g, Append(s, x), c), Append(u, x))
  <1> DEFINE T == Where(g, s, c)
             v == Spot(Len(g) + 1, Len(s) + 1, x)
  <1>1. Len(g) \in Nat /\ Len(s) \in Nat /\ T \in SUBSET Spots
    BY DEF Where
  <1>2. Where(g, Append(s, x), c) = T \union {v}
    BY WhereVideo
  <1>3. v \in Spots /\ v.part = Len(g) + 1 /\ v.at = Len(s) + 1 /\ v.frame = x
    BY <1>1 DEF Spot, Spots
  <1>4. ASSUME NEW t \in T, Alike(t.frame, x)
        PROVE  Before(t, v)
    <2>1. /\ t.part \in 1 .. Len(g) + 2 /\ t.at \in Nat
          /\ t.part = Len(g) + 1 => t.at \in 1 .. Len(s)
          /\ t.part = Len(g) + 2 => t.at \in 1 .. Len(c) /\ t.frame = c[t.at]
      BY WhereIs
    <2>2. t.part # Len(g) + 2
      BY <1>4, <2>1 DEF Alike
    <2> HIDE DEF T, v
    <2>3. t.part \in 1 .. Len(g) \/ t.part = Len(g) + 1
      BY <1>1, <2>1, <2>2, PartCases
    <2>4. CASE t.part \in 1 .. Len(g)
      <3>1. t.part < Len(g) + 1
        BY <1>1, <2>4
      <3> QED
        BY <1>3, <3>1 DEF Before
    <2>5. CASE t.part = Len(g) + 1
      <3>1. t.at <= Len(s) + 1
        BY <1>1, <2>1, <2>5
      <3> QED
        BY <1>3, <2>5, <3>1 DEF Before
    <2> QED
      BY <2>3, <2>4, <2>5
  <1> HIDE DEF T, v
  <1>5. Placed(T, u)
    BY DEF T
  <1>6. Placed(T \union {v}, Append(u, v.frame))
    BY <1>1, <1>3, <1>4, <1>5, PlacedAdd
  <1> QED
    BY <1>2, <1>3, <1>6

LEMMA AddAudio ==
  ASSUME NEW g \in Seq(Seq(Frame)), NEW s \in Seq(Frame), NEW c \in Seq(Frame),
         NEW u \in Seq(Frame), Placed(Where(g, s, c), u), NEW x \in Frame,
         \A i \in 1 .. Len(u) : u[i] # x
  PROVE  Placed(Where(g, s, Append(c, x)), Append(u, x))
  <1> DEFINE T == Where(g, s, c)
             v == Spot(Len(g) + 2, Len(c) + 1, x)
  <1>1. Len(g) \in Nat /\ Len(c) \in Nat /\ T \in SUBSET Spots
    BY DEF Where
  <1>2. Where(g, s, Append(c, x)) = T \union {v}
    BY WhereAudio
  <1>3. v \in Spots /\ v.part = Len(g) + 2 /\ v.at = Len(c) + 1 /\ v.frame = x
    BY <1>1 DEF Spot, Spots
  <1>4. ASSUME NEW t \in T
        PROVE  Before(t, v)
    <2>1. /\ t.part \in 1 .. Len(g) + 2 /\ t.at \in Nat
          /\ t.part = Len(g) + 2 => t.at \in 1 .. Len(c)
      BY WhereIs
    <2> HIDE DEF T, v
    <2> QED
      BY <1>1, <1>3, <2>1 DEF Before
  <1> HIDE DEF T, v
  <1>5. Placed(T, u)
    BY DEF T
  <1>6. Placed(T \union {v}, Append(u, v.frame))
    BY <1>1, <1>3, <1>4, <1>5, PlacedAdd
  <1> QED
    BY <1>2, <1>3, <1>6

LEMMA OrderInit == Init => OrderInv
  <1> SUFFICES ASSUME Init
               PROVE  OrderInv
    OBVIOUS
  <1>1. segments = <<>> /\ segment = <<>> /\ cache = <<>> /\ muxed = <<>>
    BY DEF Init
  <1>2. Len(<<>>) = 0 /\ 1 .. 0 = {}
    OBVIOUS
  <1>3. \A k \in 1 .. 2 : Part(<<>>, <<>>, <<>>, k) = <<>>
    BY <1>2 DEF Part
  <1>4. Where(<<>>, <<>>, <<>>) = {}
    BY <1>2, <1>3 DEF Where
  <1>5. Placed({}, <<>>)
    BY <1>2 DEF Placed
  <1> QED
    BY <1>1, <1>2, <1>4, <1>5 DEF OrderInv

LEMMA OrderMux ==
  ASSUME HlsInv, OrderInv, SendMux
  PROVE  OrderInv'
  <1>1. segments' = segments /\ spc = "mux"
    BY MuxEffect
  <1>2. CASE UNCHANGED <<segment, cache, first, last, muxed>>
    BY <1>1, <1>2 DEF OrderInv
  <1>3. CASE Filled
    <2>1. /\ segments \in Seq(Seq(Frame)) /\ segment \in Seq(Frame) /\ cache \in Seq(Frame)
          /\ muxed \in Seq(Frame) /\ p \in Frame
      BY DEF HlsInv, Types, CutInv
    <2>2. \A i \in 1 .. Len(muxed) : muxed[i] # p
      BY <1>1 DEF HlsInv, FreshInv
    <2>3. /\ Placed(Where(segments, segment, cache), muxed)
          /\ \A n \in 1 .. Len(cache) : ~Video(cache[n])
      BY DEF OrderInv
    <2>4. muxed' = Append(muxed, p)
      BY <1>3 DEF Filled
    <2>5. CASE Video(p) /\ segment' = Append(segment, p) /\ cache' = cache
      <3>1. Placed(Where(segments, Append(segment, p), cache), Append(muxed, p))
        BY <2>1, <2>2, <2>3, <2>5, AddVideo
      <3> QED
        BY <1>1, <2>3, <2>4, <2>5, <3>1 DEF OrderInv
    <2>6. Placed(Where(segments, segment, Append(cache, p)), Append(muxed, p))
      BY <2>1, <2>2, <2>3, AddAudio
    <2>7. CASE ~Video(p) /\ segment' = segment /\ cache' = Append(cache, p)
      <3>1. \A n \in 1 .. Len(cache') : ~Video(cache'[n])
        <4>1. /\ Len(cache) \in Nat /\ Len(cache') = Len(cache) + 1 /\ cache'[Len(cache) + 1] = p
              /\ \A i \in 1 .. Len(cache) : cache'[i] = cache[i]
          BY <2>1, <2>7, QueueAppend
        <4>2. \A n \in 1 .. Len(cache') : n \in 1 .. Len(cache) \/ n = Len(cache) + 1
          BY <4>1
        <4> QED
          BY <2>3, <2>7, <4>1, <4>2
      <3> QED
        BY <1>1, <2>4, <2>6, <2>7, <3>1 DEF OrderInv
    <2>8. CASE ~Video(p) /\ segment' = segment \o Append(cache, p) /\ cache' = <<>>
      <3>1. Append(cache, p) \in Seq(Frame) /\ Append(muxed, p) \in Seq(Frame)
        BY <2>1
      <3>2. Placed(Where(segments, segment \o Append(cache, p), <<>>), Append(muxed, p))
        BY <2>1, <2>6, <3>1, WhereFlush
      <3>3. Len(<<>>) = 0 /\ 1 .. 0 = {}
        OBVIOUS
      <3> QED
        BY <1>1, <2>4, <2>8, <3>2, <3>3 DEF OrderInv
    <2> QED
      BY <1>3, <2>5, <2>7, <2>8 DEF Filled
  <1> QED
    BY <1>2, <1>3, MuxEffect

LEMMA OrderCut ==
  ASSUME HlsInv, OrderInv, SendCut
  PROVE  OrderInv'
  <1>1. muxed' = muxed
    BY CutEffect
  <1>2. CASE UNCHANGED segVars
    BY <1>2 DEF OrderInv, segVars
  <1>3. CASE /\ segments' = Append(segments, segment \o cache)
             /\ segment' = <<>> /\ cache' = <<>>
    <2>1. /\ segments \in Seq(Seq(Frame)) /\ segment \in Seq(Frame) /\ cache \in Seq(Frame)
          /\ muxed \in Seq(Frame) /\ segment \o cache \in Seq(Frame)
      BY Joined DEF HlsInv, Types, CutInv
    <2>2. Placed(Where(segments, segment \o cache, <<>>), muxed)
      BY <2>1, WhereFlush DEF OrderInv
    <2>3. Where(segments', segment', cache') = Where(segments, segment \o cache, <<>>)
      BY <1>3, <2>1, WhereCut
    <2>4. Len(<<>>) = 0 /\ 1 .. 0 = {}
      OBVIOUS
    <2> QED
      BY <1>1, <1>3, <2>2, <2>3, <2>4 DEF OrderInv
  <1> QED
    BY <1>2, <1>3, CutEffect

LEMMA OrderStep == HlsInv /\ OrderInv /\ [Next]_vars => OrderInv'
  <1> SUFFICES ASSUME HlsInv, OrderInv, [Next]_vars
               PROVE  OrderInv'
    OBVIOUS
  <1>1. CASE SendMux
    BY <1>1, OrderMux
  <1>2. CASE SendCut
    BY <1>2, OrderCut
  <1>3. CASE Write \/ DropPacket \/ SendLoop \/ SendRecv \/ SendNil \/ Close \/ UNCHANGED vars
    <2>1. UNCHANGED segVars
      BY <1>3 DEF Write, DropPacket, SendLoop, SendRecv, SendNil, Close, CloseTest, CloseCleanup,
                  CloseFlag, vars
    <2> QED
      BY <2>1 DEF OrderInv, segVars
  <1> QED
    BY <1>1, <1>2, <1>3 DEF Next, SendPacket

(* From the first key frame on every frame given to tsMux is in exactly    *)
(* one place, a segment, the one being filled or the audio cache, nothing  *)
(* else is, and video and audio each stay in the order of the stream.      *)
THEOREM FramesStayInOrder == Spec => []MediaInOrder
  <1>1. Spec => []OrderInv
    BY HlsInvariant, OrderInit, OrderStep, PTL DEF Spec
  <1>2. HlsInv /\ OrderInv => MediaInOrder
    <2> SUFFICES ASSUME HlsInv, OrderInv
                 PROVE  MediaInOrder
      OBVIOUS
    <2> DEFINE T == Where(segments, segment, cache)
               N == Len(segments) + 2
    <2>1. /\ segments \in Seq(Seq(Frame)) /\ segment \in Seq(Frame) /\ cache \in Seq(Frame)
          /\ muxed \in Seq(Frame) /\ Len(segments) \in Nat
      BY DEF HlsInv, Types, CutInv
    <2>2. DOMAIN muxed = 1 .. Len(muxed) /\ Len(muxed) \in Nat
      BY <2>1
    <2>3. Parts \in Seq(Seq(Frame)) /\ DOMAIN Parts = 1 .. N
          /\ \A k \in 1 .. N : Parts[k] = Part(segments, segment, cache, k)
      <3> DEFINE two == <<segment, cache>>
      <3>1. two \in Seq(Seq(Frame)) /\ Len(two) = 2 /\ two[1] = segment /\ two[2] = cache
        BY <2>1
      <3>2. Parts = segments \o two
        BY DEF Parts
      <3> HIDE DEF two
      <3>a. /\ segments \o two \in Seq(Seq(Frame))
            /\ Len(segments \o two) = Len(segments) + Len(two)
            /\ \A k \in 1 .. Len(segments) + Len(two) :
                  (segments \o two)[k] =
                      IF k <= Len(segments) THEN segments[k] ELSE two[k - Len(segments)]
        BY <2>1, <3>1, ConcatProperties
      <3>3. /\ Parts \in Seq(Seq(Frame)) /\ Len(Parts) = N
            /\ \A k \in 1 .. N :
                  Parts[k] = IF k <= Len(segments) THEN segments[k] ELSE two[k - Len(segments)]
        BY <3>1, <3>2, <3>a
      <3>4. DOMAIN Parts = 1 .. N
        BY <3>3
      <3>5. ASSUME NEW k \in 1 .. N
            PROVE  k <= Len(segments) \/ k - Len(segments) = 1 \/ k - Len(segments) = 2
        <4>1. Len(segments) \in Nat
          BY <2>1
        <4>2. k \in 1 .. Len(segments) \/ k = Len(segments) + 1 \/ k = Len(segments) + 2
          BY <4>1, PartCases
        <4> QED
          BY <4>1, <4>2
      <3>6. \A k \in 1 .. N : Parts[k] = Part(segments, segment, cache, k)
        BY <2>1, <3>1, <3>3, <3>5 DEF Part
      <3> QED
        BY <3>3, <3>4, <3>6
    <2>4. \A k \in 1 .. N : /\ Parts[k] \in Seq(Frame) /\ Len(Parts[k]) \in Nat
                            /\ DOMAIN Parts[k] = 1 .. Len(Parts[k])
                            /\ \A n \in 1 .. Len(Parts[k]) : Parts[k][n] \in Frame
      <3>1. \A k \in 1 .. N : Parts[k] \in Seq(Frame)
        BY <2>3
      <3> QED
        BY <3>1, ElementOfSeq
    <2>5. ASSUME NEW a \in Places
          PROVE  /\ a = <<a[1], a[2]>> /\ a[1] \in 1 .. N /\ a[2] \in 1 .. Len(Parts[a[1]])
                 /\ Spot(a[1], a[2], At(a)) \in T
      <3>0. PICK k \in 1 .. N : \E n \in 1 .. Len(Parts[k]) : a = <<k, n>>
        BY <2>3, <2>4 DEF Places
      <3>1. PICK n \in 1 .. Len(Parts[k]) : a = <<k, n>>
        BY <3>0
      <3>2. a[1] = k /\ a[2] = n /\ At(a) = Parts[k][n]
        BY <3>1 DEF At
      <3> DEFINE x == Parts[k][n]
                 t == Spot(k, n, x)
      <3>3. k \in Nat /\ n \in Nat /\ x \in Frame
        BY <2>4, <3>1
      <3> HIDE DEF x
      <3>4. t \in Spots /\ t.part = k /\ t.at = n /\ t.frame = x
        BY <3>3 DEF Spot, Spots
      <3> HIDE DEF t
      <3>5. t \in T
        BY <2>3, <3>4 DEF Where, x
      <3> QED
        BY <3>1, <3>2, <3>5 DEF t, x
    <2>6. ASSUME NEW t \in T
          PROVE  <<t.part, t.at>> \in Places /\ At(<<t.part, t.at>>) = t.frame
      <3>1. /\ t.part \in 1 .. N /\ t.at \in 1 .. Len(Parts[t.part])
            /\ t.frame = Parts[t.part][t.at]
        BY <2>3 DEF Where
      <3> DEFINE k == t.part
                 n == t.at
      <3> HIDE DEF k, n
      <3>2. k \in DOMAIN Parts /\ n \in DOMAIN Parts[k]
        BY <2>3, <2>4, <3>1 DEF k, n
      <3>3. <<k, n>> \in Places
        BY <3>2 DEF Places
      <3>4. At(<<k, n>>) = Parts[k][n]
        BY DEF At
      <3> QED
        BY <3>1, <3>3, <3>4 DEF k, n
    <2>7. Placed(T, muxed)
      BY DEF OrderInv
    <2> HIDE DEF T, N
    <2>8. {At(a) : a \in Places} = ToSet(muxed)
      <3>1. ASSUME NEW a \in Places
            PROVE  At(a) \in ToSet(muxed)
        <4>1. Spot(a[1], a[2], At(a)) \in T /\ Spot(a[1], a[2], At(a)).frame = At(a)
          BY <2>5 DEF Spot
        <4>2. \E i \in 1 .. Len(muxed) : muxed[i] = At(a)
          BY <2>7, <4>1 DEF Placed
        <4> QED
          BY <2>2, <4>2 DEF ToSet
      <3>2. ASSUME NEW i \in 1 .. Len(muxed)
            PROVE  \E a \in Places : At(a) = muxed[i]
        BY <2>6, <2>7 DEF Placed
      <3> QED
        BY <2>2, <3>1, <3>2 DEF ToSet
    <2>9. ASSUME NEW a \in Places, NEW i \in DOMAIN muxed, At(a) = muxed[i],
                 NEW b \in Places, NEW j \in i .. Len(muxed), At(b) = muxed[j],
                 Video(At(a)) <=> Video(At(b))
          PROVE  NotAfter(a, b)
      <3> DEFINE t == Spot(a[1], a[2], At(a))
                 v == Spot(b[1], b[2], At(b))
      <3>1. t \in T /\ v \in T
        BY <2>5
      <3>2. /\ t.part = a[1] /\ t.at = a[2] /\ t.frame = At(a)
            /\ v.part = b[1] /\ v.at = b[2] /\ v.frame = At(b)
        BY DEF Spot
      <3> HIDE DEF t, v
      <3>3. i \in 1 .. Len(muxed) /\ j \in 1 .. Len(muxed) /\ i <= j
        BY <2>2
      <3>4. Alike(t.frame, v.frame)
        BY <2>9, <3>2 DEF Alike
      <3>5. Before(t, v)
        BY <2>7, <2>9, <3>1, <3>2, <3>3, <3>4 DEF Placed
      <3> QED
        BY <3>2, <3>5 DEF Before, NotAfter
    <2> QED
      BY <2>8, <2>9 DEF MediaInOrder
  <1> QED
    BY <1>1, <1>2, HlsInvariant, PTL
=============================================================================
