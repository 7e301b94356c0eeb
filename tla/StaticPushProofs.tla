-------------------------- MODULE StaticPushProofs --------------------------
(***************************************************************************)
(* Theorems about StaticPush, for any number of transports and URLs, any   *)
(* capacity of packetChan and any number of packets.                       *)
(***************************************************************************)
EXTENDS StaticPush, TLAPS

(* What holds whatever races happen: a transport that works on an object   *)
(* has one, a stream without info loops over nothing, and a Handle has the *)
(* object it was spawned for.                                              *)
Working == {"create", "test", "dial", "spawn", "flag", "put", "ctrl", "unflag", "release"}
ObjInv ==
    /\ \A t \in Transports : tpc[t] \in Working => obj[t] \in Objects /\ info[t]
    /\ \A t \in Transports : ~info[t] => todo[t] = {}
    /\ \A t \in Transports : tpc[t] = "new" => ~info[t]
    /\ \A h \in Objects : handle[h] # "none" => hobj[h] \in Objects

(* The URLs a transport has made an object for and not released: those its *)
(* start loop has passed, all of them while it runs, and those its stop    *)
(* loop has not come to the end of.                                        *)
Starting == {"create", "test", "dial", "spawn", "flag"}
Stopping == {"ctrl", "unflag", "release"}
Mine(t, u) ==
    /\ info[t]
    /\ \/ tpc[t] = "start" /\ u \notin todo[t]
       \/ /\ tpc[t] \in Starting
          /\ u \notin todo[t]
          /\ u = url[t] => tpc[t] # "create" /\ obj[t] = <<t, u>>
       \/ tpc[t] \in {"loop", "send", "put"}
       \/ tpc[t] = "stop" /\ u \in todo[t]
       \/ tpc[t] \in Stopping /\ (u \in todo[t] \/ u = url[t])

(* The URLs it has not made an object for yet, or never will.              *)
NotYet(t, u) ==
    ~info[t] \/ (tpc[t] \in Starting \union {"start"} /\ ~Mine(t, u))

(* An object nobody has started, and one that is being pushed.             *)
Untouched(o) == dialled[o] = "no" /\ ~startflag[o] /\ handle[o] = "none"
Pushed(o) ==
    /\ dialled[o] = "open" /\ startflag[o] /\ client[o] = o
    /\ handle[o] \in {"spawned", "select"}

(* How far a transport has come with a URL: it has not made its object     *)
(* yet, Start or Stop has it in hand, it keeps it, or it is gone for good; *)
(* and what each stage says of the object.                                 *)
InHand(t, u) == url[t] = u /\ tpc[t] \in (Starting \union Stopping) \ {"create"}
Stage(t, u) ==
    IF NotYet(t, u) THEN "notyet"
    ELSE IF ~Mine(t, u) THEN "gone"
    ELSE IF InHand(t, u) THEN tpc[t]
    ELSE "kept"
Fits(stage, o) ==
    /\ stage \in {"notyet", "test", "dial"} => Untouched(o)
    /\ stage = "spawn" => /\ dialled[o] = "open" /\ ~startflag[o] /\ client[o] = o
                          /\ handle[o] = "none"
    /\ stage = "flag" => /\ dialled[o] = "open" /\ ~startflag[o] /\ client[o] = o
                         /\ handle[o] = "spawned"
    /\ stage = "kept" => Untouched(o) \/ Pushed(o)
    /\ stage = "ctrl" => Pushed(o)
    /\ stage = "unflag" => dialled[o] = "closed"
    /\ stage \in {"release", "gone"} => dialled[o] # "open" /\ ~startflag[o]

(* As long as there is no race, the map names the one transport that has   *)
(* an object for the URL, each works on its own object, and the object is  *)
(* where the transport has brought it.                                     *)
MapInv ==
    /\ \A u \in Urls : staticPushMap[u] # Nil => \E t \in Transports : staticPushMap[u] = <<t, u>>
    /\ \A t \in Transports, u \in Urls : Mine(t, u) <=> staticPushMap[u] = <<t, u>>
HandInv ==
    /\ \A t \in Transports :
          tpc[t] \in {"create", "dial", "spawn", "flag"} \union Stopping => obj[t] = <<t, url[t]>>
    /\ \A t \in Transports : tpc[t] \in Starting \union Stopping => url[t] \notin todo[t]
    /\ \A h \in Objects : handle[h] # "none" => hobj[h] = h
PhaseInv == \A t \in Transports, u \in Urls : Fits(Stage(t, u), <<t, u>>)

(* The inductive invariant behind PushServed and NothingLeft.              *)
PushInv == TypeOK /\ ObjInv /\ (races = {} => MapInv /\ HandInv /\ PhaseInv)

-----------------------------------------------------------------------------
(* An object is never Nil.                                                 *)
LEMMA PairNotNil == \A t, u : <<t, u>> # Nil
  BY DEF Nil

(* The map names a transport's own object for a URL that is its own.       *)
LEMMA MineMapped ==
  ASSUME MapInv, NEW t \in Transports, NEW u \in Urls, Mine(t, u)
  PROVE  staticPushMap[u] = <<t, u>> /\ staticPushMap[u] # Nil
  BY PairNotNil DEF MapInv

(* A transport begins with info or without it.                             *)
LEMMA TransBeginInfo ==
  ASSUME NEW t \in Transports, info \in [Transports -> BOOLEAN], TransBegin(t)
  PROVE  \E i \in BOOLEAN : /\ info' = [info EXCEPT ![t] = i]
                          /\ todo' = [todo EXCEPT ![t] = IF i THEN Urls ELSE {}]
  <1>1. PICK i \in BOOLEAN : info' = [info EXCEPT ![t] = i]
    BY DEF TransBegin
  <1>2. todo' = [todo EXCEPT ![t] = IF i THEN Urls ELSE {}]
    BY <1>1 DEF TransBegin, PushList
  <1> QED
    BY <1>1, <1>2

(* Each step keeps the types.                                              *)
LEMMA TypeKept ==
  ASSUME PushInv, [Next]_vars PROVE TypeOK'
  <1> USE PushAssumption DEF PushInv, TypeOK, ObjInv, Working, Objects, Go, objVars
  <1>1. ASSUME NEW t \in Transports, TransBegin(t) PROVE TypeOK'
    <2>1. PICK i \in BOOLEAN : /\ info' = [info EXCEPT ![t] = i]
                                /\ todo' = [todo EXCEPT ![t] = IF i THEN Urls ELSE {}]
      BY <1>1, TransBeginInfo
    <2> QED
      BY <1>1, <2>1 DEF TransBegin
  <1>2. ASSUME NEW t \in Transports, StartLoop(t) PROVE TypeOK'
    <2>1. ASSUME NEW u \in Urls, StartNext(t, u) PROVE TypeOK'
      BY <1>2, <2>1 DEF StartNext, StartLoop
    <2>2. CASE todo[t] = {} /\ Go(t, "loop") /\ UNCHANGED <<url, obj, todo>>
      BY <1>2, <2>2 DEF StartLoop
    <2> QED
      BY <1>2, <2>1, <2>2 DEF StartLoop
  <1>3. ASSUME NEW t \in Transports, CreatePush(t) PROVE TypeOK'
    BY <1>3 DEF CreatePush
  <1>4. ASSUME NEW t \in Transports, StartTest(t) PROVE TypeOK'
    BY <1>4 DEF StartTest
  <1>5. ASSUME NEW t \in Transports, StartDial(t) PROVE TypeOK'
    <2>1. dialled' = dialled \/ dialled' = [dialled EXCEPT ![<<t, url[t]>>] = "open"]
      BY <1>5 DEF StartDial
    <2>2. Go(t, "spawn") \/ Go(t, "start")
      BY <1>5 DEF StartDial
    <2>3. client' = [client EXCEPT ![obj[t]] = <<t, url[t]>>]
      BY <1>5 DEF StartDial
    <2>4. /\ dialled' \in [Objects -> {"no", "open", "closed"}]
          /\ client' \in [Objects -> Objects \union {Nil}]
      BY <2>1, <2>3
    <2> QED
      BY <1>5, <2>2, <2>4 DEF StartDial
  <1>6. ASSUME NEW t \in Transports, StartSpawn(t) PROVE TypeOK'
    BY <1>6 DEF StartSpawn
  <1>7. ASSUME NEW t \in Transports, StartFlag(t) PROVE TypeOK'
    BY <1>7 DEF StartFlag
  <1>8. ASSUME NEW t \in Transports, ReadPacket(t) PROVE TypeOK'
    BY <1>8 DEF ReadPacket
  <1>9. ASSUME NEW t \in Transports, SendLoop(t) PROVE TypeOK'
    <2>1. ASSUME NEW u \in Urls, SendNext(t, u) PROVE TypeOK'
      BY <1>9, <2>1 DEF SendNext, SendLoop
    <2>2. CASE todo[t] = {} /\ Go(t, "loop") /\ UNCHANGED <<obj, todo>>
      BY <1>9, <2>2 DEF SendLoop
    <2> QED
      BY <1>9, <2>1, <2>2 DEF SendLoop
  <1>10. ASSUME NEW t \in Transports, WritePacket(t) PROVE TypeOK'
    BY <1>10 DEF WritePacket
  <1>11. ASSUME NEW t \in Transports, TransStops(t) PROVE TypeOK'
    BY <1>11 DEF TransStops
  <1>12. ASSUME NEW t \in Transports, StopLoop(t) PROVE TypeOK'
    <2>1. ASSUME NEW u \in Urls, StopNext(t, u) PROVE TypeOK'
      BY <1>12, <2>1 DEF StopNext, StopLoop
    <2>2. CASE todo[t] = {} /\ Go(t, "done") /\ UNCHANGED <<url, obj, todo>>
      BY <1>12, <2>2 DEF StopLoop
    <2> QED
      BY <1>12, <2>1, <2>2 DEF StopLoop
  <1>13. ASSUME NEW t \in Transports, NEW h \in Objects, StopCtrl(t, h) PROVE TypeOK'
    BY <1>13 DEF StopCtrl
  <1>14. ASSUME NEW t \in Transports, StopUnflag(t) PROVE TypeOK'
    BY <1>14 DEF StopUnflag
  <1>15. ASSUME NEW t \in Transports, Release(t) PROVE TypeOK'
    BY <1>15 DEF Release
  <1>16. ASSUME NEW h \in Objects, HandleBegin(h) PROVE TypeOK'
    BY <1>16 DEF HandleBegin
  <1>17. ASSUME NEW h \in Objects, HandlePacket(h) PROVE TypeOK'
    BY <1>17 DEF HandlePacket
  <1>18. CASE UNCHANGED vars
    BY <1>18 DEF vars
  <1> QED
    BY <1>1, <1>2, <1>3, <1>4, <1>5, <1>6, <1>7, <1>8, <1>9, <1>10, <1>11, <1>12,
       <1>13, <1>14, <1>15, <1>16, <1>17, <1>18
    DEF Next, TransportStep, HandleStep

(* Each step keeps what holds whatever races happen.                       *)
LEMMA ObjKept ==
  ASSUME PushInv, [Next]_vars PROVE ObjInv'
  <1> USE PushAssumption DEF PushInv, TypeOK, ObjInv, Working, Go, objVars
  <1>1. ASSUME NEW t \in Transports, TransBegin(t) PROVE ObjInv'
    <2>1. PICK i \in BOOLEAN : /\ info' = [info EXCEPT ![t] = i]
                                /\ todo' = [todo EXCEPT ![t] = IF i THEN Urls ELSE {}]
      BY <1>1, TransBeginInfo
    <2> QED
      BY <1>1, <2>1 DEF TransBegin
  <1>2. ASSUME NEW t \in Transports, StartLoop(t) PROVE ObjInv'
    <2>1. ASSUME NEW u \in Urls, StartNext(t, u) PROVE ObjInv'
      BY <1>2, <2>1 DEF StartNext, StartLoop, Objects
    <2>2. CASE todo[t] = {} /\ Go(t, "loop") /\ UNCHANGED <<url, obj, todo>>
      BY <1>2, <2>2 DEF StartLoop, Objects
    <2> QED
      BY <1>2, <2>1, <2>2 DEF StartLoop
  <1>3. ASSUME NEW t \in Transports, CreatePush(t) PROVE ObjInv'
    BY <1>3 DEF CreatePush, Objects
  <1>4. ASSUME NEW t \in Transports, StartTest(t) PROVE ObjInv'
    BY <1>4 DEF StartTest
  <1>5. ASSUME NEW t \in Transports, StartDial(t) PROVE ObjInv'
    BY <1>5 DEF StartDial
  <1>6. ASSUME NEW t \in Transports, StartSpawn(t) PROVE ObjInv'
    BY <1>6 DEF StartSpawn, Objects
  <1>7. ASSUME NEW t \in Transports, StartFlag(t) PROVE ObjInv'
    BY <1>7 DEF StartFlag
  <1>8. ASSUME NEW t \in Transports, ReadPacket(t) PROVE ObjInv'
    BY <1>8 DEF ReadPacket
  <1>9. ASSUME NEW t \in Transports, SendLoop(t) PROVE ObjInv'
    <2>1. ASSUME NEW u \in Urls, SendNext(t, u) PROVE ObjInv'
      BY <1>9, <2>1 DEF SendNext, SendLoop
    <2>2. CASE todo[t] = {} /\ Go(t, "loop") /\ UNCHANGED <<obj, todo>>
      BY <1>9, <2>2 DEF SendLoop
    <2> QED
      BY <1>9, <2>1, <2>2 DEF SendLoop
  <1>10. ASSUME NEW t \in Transports, WritePacket(t) PROVE ObjInv'
    BY <1>10 DEF WritePacket
  <1>11. ASSUME NEW t \in Transports, TransStops(t) PROVE ObjInv'
    BY <1>11 DEF TransStops
  <1>12. ASSUME NEW t \in Transports, StopLoop(t) PROVE ObjInv'
    <2>1. ASSUME NEW u \in Urls, StopNext(t, u) PROVE ObjInv'
      BY <1>12, <2>1 DEF StopNext, StopLoop
    <2>2. CASE todo[t] = {} /\ Go(t, "done") /\ UNCHANGED <<url, obj, todo>>
      BY <1>12, <2>2 DEF StopLoop
    <2> QED
      BY <1>12, <2>1, <2>2 DEF StopLoop
  <1>13. ASSUME NEW t \in Transports, NEW h \in Objects, StopCtrl(t, h) PROVE ObjInv'
    BY <1>13 DEF StopCtrl
  <1>14. ASSUME NEW t \in Transports, StopUnflag(t) PROVE ObjInv'
    BY <1>14 DEF StopUnflag
  <1>15. ASSUME NEW t \in Transports, Release(t) PROVE ObjInv'
    BY <1>15 DEF Release
  <1>16. ASSUME NEW h \in Objects, HandleBegin(h) PROVE ObjInv'
    BY <1>16 DEF HandleBegin
  <1>17. ASSUME NEW h \in Objects, HandlePacket(h) PROVE ObjInv'
    BY <1>17 DEF HandlePacket
  <1>18. CASE UNCHANGED vars
    BY <1>18 DEF vars
  <1> QED
    BY <1>1, <1>2, <1>3, <1>4, <1>5, <1>6, <1>7, <1>8, <1>9, <1>10, <1>11, <1>12,
       <1>13, <1>14, <1>15, <1>16, <1>17, <1>18
    DEF Next, TransportStep, HandleStep

-----------------------------------------------------------------------------
(* A race is never forgotten.                                              *)
LEMMA NoRaceBefore ==
  ASSUME [Next]_vars, races' = {} PROVE races = {}
  <1> USE DEF Go, objVars
  <1>1. ASSUME NEW t \in Transports, TransBegin(t) PROVE races = {}
    BY <1>1 DEF TransBegin
  <1>2. ASSUME NEW t \in Transports, StartLoop(t) PROVE races = {}
    BY <1>2 DEF StartLoop
  <1>3. ASSUME NEW t \in Transports, CreatePush(t) PROVE races = {}
    BY <1>3 DEF CreatePush
  <1>4. ASSUME NEW t \in Transports, StartTest(t) PROVE races = {}
    BY <1>4 DEF StartTest
  <1>5. ASSUME NEW t \in Transports, StartDial(t) PROVE races = {}
    BY <1>5 DEF StartDial
  <1>6. ASSUME NEW t \in Transports, StartSpawn(t) PROVE races = {}
    BY <1>6 DEF StartSpawn
  <1>7. ASSUME NEW t \in Transports, StartFlag(t) PROVE races = {}
    BY <1>7 DEF StartFlag
  <1>8. ASSUME NEW t \in Transports, ReadPacket(t) PROVE races = {}
    BY <1>8 DEF ReadPacket
  <1>9. ASSUME NEW t \in Transports, SendLoop(t) PROVE races = {}
    BY <1>9 DEF SendLoop
  <1>10. ASSUME NEW t \in Transports, WritePacket(t) PROVE races = {}
    BY <1>10 DEF WritePacket
  <1>11. ASSUME NEW t \in Transports, TransStops(t) PROVE races = {}
    BY <1>11 DEF TransStops
  <1>12. ASSUME NEW t \in Transports, StopLoop(t) PROVE races = {}
    BY <1>12 DEF StopLoop
  <1>13. ASSUME NEW t \in Transports, NEW h \in Objects, StopCtrl(t, h) PROVE races = {}
    BY <1>13 DEF StopCtrl
  <1>14. ASSUME NEW t \in Transports, StopUnflag(t) PROVE races = {}
    BY <1>14 DEF StopUnflag
  <1>15. ASSUME NEW t \in Transports, Release(t) PROVE races = {}
    BY <1>15 DEF Release
  <1>16. ASSUME NEW h \in Objects, HandleBegin(h) PROVE races = {}
    BY <1>16 DEF HandleBegin
  <1>17. ASSUME NEW h \in Objects, HandlePacket(h) PROVE races = {}
    BY <1>17 DEF HandlePacket
  <1>18. CASE UNCHANGED vars
    BY <1>18 DEF vars
  <1> QED
    BY <1>1, <1>2, <1>3, <1>4, <1>5, <1>6, <1>7, <1>8, <1>9, <1>10, <1>11, <1>12,
       <1>13, <1>14, <1>15, <1>16, <1>17, <1>18
    DEF Next, TransportStep, HandleStep

(* Without a race, the map keeps naming the transport that has an object   *)
(* for the URL.                                                            *)
LEMMA MapKept ==
  ASSUME PushInv, [Next]_vars, races' = {} PROVE MapInv'
  <1> USE PushAssumption DEF Go, objVars, Starting, Stopping
  <1>0. /\ races = {} /\ TypeOK /\ ObjInv /\ MapInv /\ HandInv
    BY NoRaceBefore DEF PushInv
  <1>00. DOMAIN staticPushMap = Urls /\ url \in [Transports -> Urls]
    BY <1>0 DEF TypeOK
  <1>01. \A t \in Transports, u \in Urls : Mine(t, u) <=> staticPushMap[u] = <<t, u>>
    BY <1>0 DEF MapInv
  <1> USE <1>0 DEF TypeOK, ObjInv, Working, MapInv, HandInv, Mine, Objects
  <1>1. ASSUME NEW t \in Transports, TransBegin(t) PROVE MapInv'
    <2>1. PICK i \in BOOLEAN : /\ info' = [info EXCEPT ![t] = i]
                                /\ todo' = [todo EXCEPT ![t] = IF i THEN Urls ELSE {}]
      BY <1>1, TransBeginInfo
    <2>2. todo' = [todo EXCEPT ![t] = IF i THEN Urls ELSE {}]
      BY <2>1
    <2>3. \A s \in Transports \ {t}, v \in Urls : Mine(s, v)' <=> Mine(s, v)
      BY <1>1, <2>1, <2>2 DEF TransBegin
    <2>4. \A v \in Urls : ~Mine(t, v)
      BY <1>1 DEF TransBegin
    <2>5. \A v \in Urls : ~Mine(t, v)'
      BY <1>1, <2>1, <2>2 DEF TransBegin
    <2>6. staticPushMap' = staticPushMap
      BY <1>1 DEF TransBegin
    <2> HIDE DEF Mine, TypeOK, ObjInv, HandInv
    <2> QED
      BY <1>00, <2>3, <2>4, <2>5, <2>6
  <1>2. ASSUME NEW t \in Transports, StartLoop(t) PROVE MapInv'
    <2>1. \A s \in Transports \ {t}, v \in Urls : Mine(s, v)' <=> Mine(s, v)
      <3>1. \A s \in Transports \ {t} :
               UNCHANGED <<tpc[s], info[s], todo[s], url[s], obj[s]>>
        BY <1>2 DEF StartNext, StartLoop
      <3> QED
        BY <3>1
    <2>2. ASSUME NEW v \in Urls PROVE Mine(t, v)' <=> Mine(t, v)
      <3>1. ASSUME NEW u \in Urls, StartNext(t, u) PROVE Mine(t, v)' <=> Mine(t, v)
        BY <1>2, <3>1 DEF StartNext, StartLoop
      <3>2. CASE todo[t] = {} /\ Go(t, "loop") /\ UNCHANGED <<url, obj, todo>>
        BY <1>2, <3>2 DEF StartLoop
      <3> QED
        BY <1>2, <3>1, <3>2 DEF StartLoop
    <2>3. staticPushMap' = staticPushMap
      BY <1>2 DEF StartLoop
    <2> HIDE DEF Mine, TypeOK, ObjInv, HandInv
    <2> QED
      BY <2>1, <2>2, <2>3
  <1>3. ASSUME NEW t \in Transports, CreatePush(t) PROVE MapInv'
    <2>1. staticPushMap[url[t]] = Nil
      BY <1>3 DEF CreatePush
    <2>2. staticPushMap' = [staticPushMap EXCEPT ![url[t]] = <<t, url[t]>>]
      BY <1>3 DEF CreatePush
    <2>3. \A s \in Transports \ {t}, v \in Urls : Mine(s, v)' <=> Mine(s, v)
      BY <1>3 DEF CreatePush
    <2>4. \A v \in Urls : Mine(t, v)' <=> (Mine(t, v) \/ v = url[t])
      BY <1>3 DEF CreatePush
    <2> HIDE DEF Mine, TypeOK, ObjInv, HandInv
    <2> QED
      <3>1. \A v \in Urls : v # url[t] => staticPushMap'[v] = staticPushMap[v]
        BY <1>00, <2>2
      <3>2. staticPushMap'[url[t]] = <<t, url[t]>> /\ url[t] \in Urls
        BY <1>00, <2>2
      <3>3. \A s \in Transports : ~Mine(s, url[t])
        BY <2>1, <3>2, PairNotNil
      <3> QED
        BY <2>3, <2>4, <3>1, <3>2, <3>3
  <1>4. ASSUME NEW t \in Transports, StartTest(t) PROVE MapInv'
    BY <1>4 DEF StartTest
  <1>5. ASSUME NEW t \in Transports, StartDial(t) PROVE MapInv'
    BY <1>5 DEF StartDial
  <1>6. ASSUME NEW t \in Transports, StartSpawn(t) PROVE MapInv'
    BY <1>6 DEF StartSpawn
  <1>7. ASSUME NEW t \in Transports, StartFlag(t) PROVE MapInv'
    <2>1. \A s \in Transports \ {t}, v \in Urls : Mine(s, v)' <=> Mine(s, v)
      BY <1>7 DEF StartFlag
    <2>2. \A v \in Urls : Mine(t, v)' <=> Mine(t, v)
      BY <1>7 DEF StartFlag
    <2>3. staticPushMap' = staticPushMap
      BY <1>7 DEF StartFlag
    <2> HIDE DEF Mine, TypeOK, ObjInv, HandInv
    <2> QED
      BY <2>1, <2>2, <2>3
  <1>8. ASSUME NEW t \in Transports, ReadPacket(t) PROVE MapInv'
    BY <1>8 DEF ReadPacket
  <1>9. ASSUME NEW t \in Transports, SendLoop(t) PROVE MapInv'
    <2>1. \A s \in Transports \ {t}, v \in Urls : Mine(s, v)' <=> Mine(s, v)
      <3>1. \A s \in Transports \ {t} :
               UNCHANGED <<tpc[s], info[s], todo[s], url[s], obj[s]>>
        BY <1>9 DEF SendNext, SendLoop
      <3> QED
        BY <3>1
    <2>2. ASSUME NEW v \in Urls PROVE Mine(t, v)' <=> Mine(t, v)
      <3>1. ASSUME NEW u \in Urls, SendNext(t, u) PROVE Mine(t, v)' <=> Mine(t, v)
        BY <1>9, <3>1 DEF SendNext, SendLoop
      <3>2. CASE todo[t] = {} /\ Go(t, "loop") /\ UNCHANGED <<obj, todo>>
        BY <1>9, <3>2 DEF SendLoop
      <3> QED
        BY <1>9, <3>1, <3>2 DEF SendLoop
    <2>3. staticPushMap' = staticPushMap
      BY <1>9 DEF SendLoop
    <2> HIDE DEF Mine, TypeOK, ObjInv, HandInv
    <2> QED
      BY <2>1, <2>2, <2>3
  <1>10. ASSUME NEW t \in Transports, WritePacket(t) PROVE MapInv'
    BY <1>10 DEF WritePacket
  <1>11. ASSUME NEW t \in Transports, TransStops(t) PROVE MapInv'
    BY <1>11 DEF TransStops
  <1>12. ASSUME NEW t \in Transports, StopLoop(t) PROVE MapInv'
    <2>1. \A s \in Transports \ {t}, v \in Urls : Mine(s, v)' <=> Mine(s, v)
      <3>1. \A s \in Transports \ {t} :
               UNCHANGED <<tpc[s], info[s], todo[s], url[s], obj[s]>>
        BY <1>12 DEF StopNext, StopLoop
      <3> QED
        BY <3>1
    <2>2. ASSUME NEW v \in Urls PROVE Mine(t, v)' <=> Mine(t, v)
      <3>1. ASSUME NEW u \in Urls, StopNext(t, u) PROVE Mine(t, v)' <=> Mine(t, v)
        <4>1. Mine(t, u)
          BY <1>12, <3>1 DEF StopNext, StopLoop
        <4>2. staticPushMap[u] = <<t, u>> /\ staticPushMap[u] # Nil
          <5> HIDE <1>0 DEF Mine, MapInv, TypeOK, ObjInv, HandInv
          <5> QED
            BY <1>0, <4>1, MineMapped
        <4>3. tpc'[t] \in {"ctrl", "release"}
          BY <1>12, <3>1, <4>2 DEF StopNext, StopLoop
        <4>4. UNCHANGED info /\ url'[t] = u /\ todo'[t] = todo[t] \ {u}
          BY <1>12, <3>1 DEF StopNext, StopLoop
        <4> QED
          BY <1>12, <3>1, <4>3, <4>4 DEF StopNext, StopLoop
      <3>2. CASE todo[t] = {} /\ Go(t, "done") /\ UNCHANGED <<url, obj, todo>>
        BY <1>12, <3>2 DEF StopLoop
      <3> QED
        BY <1>12, <3>1, <3>2 DEF StopLoop
    <2>3. staticPushMap' = staticPushMap
      BY <1>12 DEF StopLoop
    <2> HIDE DEF Mine, TypeOK, ObjInv, HandInv
    <2> QED
      BY <2>1, <2>2, <2>3
  <1>13. ASSUME NEW t \in Transports, NEW h \in Objects, StopCtrl(t, h) PROVE MapInv'
    BY <1>13 DEF StopCtrl
  <1>14. ASSUME NEW t \in Transports, StopUnflag(t) PROVE MapInv'
    BY <1>14 DEF StopUnflag
  <1>15. ASSUME NEW t \in Transports, Release(t) PROVE MapInv'
    <2>1. Mine(t, url[t])
      BY <1>15 DEF Release
    <2>2. staticPushMap[url[t]] = <<t, url[t]>>
      BY <2>1
    <2>3. staticPushMap' = [staticPushMap EXCEPT ![url[t]] = Nil]
      BY <1>15 DEF Release
    <2>4. \A s \in Transports \ {t}, v \in Urls : Mine(s, v)' <=> Mine(s, v)
      BY <1>15 DEF Release
    <2>5. \A v \in Urls : Mine(t, v)' <=> (Mine(t, v) /\ v # url[t])
      BY <1>15 DEF Release
    <2> HIDE DEF Mine, TypeOK, ObjInv, HandInv
    <2> QED
      <3>1. \A v \in Urls : v # url[t] => staticPushMap'[v] = staticPushMap[v]
        BY <1>00, <2>3
      <3>2. staticPushMap'[url[t]] = Nil /\ url[t] \in Urls
        BY <1>00, <2>3
      <3>3. \A s \in Transports \ {t} : ~Mine(s, url[t])
        BY <2>2, <3>2
      <3> QED
        <4>1. ASSUME NEW v \in Urls, staticPushMap'[v] # Nil
              PROVE  \E s \in Transports : staticPushMap'[v] = <<s, v>>
          BY <3>1, <3>2, <4>1
        <4>2. ASSUME NEW s \in Transports, NEW v \in Urls
              PROVE  Mine(s, v)' <=> staticPushMap'[v] = <<s, v>>
          <5>1. CASE v = url[t]
            BY <2>4, <2>5, <3>2, <3>3, <5>1, PairNotNil
          <5>2. CASE v # url[t]
            BY <1>01, <2>4, <2>5, <3>1, <5>2
          <5> QED
            BY <5>1, <5>2
        <4> QED
          BY <4>1, <4>2
  <1>16. ASSUME NEW h \in Objects, HandleBegin(h) PROVE MapInv'
    BY <1>16 DEF HandleBegin
  <1>17. ASSUME NEW h \in Objects, HandlePacket(h) PROVE MapInv'
    BY <1>17 DEF HandlePacket
  <1>18. CASE UNCHANGED vars
    BY <1>18 DEF vars
  <1> QED
    BY <1>1, <1>2, <1>3, <1>4, <1>5, <1>6, <1>7, <1>8, <1>9, <1>10, <1>11, <1>12,
       <1>13, <1>14, <1>15, <1>16, <1>17, <1>18
    DEF Next, TransportStep, HandleStep

(* Without a race, each transport works on its own object.                 *)
LEMMA HandKept ==
  ASSUME PushInv, [Next]_vars, races' = {} PROVE HandInv'
  <1> USE PushAssumption DEF Go, objVars, Starting, Stopping
  <1>0. /\ races = {} /\ TypeOK /\ ObjInv /\ MapInv /\ HandInv
    BY NoRaceBefore DEF PushInv
  <1> USE <1>0 DEF TypeOK, ObjInv, Working, HandInv, Objects
  <1>1. ASSUME NEW t \in Transports, TransBegin(t) PROVE HandInv'
    <2>1. PICK i \in BOOLEAN : /\ info' = [info EXCEPT ![t] = i]
                                /\ todo' = [todo EXCEPT ![t] = IF i THEN Urls ELSE {}]
      BY <1>1, TransBeginInfo
    <2> QED
      BY <1>1, <2>1 DEF TransBegin
  <1>2. ASSUME NEW t \in Transports, StartLoop(t) PROVE HandInv'
    <2>1. ASSUME NEW u \in Urls, StartNext(t, u) PROVE HandInv'
      BY <1>2, <2>1 DEF StartNext, StartLoop
    <2>2. CASE todo[t] = {} /\ Go(t, "loop") /\ UNCHANGED <<url, obj, todo>>
      BY <1>2, <2>2 DEF StartLoop
    <2> QED
      BY <1>2, <2>1, <2>2 DEF StartLoop
  <1>3. ASSUME NEW t \in Transports, CreatePush(t) PROVE HandInv'
    BY <1>3 DEF CreatePush
  <1>4. ASSUME NEW t \in Transports, StartTest(t) PROVE HandInv'
    BY <1>4 DEF StartTest
  <1>5. ASSUME NEW t \in Transports, StartDial(t) PROVE HandInv'
    BY <1>5 DEF StartDial
  <1>6. ASSUME NEW t \in Transports, StartSpawn(t) PROVE HandInv'
    BY <1>6 DEF StartSpawn
  <1>7. ASSUME NEW t \in Transports, StartFlag(t) PROVE HandInv'
    BY <1>7 DEF StartFlag
  <1>8. ASSUME NEW t \in Transports, ReadPacket(t) PROVE HandInv'
    BY <1>8 DEF ReadPacket
  <1>9. ASSUME NEW t \in Transports, SendLoop(t) PROVE HandInv'
    <2>1. tpc'[t] \in {"send", "put", "loop"} /\ url' = url
      BY <1>9 DEF SendLoop, SendNext
    <2>2. \A s \in Transports \ {t} : UNCHANGED <<tpc[s], obj[s], todo[s]>>
      BY <1>9 DEF SendLoop, SendNext
    <2>3. UNCHANGED <<handle, hobj>>
      BY <1>9 DEF SendLoop
    <2> QED
      BY <2>1, <2>2, <2>3
  <1>10. ASSUME NEW t \in Transports, WritePacket(t) PROVE HandInv'
    BY <1>10 DEF WritePacket
  <1>11. ASSUME NEW t \in Transports, TransStops(t) PROVE HandInv'
    BY <1>11 DEF TransStops
  <1>12. ASSUME NEW t \in Transports, StopLoop(t) PROVE HandInv'
    <2>1. ASSUME NEW u \in Urls, StopNext(t, u) PROVE HandInv'
      <3>1. staticPushMap[u] = <<t, u>>
        BY <1>12, <2>1 DEF StopNext, StopLoop, MapInv, Mine
      <3> QED
        BY <1>12, <2>1, <3>1, PairNotNil DEF StopNext, StopLoop
    <2>2. CASE todo[t] = {} /\ Go(t, "done") /\ UNCHANGED <<url, obj, todo>>
      BY <1>12, <2>2 DEF StopLoop
    <2> QED
      BY <1>12, <2>1, <2>2 DEF StopLoop
  <1>13. ASSUME NEW t \in Transports, NEW h \in Objects, StopCtrl(t, h) PROVE HandInv'
    BY <1>13 DEF StopCtrl
  <1>14. ASSUME NEW t \in Transports, StopUnflag(t) PROVE HandInv'
    BY <1>14 DEF StopUnflag
  <1>15. ASSUME NEW t \in Transports, Release(t) PROVE HandInv'
    BY <1>15 DEF Release
  <1>16. ASSUME NEW h \in Objects, HandleBegin(h) PROVE HandInv'
    BY <1>16 DEF HandleBegin
  <1>17. ASSUME NEW h \in Objects, HandlePacket(h) PROVE HandInv'
    BY <1>17 DEF HandlePacket
  <1>18. CASE UNCHANGED vars
    BY <1>18 DEF vars
  <1> QED
    BY <1>1, <1>2, <1>3, <1>4, <1>5, <1>6, <1>7, <1>8, <1>9, <1>10, <1>11, <1>12,
       <1>13, <1>14, <1>15, <1>16, <1>17, <1>18
    DEF Next, TransportStep, HandleStep

(* The stage depends on the transport alone.                               *)
LEMMA StageLocal ==
  ASSUME NEW s \in Transports, NEW v \in Urls, tpc'[s] = tpc[s], info'[s] = info[s],
         todo'[s] = todo[s], url'[s] = url[s], obj'[s] = obj[s]
  PROVE  Stage(s, v)' = Stage(s, v)
  BY DEF Stage, NotYet, Mine, InHand

(* An object that is left alone still fits its stage.                      *)
Same(o) ==
    /\ dialled'[o] = dialled[o] /\ startflag'[o] = startflag[o]
    /\ client'[o] = client[o] /\ handle'[o] = handle[o]
LEMMA FitsSame ==
  ASSUME NEW o, NEW stage, Fits(stage, o), Same(o)
  PROVE  Fits(stage, o)'
  BY DEF Fits, Same, Untouched, Pushed

(* Without a race, each step brings the object in hand to its next stage   *)
(* and leaves the others in theirs.                                        *)
LEMMA PhaseKept ==
  ASSUME PushInv, [Next]_vars, races' = {} PROVE PhaseInv'
  <1> USE DEF Go, objVars
  <1>0. /\ races = {} /\ TypeOK /\ ObjInv /\ MapInv /\ HandInv /\ PhaseInv
    BY NoRaceBefore DEF PushInv
  <1>00. /\ DOMAIN tpc = Transports /\ info \in [Transports -> BOOLEAN]
         /\ todo \in [Transports -> SUBSET Urls] /\ url \in [Transports -> Urls]
         /\ DOMAIN obj = Transports
         /\ DOMAIN dialled = Objects /\ startflag \in [Objects -> BOOLEAN]
         /\ DOMAIN client = Objects /\ DOMAIN handle = Objects
    BY <1>0 DEF TypeOK
  <1>01. \A t \in Transports, u \in Urls : Fits(Stage(t, u), <<t, u>>) /\ <<t, u>> \in Objects
    BY <1>0 DEF PhaseInv, Objects
  <1>02. ASSUME NEW t \in Transports, NEW u \in Urls,
                \A s \in Transports, v \in Urls :
                   s # t \/ v # u => Stage(s, v)' = Stage(s, v) /\ Same(<<s, v>>),
                Fits(Stage(t, u), <<t, u>>)'
         PROVE  PhaseInv'
    <2>1. ASSUME NEW s \in Transports, NEW v \in Urls PROVE Fits(Stage(s, v), <<s, v>>)'
      <3>1. CASE s = t /\ v = u
        BY <1>02, <3>1
      <3>2. CASE ~(s = t /\ v = u)
        <4>1. Stage(s, v)' = Stage(s, v) /\ Same(<<s, v>>)
          BY <1>02, <3>2
        <4> QED
          BY <1>01, <4>1, FitsSame
      <3> QED
        BY <3>1, <3>2
    <2> QED
      BY <2>1 DEF PhaseInv
  <1>03. ASSUME \A s \in Transports, v \in Urls : Stage(s, v)' = Stage(s, v) /\ Same(<<s, v>>)
         PROVE  PhaseInv'
    BY <1>01, <1>03, FitsSame DEF PhaseInv
  <1>1. ASSUME NEW t \in Transports, TransBegin(t) PROVE PhaseInv'
    <2>1. PICK i \in BOOLEAN : /\ info' = [info EXCEPT ![t] = i]
                                /\ todo' = [todo EXCEPT ![t] = IF i THEN Urls ELSE {}]
      BY <1>1, <1>00, TransBeginInfo
    <2>2. ASSUME NEW s \in Transports, s # t, NEW v \in Urls
          PROVE  Stage(s, v)' = Stage(s, v)
      <3>1. /\ tpc'[s] = tpc[s] /\ info'[s] = info[s] /\ todo'[s] = todo[s]
            /\ url'[s] = url[s] /\ obj'[s] = obj[s]
        BY <1>1, <1>00, <2>1, <2>2 DEF TransBegin
      <3> QED
        BY <3>1, StageLocal
    <2>3. ASSUME NEW v \in Urls PROVE Stage(t, v)' = Stage(t, v)
      BY <1>1, <1>0, <1>00, <2>1
      DEF TransBegin, ObjInv, Stage, NotYet, Mine, InHand, Starting, Stopping
    <2>4. \A o : Same(o)
      BY <1>1 DEF TransBegin, Same
    <2> QED
      BY <1>03, <2>2, <2>3, <2>4
  <1>2. ASSUME NEW t \in Transports, StartLoop(t) PROVE PhaseInv'
    <2>1. ASSUME NEW s \in Transports, s # t, NEW v \in Urls
          PROVE  Stage(s, v)' = Stage(s, v)
      <3>1. /\ tpc'[s] = tpc[s] /\ info'[s] = info[s] /\ todo'[s] = todo[s]
            /\ url'[s] = url[s] /\ obj'[s] = obj[s]
        BY <1>2, <1>00, <2>1 DEF StartNext, StartLoop
      <3> QED
        BY <3>1, StageLocal
    <2>2. ASSUME NEW v \in Urls PROVE Stage(t, v)' = Stage(t, v)
      <3>1. ASSUME NEW u \in Urls, StartNext(t, u) PROVE Stage(t, v)' = Stage(t, v)
        <4>1. ~Mine(t, u)
          BY <1>2, <3>1 DEF StartNext, StartLoop, Mine, Starting, Stopping
        <4>2. staticPushMap[u] # <<t, u>>
          BY <1>0, <4>1 DEF MapInv
        <4> QED
          BY <1>2, <1>0, <1>00, <3>1, <4>2
          DEF StartNext, StartLoop, Stage, NotYet, Mine, InHand, Starting, Stopping,
              ObjInv
      <3>2. CASE todo[t] = {} /\ Go(t, "loop") /\ UNCHANGED <<url, obj, todo>>
        BY <1>2, <1>0, <1>00, <3>2
        DEF StartLoop, Stage, NotYet, Mine, InHand, Starting, Stopping, ObjInv
      <3> QED
        BY <1>2, <3>1, <3>2 DEF StartLoop
    <2>3. \A o : Same(o)
      BY <1>2 DEF StartLoop, Same
    <2> QED
      BY <1>03, <2>1, <2>2, <2>3
  <1>3. ASSUME NEW t \in Transports, CreatePush(t) PROVE PhaseInv'
    <2>1. ASSUME NEW s \in Transports, s # t, NEW v \in Urls
          PROVE  Stage(s, v)' = Stage(s, v)
      <3>1. /\ tpc'[s] = tpc[s] /\ info'[s] = info[s] /\ todo'[s] = todo[s]
            /\ url'[s] = url[s] /\ obj'[s] = obj[s]
        BY <1>3, <1>00, <2>1 DEF CreatePush
      <3> QED
        BY <3>1, StageLocal
    <2>2. PICK u \in Urls : u = url[t]
      BY <1>00
    <2>3. obj[t] = <<t, u>> /\ info[t] /\ u \notin todo[t] /\ <<t, u>> \in Objects
      BY <1>3, <1>0, <1>01, <2>2
      DEF CreatePush, HandInv, ObjInv, Working, Starting, Stopping
    <2>4. ASSUME NEW v \in Urls, v # u PROVE Stage(t, v)' = Stage(t, v)
      BY <1>3, <1>00, <2>2, <2>3, <2>4
      DEF CreatePush, Stage, NotYet, Mine, InHand, Starting, Stopping
    <2>5. Stage(t, u) = "notyet" /\ Fits("notyet", <<t, u>>)
      <3>1. Stage(t, u) = "notyet"
        BY <1>3, <1>00, <2>2, <2>3
        DEF CreatePush, Stage, NotYet, Mine, InHand, Starting, Stopping
      <3> QED
        BY <1>01, <3>1
    <2>6. ASSUME NEW o \in Objects, o # <<t, u>> PROVE Same(o)
      BY <1>3, <1>00, <2>2, <2>3, <2>5, <2>6 DEF CreatePush, Same
    <2>7. Fits(Stage(t, u), <<t, u>>)'
      <3>1. Stage(t, u)' = "test"
        BY <1>3, <1>00, <2>2, <2>3
        DEF CreatePush, Stage, NotYet, Mine, InHand, Starting, Stopping
      <3>2. Fits("test", <<t, u>>)'
        BY <1>3, <1>00, <2>2, <2>3, <2>5 DEF CreatePush, Fits, Untouched, Pushed
      <3> QED
        BY <3>1, <3>2
    <2>8. ASSUME NEW s \in Transports, NEW v \in Urls, s # t \/ v # u
          PROVE  Stage(s, v)' = Stage(s, v) /\ Same(<<s, v>>)
      <3>1. <<s, v>> # <<t, u>>
        BY <2>8
      <3> QED
        BY <1>01, <2>1, <2>4, <2>6, <2>8, <3>1
    <2> QED
      BY <1>02, <2>7, <2>8
  <1>4. ASSUME NEW t \in Transports, StartTest(t) PROVE PhaseInv'
    <2>1. ASSUME NEW s \in Transports, s # t, NEW v \in Urls
          PROVE  Stage(s, v)' = Stage(s, v)
      <3>1. /\ tpc'[s] = tpc[s] /\ info'[s] = info[s] /\ todo'[s] = todo[s]
            /\ url'[s] = url[s] /\ obj'[s] = obj[s]
        BY <1>4, <1>00, <2>1 DEF StartTest
      <3> QED
        BY <3>1, StageLocal
    <2>2. PICK u \in Urls : u = url[t]
      BY <1>00
    <2>3. obj[t] = <<t, u>> /\ info[t] /\ u \notin todo[t] /\ <<t, u>> \in Objects
      BY <1>4, <1>0, <1>01, <2>2, PairNotNil
      DEF StartTest, HandInv, ObjInv, Working, Starting, Stopping
    <2>4. ASSUME NEW v \in Urls, v # u PROVE Stage(t, v)' = Stage(t, v)
      BY <1>4, <1>00, <2>2, <2>3, <2>4
      DEF StartTest, Stage, NotYet, Mine, InHand, Starting, Stopping
    <2>5. Stage(t, u) = "test" /\ Fits("test", <<t, u>>)
      <3>1. Stage(t, u) = "test"
        BY <1>4, <1>00, <2>2, <2>3
        DEF StartTest, Stage, NotYet, Mine, InHand, Starting, Stopping
      <3> QED
        BY <1>01, <3>1
    <2>6. ASSUME NEW o \in Objects, o # <<t, u>> PROVE Same(o)
      BY <1>4, <1>00, <2>2, <2>3, <2>5, <2>6 DEF StartTest, Same
    <2>7. Fits(Stage(t, u), <<t, u>>)'
      <3>0. ~startflag[obj[t]]
        BY <2>3, <2>5 DEF Fits, Untouched
      <3>1. Stage(t, u)' = "dial"
        BY <1>4, <1>00, <2>2, <2>3, <3>0
        DEF StartTest, Stage, NotYet, Mine, InHand, Starting, Stopping
      <3>2. Fits("dial", <<t, u>>)'
        BY <1>4, <1>00, <2>2, <2>3, <2>5 DEF StartTest, Fits, Untouched, Pushed
      <3> QED
        BY <3>1, <3>2
    <2>8. ASSUME NEW s \in Transports, NEW v \in Urls, s # t \/ v # u
          PROVE  Stage(s, v)' = Stage(s, v) /\ Same(<<s, v>>)
      <3>1. <<s, v>> # <<t, u>>
        BY <2>8
      <3> QED
        BY <1>01, <2>1, <2>4, <2>6, <2>8, <3>1
    <2> QED
      BY <1>02, <2>7, <2>8
  <1>5. ASSUME NEW t \in Transports, StartDial(t) PROVE PhaseInv'
    <2>1. ASSUME NEW s \in Transports, s # t, NEW v \in Urls
          PROVE  Stage(s, v)' = Stage(s, v)
      <3>1. /\ tpc'[s] = tpc[s] /\ info'[s] = info[s] /\ todo'[s] = todo[s]
            /\ url'[s] = url[s] /\ obj'[s] = obj[s]
        BY <1>5, <1>00, <2>1 DEF StartDial
      <3> QED
        BY <3>1, StageLocal
    <2>2. PICK u \in Urls : u = url[t]
      BY <1>00
    <2>3. obj[t] = <<t, u>> /\ info[t] /\ u \notin todo[t] /\ <<t, u>> \in Objects
      BY <1>5, <1>0, <1>01, <2>2
      DEF StartDial, HandInv, ObjInv, Working, Starting, Stopping
    <2>4. ASSUME NEW v \in Urls, v # u PROVE Stage(t, v)' = Stage(t, v)
      BY <1>5, <1>00, <2>2, <2>3, <2>4
      DEF StartDial, Stage, NotYet, Mine, InHand, Starting, Stopping
    <2>5. Stage(t, u) = "dial" /\ Fits("dial", <<t, u>>)
      <3>1. Stage(t, u) = "dial"
        BY <1>5, <1>00, <2>2, <2>3
        DEF StartDial, Stage, NotYet, Mine, InHand, Starting, Stopping
      <3> QED
        BY <1>01, <3>1
    <2>6. ASSUME NEW o \in Objects, o # <<t, u>> PROVE Same(o)
      BY <1>5, <1>00, <2>2, <2>3, <2>5, <2>6 DEF StartDial, Same
    <2>7. Fits(Stage(t, u), <<t, u>>)'
      <3>1. CASE dialled' = [dialled EXCEPT ![<<t, u>>] = "open"] /\ Go(t, "spawn")
        <4>1. Stage(t, u)' = "spawn"
          BY <1>5, <1>00, <2>2, <2>3, <3>1
          DEF StartDial, Stage, NotYet, Mine, InHand, Starting, Stopping
        <4>2. Fits("spawn", <<t, u>>)'
          BY <1>5, <1>00, <2>2, <2>3, <2>5, <3>1
          DEF StartDial, Fits, Untouched, Pushed
        <4> QED
          BY <4>1, <4>2
      <3>2. CASE dialled' = dialled /\ Go(t, "start")
        <4>1. Stage(t, u)' = "kept"
          BY <1>5, <1>00, <2>2, <2>3, <3>2
          DEF StartDial, Stage, NotYet, Mine, InHand, Starting, Stopping
        <4>2. Fits("kept", <<t, u>>)'
          BY <1>5, <1>00, <2>2, <2>3, <2>5, <3>2
          DEF StartDial, Fits, Untouched, Pushed
        <4> QED
          BY <4>1, <4>2
      <3> QED
        BY <1>5, <2>2, <3>1, <3>2 DEF StartDial
    <2>8. ASSUME NEW s \in Transports, NEW v \in Urls, s # t \/ v # u
          PROVE  Stage(s, v)' = Stage(s, v) /\ Same(<<s, v>>)
      <3>1. <<s, v>> # <<t, u>>
        BY <2>8
      <3> QED
        BY <1>01, <2>1, <2>4, <2>6, <2>8, <3>1
    <2> QED
      BY <1>02, <2>7, <2>8
  <1>6. ASSUME NEW t \in Transports, StartSpawn(t) PROVE PhaseInv'
    <2>1. ASSUME NEW s \in Transports, s # t, NEW v \in Urls
          PROVE  Stage(s, v)' = Stage(s, v)
      <3>1. /\ tpc'[s] = tpc[s] /\ info'[s] = info[s] /\ todo'[s] = todo[s]
            /\ url'[s] = url[s] /\ obj'[s] = obj[s]
        BY <1>6, <1>00, <2>1 DEF StartSpawn
      <3> QED
        BY <3>1, StageLocal
    <2>2. PICK u \in Urls : u = url[t]
      BY <1>00
    <2>3. obj[t] = <<t, u>> /\ info[t] /\ u \notin todo[t] /\ <<t, u>> \in Objects
      BY <1>6, <1>0, <1>01, <2>2
      DEF StartSpawn, HandInv, ObjInv, Working, Starting, Stopping
    <2>4. ASSUME NEW v \in Urls, v # u PROVE Stage(t, v)' = Stage(t, v)
      BY <1>6, <1>00, <2>2, <2>3, <2>4
      DEF StartSpawn, Stage, NotYet, Mine, InHand, Starting, Stopping
    <2>5. Stage(t, u) = "spawn" /\ Fits("spawn", <<t, u>>)
      <3>1. Stage(t, u) = "spawn"
        BY <1>6, <1>00, <2>2, <2>3
        DEF StartSpawn, Stage, NotYet, Mine, InHand, Starting, Stopping
      <3> QED
        BY <1>01, <3>1
    <2>6. ASSUME NEW o \in Objects, o # <<t, u>> PROVE Same(o)
      BY <1>6, <1>00, <2>2, <2>3, <2>5, <2>6 DEF StartSpawn, Same
    <2>7. Fits(Stage(t, u), <<t, u>>)'
      <3>1. Stage(t, u)' = "flag"
        BY <1>6, <1>00, <2>2, <2>3
        DEF StartSpawn, Stage, NotYet, Mine, InHand, Starting, Stopping
      <3>2. Fits("flag", <<t, u>>)'
        BY <1>6, <1>00, <2>2, <2>3, <2>5 DEF StartSpawn, Fits, Untouched, Pushed
      <3> QED
        BY <3>1, <3>2
    <2>8. ASSUME NEW s \in Transports, NEW v \in Urls, s # t \/ v # u
          PROVE  Stage(s, v)' = Stage(s, v) /\ Same(<<s, v>>)
      <3>1. <<s, v>> # <<t, u>>
        BY <2>8
      <3> QED
        BY <1>01, <2>1, <2>4, <2>6, <2>8, <3>1
    <2> QED
      BY <1>02, <2>7, <2>8
  <1>7. ASSUME NEW t \in Transports, StartFlag(t) PROVE PhaseInv'
    <2>1. ASSUME NEW s \in Transports, s # t, NEW v \in Urls
          PROVE  Stage(s, v)' = Stage(s, v)
      <3>1. /\ tpc'[s] = tpc[s] /\ info'[s] = info[s] /\ todo'[s] = todo[s]
            /\ url'[s] = url[s] /\ obj'[s] = obj[s]
        BY <1>7, <1>00, <2>1 DEF StartFlag
      <3> QED
        BY <3>1, StageLocal
    <2>2. PICK u \in Urls : u = url[t]
      BY <1>00
    <2>3. obj[t] = <<t, u>> /\ info[t] /\ u \notin todo[t] /\ <<t, u>> \in Objects
      BY <1>7, <1>0, <1>01, <2>2
      DEF StartFlag, HandInv, ObjInv, Working, Starting, Stopping
    <2>4. ASSUME NEW v \in Urls, v # u PROVE Stage(t, v)' = Stage(t, v)
      BY <1>7, <1>00, <2>2, <2>3, <2>4
      DEF StartFlag, Stage, NotYet, Mine, InHand, Starting, Stopping
    <2>5. Stage(t, u) = "flag" /\ Fits("flag", <<t, u>>)
      <3>1. Stage(t, u) = "flag"
        BY <1>7, <1>00, <2>2, <2>3
        DEF StartFlag, Stage, NotYet, Mine, InHand, Starting, Stopping
      <3> QED
        BY <1>01, <3>1
    <2>6. ASSUME NEW o \in Objects, o # <<t, u>> PROVE Same(o)
      BY <1>7, <1>00, <2>2, <2>3, <2>5, <2>6 DEF StartFlag, Same
    <2>7. Fits(Stage(t, u), <<t, u>>)'
      <3>1. Stage(t, u)' = "kept"
        BY <1>7, <1>00, <2>2, <2>3
        DEF StartFlag, Stage, NotYet, Mine, InHand, Starting, Stopping
      <3>2. Fits("kept", <<t, u>>)'
        BY <1>7, <1>00, <2>2, <2>3, <2>5 DEF StartFlag, Fits, Untouched, Pushed
      <3> QED
        BY <3>1, <3>2
    <2>8. ASSUME NEW s \in Transports, NEW v \in Urls, s # t \/ v # u
          PROVE  Stage(s, v)' = Stage(s, v) /\ Same(<<s, v>>)
      <3>1. <<s, v>> # <<t, u>>
        BY <2>8
      <3> QED
        BY <1>01, <2>1, <2>4, <2>6, <2>8, <3>1
    <2> QED
      BY <1>02, <2>7, <2>8
  <1>8. ASSUME NEW t \in Transports, ReadPacket(t) PROVE PhaseInv'
    <2>1. ASSUME NEW s \in Transports, s # t, NEW v \in Urls
          PROVE  Stage(s, v)' = Stage(s, v)
      <3>1. /\ tpc'[s] = tpc[s] /\ info'[s] = info[s] /\ todo'[s] = todo[s]
            /\ url'[s] = url[s] /\ obj'[s] = obj[s]
        BY <1>8, <1>00, <2>1 DEF ReadPacket
      <3> QED
        BY <3>1, StageLocal
    <2>2. ASSUME NEW v \in Urls PROVE Stage(t, v)' = Stage(t, v)
      BY <1>8, <1>0, <1>00
      DEF ReadPacket, Stage, NotYet, Mine, InHand, Starting, Stopping, ObjInv,
          HandInv
    <2>3. \A o : Same(o)
      BY <1>8 DEF ReadPacket, Same
    <2> QED
      BY <1>03, <2>1, <2>2, <2>3
  <1>9. ASSUME NEW t \in Transports, SendLoop(t) PROVE PhaseInv'
    <2>1. ASSUME NEW s \in Transports, s # t, NEW v \in Urls
          PROVE  Stage(s, v)' = Stage(s, v)
      <3>1. /\ tpc'[s] = tpc[s] /\ info'[s] = info[s] /\ todo'[s] = todo[s]
            /\ url'[s] = url[s] /\ obj'[s] = obj[s]
        BY <1>9, <1>00, <2>1 DEF SendNext, SendLoop
      <3> QED
        BY <3>1, StageLocal
    <2>2. ASSUME NEW v \in Urls PROVE Stage(t, v)' = Stage(t, v)
      <3>1. ASSUME NEW u \in Urls, SendNext(t, u) PROVE Stage(t, v)' = Stage(t, v)
        BY <1>9, <1>0, <1>00, <3>1
        DEF SendNext, SendLoop, Stage, NotYet, Mine, InHand, Starting, Stopping,
            ObjInv
      <3>2. CASE todo[t] = {} /\ Go(t, "loop") /\ UNCHANGED <<obj, todo>>
        BY <1>9, <1>0, <1>00, <3>2
        DEF SendLoop, Stage, NotYet, Mine, InHand, Starting, Stopping, ObjInv
      <3> QED
        BY <1>9, <3>1, <3>2 DEF SendLoop
    <2>3. \A o : Same(o)
      BY <1>9 DEF SendLoop, Same
    <2> QED
      BY <1>03, <2>1, <2>2, <2>3
  <1>10. ASSUME NEW t \in Transports, WritePacket(t) PROVE PhaseInv'
    <2>1. ASSUME NEW s \in Transports, s # t, NEW v \in Urls
          PROVE  Stage(s, v)' = Stage(s, v)
      <3>1. /\ tpc'[s] = tpc[s] /\ info'[s] = info[s] /\ todo'[s] = todo[s]
            /\ url'[s] = url[s] /\ obj'[s] = obj[s]
        BY <1>10, <1>00, <2>1 DEF WritePacket
      <3> QED
        BY <3>1, StageLocal
    <2>2. ASSUME NEW v \in Urls PROVE Stage(t, v)' = Stage(t, v)
      BY <1>10, <1>0, <1>00
      DEF WritePacket, Stage, NotYet, Mine, InHand, Starting, Stopping, ObjInv,
          HandInv
    <2>3. \A o : Same(o)
      BY <1>10 DEF WritePacket, Same
    <2> QED
      BY <1>03, <2>1, <2>2, <2>3
  <1>11. ASSUME NEW t \in Transports, TransStops(t) PROVE PhaseInv'
    <2>1. ASSUME NEW s \in Transports, s # t, NEW v \in Urls
          PROVE  Stage(s, v)' = Stage(s, v)
      <3>1. /\ tpc'[s] = tpc[s] /\ info'[s] = info[s] /\ todo'[s] = todo[s]
            /\ url'[s] = url[s] /\ obj'[s] = obj[s]
        BY <1>11, <1>00, <2>1 DEF TransStops
      <3> QED
        BY <3>1, StageLocal
    <2>2. ASSUME NEW v \in Urls PROVE Stage(t, v)' = Stage(t, v)
      BY <1>11, <1>0, <1>00
      DEF TransStops, Stage, NotYet, Mine, InHand, Starting, Stopping, ObjInv,
          HandInv
    <2>3. \A o : Same(o)
      BY <1>11 DEF TransStops, Same
    <2> QED
      BY <1>03, <2>1, <2>2, <2>3
  <1>12. ASSUME NEW t \in Transports, StopLoop(t) PROVE PhaseInv'
    <2>1. ASSUME NEW s \in Transports, s # t, NEW v \in Urls
          PROVE  Stage(s, v)' = Stage(s, v)
      <3>1. /\ tpc'[s] = tpc[s] /\ info'[s] = info[s] /\ todo'[s] = todo[s]
            /\ url'[s] = url[s] /\ obj'[s] = obj[s]
        BY <1>12, <1>00, <2>1 DEF StopNext, StopLoop
      <3> QED
        BY <3>1, StageLocal
    <2>2. \A o : Same(o)
      BY <1>12 DEF StopLoop, Same
    <2>3. ASSUME NEW u \in Urls, StopNext(t, u) PROVE PhaseInv'
      <3>1. Mine(t, u) /\ Stage(t, u) = "kept"
        BY <1>12, <1>0, <1>00, <2>3
        DEF StopNext, StopLoop, ObjInv, Stage, NotYet, Mine, InHand, Starting,
            Stopping
      <3>2. staticPushMap[u] = <<t, u>> /\ staticPushMap[u] # Nil
        BY <1>0, <3>1, MineMapped
      <3>3. ASSUME NEW v \in Urls, v # u PROVE Stage(t, v)' = Stage(t, v)
        BY <1>12, <1>00, <2>3, <3>2, <3>3
        DEF StopNext, StopLoop, Stage, NotYet, Mine, InHand, Starting, Stopping
      <3>4. Stage(t, u)' = IF startflag[<<t, u>>] THEN "ctrl" ELSE "release"
        BY <1>12, <1>0, <1>00, <2>3, <3>2
        DEF StopNext, StopLoop, ObjInv, Stage, NotYet, Mine, InHand, Starting,
            Stopping
      <3>5. Fits("kept", <<t, u>>)
        BY <1>01, <3>1
      <3>6. Fits(IF startflag[<<t, u>>] THEN "ctrl" ELSE "release", <<t, u>>)
        BY <3>5 DEF Fits, Untouched, Pushed
      <3>7. Fits(Stage(t, u), <<t, u>>)'
        BY <2>2, <3>4, <3>6, FitsSame
      <3>8. ASSUME NEW s \in Transports, NEW v \in Urls, s # t \/ v # u
            PROVE  Stage(s, v)' = Stage(s, v) /\ Same(<<s, v>>)
        BY <2>1, <2>2, <3>3, <3>8
      <3> QED
        BY <1>02, <3>7, <3>8
    <2>4. CASE todo[t] = {} /\ Go(t, "done") /\ UNCHANGED <<url, obj, todo>>
      <3>1. ASSUME NEW v \in Urls PROVE Stage(t, v)' = Stage(t, v)
        BY <1>12, <1>00, <2>4
        DEF StopLoop, Stage, NotYet, Mine, InHand, Starting, Stopping
      <3> QED
        BY <1>03, <2>1, <2>2, <3>1
    <2> QED
      BY <1>12, <2>3, <2>4 DEF StopLoop
  <1>13. ASSUME NEW t \in Transports, NEW h \in Objects, StopCtrl(t, h) PROVE PhaseInv'
    <2>1. ASSUME NEW s \in Transports, s # t, NEW v \in Urls
          PROVE  Stage(s, v)' = Stage(s, v)
      <3>1. /\ tpc'[s] = tpc[s] /\ info'[s] = info[s] /\ todo'[s] = todo[s]
            /\ url'[s] = url[s] /\ obj'[s] = obj[s]
        BY <1>13, <1>00, <2>1 DEF StopCtrl
      <3> QED
        BY <3>1, StageLocal
    <2>2. PICK u \in Urls : u = url[t]
      BY <1>00
    <2>3. obj[t] = <<t, u>> /\ info[t] /\ u \notin todo[t] /\ <<t, u>> \in Objects
      BY <1>13, <1>0, <1>01, <2>2
      DEF StopCtrl, HandInv, ObjInv, Working, Starting, Stopping
    <2>4. ASSUME NEW v \in Urls, v # u PROVE Stage(t, v)' = Stage(t, v)
      BY <1>13, <1>00, <2>2, <2>3, <2>4
      DEF StopCtrl, Stage, NotYet, Mine, InHand, Starting, Stopping
    <2>5. Stage(t, u) = "ctrl" /\ Fits("ctrl", <<t, u>>)
      <3>1. Stage(t, u) = "ctrl"
        BY <1>13, <1>00, <2>2, <2>3
        DEF StopCtrl, Stage, NotYet, Mine, InHand, Starting, Stopping
      <3> QED
        BY <1>01, <3>1
    <2>6. ASSUME NEW o \in Objects, o # <<t, u>> PROVE Same(o)
      BY <1>13, <1>00, <2>2, <2>3, <2>5, <2>6
      DEF StopCtrl, Same, Fits, Untouched, Pushed
    <2>7. Fits(Stage(t, u), <<t, u>>)'
      <3>1. Stage(t, u)' = "unflag"
        BY <1>13, <1>00, <2>2, <2>3
        DEF StopCtrl, Stage, NotYet, Mine, InHand, Starting, Stopping
      <3>2. Fits("unflag", <<t, u>>)'
        BY <1>13, <1>00, <2>2, <2>3, <2>5 DEF StopCtrl, Fits, Untouched, Pushed
      <3> QED
        BY <3>1, <3>2
    <2>8. ASSUME NEW s \in Transports, NEW v \in Urls, s # t \/ v # u
          PROVE  Stage(s, v)' = Stage(s, v) /\ Same(<<s, v>>)
      <3>1. <<s, v>> # <<t, u>>
        BY <2>8
      <3> QED
        BY <1>01, <2>1, <2>4, <2>6, <2>8, <3>1
    <2> QED
      BY <1>02, <2>7, <2>8
  <1>14. ASSUME NEW t \in Transports, StopUnflag(t) PROVE PhaseInv'
    <2>1. ASSUME NEW s \in Transports, s # t, NEW v \in Urls
          PROVE  Stage(s, v)' = Stage(s, v)
      <3>1. /\ tpc'[s] = tpc[s] /\ info'[s] = info[s] /\ todo'[s] = todo[s]
            /\ url'[s] = url[s] /\ obj'[s] = obj[s]
        BY <1>14, <1>00, <2>1 DEF StopUnflag
      <3> QED
        BY <3>1, StageLocal
    <2>2. PICK u \in Urls : u = url[t]
      BY <1>00
    <2>3. obj[t] = <<t, u>> /\ info[t] /\ u \notin todo[t] /\ <<t, u>> \in Objects
      BY <1>14, <1>0, <1>01, <2>2
      DEF StopUnflag, HandInv, ObjInv, Working, Starting, Stopping
    <2>4. ASSUME NEW v \in Urls, v # u PROVE Stage(t, v)' = Stage(t, v)
      BY <1>14, <1>00, <2>2, <2>3, <2>4
      DEF StopUnflag, Stage, NotYet, Mine, InHand, Starting, Stopping
    <2>5. Stage(t, u) = "unflag" /\ Fits("unflag", <<t, u>>)
      <3>1. Stage(t, u) = "unflag"
        BY <1>14, <1>00, <2>2, <2>3
        DEF StopUnflag, Stage, NotYet, Mine, InHand, Starting, Stopping
      <3> QED
        BY <1>01, <3>1
    <2>6. ASSUME NEW o \in Objects, o # <<t, u>> PROVE Same(o)
      BY <1>14, <1>00, <2>2, <2>3, <2>5, <2>6 DEF StopUnflag, Same
    <2>7. Fits(Stage(t, u), <<t, u>>)'
      <3>1. Stage(t, u)' = "release"
        BY <1>14, <1>00, <2>2, <2>3
        DEF StopUnflag, Stage, NotYet, Mine, InHand, Starting, Stopping
      <3>2. Fits("release", <<t, u>>)'
        BY <1>14, <1>00, <2>2, <2>3, <2>5 DEF StopUnflag, Fits, Untouched, Pushed
      <3> QED
        BY <3>1, <3>2
    <2>8. ASSUME NEW s \in Transports, NEW v \in Urls, s # t \/ v # u
          PROVE  Stage(s, v)' = Stage(s, v) /\ Same(<<s, v>>)
      <3>1. <<s, v>> # <<t, u>>
        BY <2>8
      <3> QED
        BY <1>01, <2>1, <2>4, <2>6, <2>8, <3>1
    <2> QED
      BY <1>02, <2>7, <2>8
  <1>15. ASSUME NEW t \in Transports, Release(t) PROVE PhaseInv'
    <2>1. ASSUME NEW s \in Transports, s # t, NEW v \in Urls
          PROVE  Stage(s, v)' = Stage(s, v)
      <3>1. /\ tpc'[s] = tpc[s] /\ info'[s] = info[s] /\ todo'[s] = todo[s]
            /\ url'[s] = url[s] /\ obj'[s] = obj[s]
        BY <1>15, <1>00, <2>1 DEF Release
      <3> QED
        BY <3>1, StageLocal
    <2>2. PICK u \in Urls : u = url[t]
      BY <1>00
    <2>3. obj[t] = <<t, u>> /\ info[t] /\ u \notin todo[t] /\ <<t, u>> \in Objects
      BY <1>15, <1>0, <1>01, <2>2
      DEF Release, HandInv, ObjInv, Working, Starting, Stopping
    <2>4. ASSUME NEW v \in Urls, v # u PROVE Stage(t, v)' = Stage(t, v)
      BY <1>15, <1>00, <2>2, <2>3, <2>4
      DEF Release, Stage, NotYet, Mine, InHand, Starting, Stopping
    <2>5. Stage(t, u) = "release" /\ Fits("release", <<t, u>>)
      <3>1. Stage(t, u) = "release"
        BY <1>15, <1>00, <2>2, <2>3
        DEF Release, Stage, NotYet, Mine, InHand, Starting, Stopping
      <3> QED
        BY <1>01, <3>1
    <2>6. ASSUME NEW o \in Objects, o # <<t, u>> PROVE Same(o)
      BY <1>15, <1>00, <2>2, <2>3, <2>5, <2>6 DEF Release, Same
    <2>7. Fits(Stage(t, u), <<t, u>>)'
      <3>1. Stage(t, u)' = "gone"
        BY <1>15, <1>00, <2>2, <2>3
        DEF Release, Stage, NotYet, Mine, InHand, Starting, Stopping
      <3>2. Fits("gone", <<t, u>>)'
        BY <1>15, <1>00, <2>2, <2>3, <2>5 DEF Release, Fits, Untouched, Pushed
      <3> QED
        BY <3>1, <3>2
    <2>8. ASSUME NEW s \in Transports, NEW v \in Urls, s # t \/ v # u
          PROVE  Stage(s, v)' = Stage(s, v) /\ Same(<<s, v>>)
      <3>1. <<s, v>> # <<t, u>>
        BY <2>8
      <3> QED
        BY <1>01, <2>1, <2>4, <2>6, <2>8, <3>1
    <2> QED
      BY <1>02, <2>7, <2>8
  <1>16. ASSUME NEW h \in Objects, HandleBegin(h) PROVE PhaseInv'
    <2>1. ASSUME NEW s \in Transports, NEW v \in Urls PROVE Stage(s, v)' = Stage(s, v)
      BY <1>16, StageLocal DEF HandleBegin
    <2>2. PICK t \in Transports, u \in Urls : h = <<t, u>>
      BY DEF Objects
    <2>3. handle[h] = "spawned" /\ startflag[h] /\ handle'[h] = "select"
      BY <1>16, <1>0, <1>00 DEF HandleBegin, HandInv
    <2>4. ASSUME NEW o \in Objects, o # h PROVE Same(o)
      BY <1>16, <1>00, <2>4 DEF HandleBegin, Same
    <2>5. Fits(Stage(t, u), <<t, u>>)'
      <3>1. Fits(Stage(t, u), h) /\ UNCHANGED <<dialled, startflag, client>>
        BY <1>16, <1>01, <2>2 DEF HandleBegin
      <3>2. Fits(Stage(t, u), h)'
        BY <2>1, <2>3, <3>1 DEF Fits, Untouched, Pushed
      <3> QED
        BY <2>2, <3>2
    <2>6. ASSUME NEW s \in Transports, NEW v \in Urls, s # t \/ v # u
          PROVE  Stage(s, v)' = Stage(s, v) /\ Same(<<s, v>>)
      <3>1. <<s, v>> # h
        BY <2>2, <2>6
      <3> QED
        BY <1>01, <2>1, <2>4, <3>1
    <2> QED
      BY <1>02, <2>5, <2>6
  <1>17. ASSUME NEW h \in Objects, HandlePacket(h) PROVE PhaseInv'
    <2>1. ASSUME NEW s \in Transports, NEW v \in Urls PROVE Stage(s, v)' = Stage(s, v)
      BY <1>17, StageLocal DEF HandlePacket
    <2>2. \A o : Same(o)
      BY <1>17 DEF HandlePacket, Same
    <2> QED
      BY <1>03, <2>1, <2>2
  <1>18. CASE UNCHANGED vars
    <2>1. ASSUME NEW s \in Transports, NEW v \in Urls PROVE Stage(s, v)' = Stage(s, v)
      BY <1>18, StageLocal DEF vars
    <2>2. \A o : Same(o)
      BY <1>18 DEF vars, Same
    <2> QED
      BY <1>03, <2>1, <2>2
  <1> QED
    BY <1>1, <1>2, <1>3, <1>4, <1>5, <1>6, <1>7, <1>8, <1>9, <1>10, <1>11, <1>12,
       <1>13, <1>14, <1>15, <1>16, <1>17, <1>18
    DEF Next, TransportStep, HandleStep

-----------------------------------------------------------------------------
(* PushInv is inductive.                                                   *)
LEMMA PushInvariant == Spec => []PushInv
  <1>1. ASSUME Init PROVE PushInv
    <2>1. (CHOOSE u \in Urls : TRUE) \in Urls
      BY PushAssumption
    <2>2. TypeOK
      BY <1>1, <2>1, PushAssumption DEF Init, TypeOK
    <2>3. ObjInv
      BY <1>1 DEF Init, ObjInv, Working
    <2>4. MapInv
      BY <1>1, PairNotNil DEF Init, MapInv, Mine
    <2>5. HandInv
      BY <1>1 DEF Init, HandInv, Starting, Stopping
    <2>6. \A t \in Transports, u \in Urls : <<t, u>> \in Objects /\ Stage(t, u) = "notyet"
      BY <1>1 DEF Init, Objects, Stage, NotYet
    <2>7. \A o \in Objects : Fits("notyet", o)
      BY <1>1 DEF Init, Fits, Untouched
    <2>8. PhaseInv
      BY <2>6, <2>7 DEF PhaseInv
    <2> QED
      BY <2>2, <2>3, <2>4, <2>5, <2>8 DEF PushInv
  <1>2. PushInv /\ [Next]_vars => PushInv'
    BY TypeKept, ObjKept, MapKept, HandKept, PhaseKept DEF PushInv
  <1> QED
    BY <1>1, <1>2, PTL DEF Spec

(* However transports and Handles interleave, as long as none of the three *)
(* races has happened every URL that a running transport has dialled is    *)
(* being pushed to.                                                        *)
THEOREM RunningPushesAreServed == Spec => []PushServed
  <1>1. ASSUME PushInv PROVE PushServed
    <2>1. SUFFICES ASSUME races = {}, NEW t \in Transports, NEW u \in Urls,
                          tpc[t] \in {"loop", "send", "put"}, dialled[<<t, u>>] # "no"
                   PROVE  staticPushMap[u] = <<t, u>> /\ Pushed(<<t, u>>)
      BY DEF PushServed, Pushed
    <2>2. MapInv /\ Fits(Stage(t, u), <<t, u>>)
      BY <1>1, <2>1 DEF PushInv, PhaseInv
    <2>3. ~Untouched(<<t, u>>)
      BY <2>1 DEF Untouched
    <2>4. Stage(t, u) # "notyet"
      BY <2>2, <2>3 DEF Fits
    <2>5. info[t]
      BY <2>4 DEF Stage, NotYet
    <2>6. Mine(t, u) /\ Stage(t, u) = "kept"
      BY <2>1, <2>4, <2>5 DEF Stage, Mine, InHand, Starting, Stopping
    <2> QED
      BY <2>2, <2>3, <2>6, MineMapped DEF Fits
  <1> QED
    BY <1>1, PushInvariant, PTL

(* When every transport has ended, and no race has happened, no object is  *)
(* registered and no connection open; NothingLeft holds the type invariant *)
(* of the module.                                                          *)
THEOREM EndedPushesLeaveNothing == Spec => []NothingLeft
  <1>1. ASSUME PushInv PROVE NothingLeft
    <2>1. SUFFICES ASSUME races = {}, \A t \in Transports : tpc[t] \in {"new", "done"}
                   PROVE  /\ \A u \in Urls : staticPushMap[u] = Nil
                          /\ \A h \in Objects : dialled[h] # "open"
      BY <1>1 DEF NothingLeft, PushInv
    <2>2. MapInv /\ PhaseInv /\ ObjInv
      BY <1>1, <2>1 DEF PushInv
    <2>3. \A t \in Transports, u \in Urls : ~Mine(t, u)
      BY <2>1, <2>2 DEF Mine, Starting, Stopping
    <2>4. \A u \in Urls : staticPushMap[u] = Nil
      BY <2>2, <2>3 DEF MapInv
    <2>5. \A t \in Transports, u \in Urls : Stage(t, u) \in {"notyet", "gone"}
      BY <2>3 DEF Stage
    <2>6. \A t \in Transports, u \in Urls : dialled[<<t, u>>] # "open"
      BY <2>2, <2>5 DEF PhaseInv, Fits, Untouched
    <2> QED
      BY <2>4, <2>6 DEF Objects
  <1> QED
    BY <1>1, PushInvariant, PTL
=============================================================================
