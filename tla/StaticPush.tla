----------------------------- MODULE StaticPush -----------------------------
(***************************************************************************)
(* Static pushes: rtmprelay/staticrelay.go, and StartStaticPush,           *)
(* SendStaticPush and StopStaticPush of rtmp/stream.go, which the          *)
(* transports of one room (or of two rooms that push to the same URLs)     *)
(* call.  staticPushMap maps a URL to a StaticPush object; Start dials and *)
(* spawns Handle, which drains packetChan until Stop hands it the stop     *)
(* command over the unbuffered sndctrlChan.  Only the map has a lock.      *)
(***************************************************************************)
EXTENDS Integers, FiniteSets

CONSTANTS
    Transports,  \* the transports that push to these URLs
    Urls,        \* the application's static_push list, stream name appended
    ChanCap,     \* capacity of packetChan, 500 in the code
    MaxPackets   \* bound: packets per transport

ASSUME PushAssumption == ChanCap \in Nat \ {0} /\ MaxPackets \in Nat /\ Urls # {}

Nil == <<>>  \* no object
(* A StaticPush object is named after the transport and URL it was made    *)
(* for; each transport starts its pushes once.                             *)
Objects == Transports \X Urls

VARIABLES
    staticPushMap, \* URL -> object or Nil
    startflag,     \* the flag of each object
    chan,          \* how many packets are on its packetChan
    client,        \* connectClient: the transport that dialled it last, or Nil
    dialled,       \* the connections: "no", "open", "closed" by <<transport, url>>
    handle,        \* the Handle goroutine that <<transport, url>> spawned
    hobj,          \* the object that Handle serves
    tpc,           \* where each transport is
    info,          \* whether its stream's info, and so the key, is set
    todo,          \* the URLs its current loop has still to visit
    url,           \* the URL it works on
    obj,           \* the object it works on
    packets,       \* packets it has read
    races          \* history: the races that have happened

objVars  == <<staticPushMap, startflag, chan, client, dialled, handle, hobj>>
vars == <<staticPushMap, startflag, chan, client, dialled, handle, hobj, tpc, info,
          todo, url, obj, packets, races>>

Init ==
    /\ staticPushMap = [u \in Urls |-> Nil]
    /\ startflag = [o \in Objects |-> FALSE]
    /\ chan = [o \in Objects |-> 0]
    /\ client = [o \in Objects |-> Nil]
    /\ dialled = [o \in Objects |-> "no"]
    /\ handle = [o \in Objects |-> "none"]
    /\ hobj = [o \in Objects |-> Nil]
    /\ tpc = [t \in Transports |-> "new"]
    /\ info = [t \in Transports |-> FALSE]
    /\ todo = [t \in Transports |-> {}]
    /\ url = [t \in Transports |-> CHOOSE u \in Urls : TRUE]
    /\ obj = [t \in Transports |-> Nil]
    /\ packets = [t \in Transports |-> 0]
    /\ races = {}

Go(t, pc) == tpc' = [tpc EXCEPT ![t] = pc]

-----------------------------------------------------------------------------
(***************************************************************************)
(* The loops over the push list.  A stream has its info unless it was made *)
(* by HandleReader to replace another one (stream.go:46): then the key is  *)
(* empty and every loop is over nothing.                                   *)
(***************************************************************************)
PushList(t) == IF info'[t] THEN Urls ELSE {}

TransBegin(t) ==
    /\ tpc[t] = "new"
    /\ info' \in {[info EXCEPT ![t] = i] :
                    i \in IF \E s \in Transports : tpc[s] # "new" THEN BOOLEAN ELSE {TRUE}}
    /\ todo' = [todo EXCEPT ![t] = PushList(t)]
    /\ Go(t, "start")
    /\ UNCHANGED <<objVars, url, obj, packets, races>>

(* The next URL of the loop, or the end of it.                             *)
StartNext(t, u) ==
    /\ u \in todo[t]
    /\ url' = [url EXCEPT ![t] = u]
    /\ todo' = [todo EXCEPT ![t] = @ \ {u}]
    /\ \/ /\ staticPushMap[u] = Nil
          /\ obj' = [obj EXCEPT ![t] = <<t, u>>]
          /\ Go(t, "create")
       \/ /\ staticPushMap[u] # Nil
          /\ obj' = [obj EXCEPT ![t] = staticPushMap[u]]
          /\ Go(t, "test")
StartLoop(t) ==
    /\ tpc[t] = "start"
    /\ \/ \E u \in Urls : StartNext(t, u)
       \/ todo[t] = {} /\ Go(t, "loop") /\ UNCHANGED <<url, obj, todo>>
    /\ UNCHANGED <<objVars, info, packets, races>>

(* GetAndCreateStaticPushObject sets the map after it has let go of the    *)
(* read lock.                                                              *)
CreatePush(t) ==
    /\ tpc[t] = "create"
    /\ staticPushMap' = [staticPushMap EXCEPT ![url[t]] = obj[t]]
    /\ races' = IF staticPushMap[url[t]] # Nil THEN races \union {"replaced"} ELSE races
    /\ Go(t, "test")
    /\ UNCHANGED <<startflag, chan, client, dialled, handle, hobj, info, todo, url, obj,
                   packets>>

(* StaticPush.Start.                                                       *)
StartTest(t) ==
    /\ tpc[t] = "test"
    /\ Go(t, IF startflag[obj[t]] THEN "start" ELSE "dial")
    /\ races' = IF obj[t] # <<t, url[t]>> THEN races \union {"shared"} ELSE races
    /\ UNCHANGED <<objVars, info, todo, url, obj, packets>>

StartDial(t) ==
    /\ tpc[t] = "dial"
    /\ client' = [client EXCEPT ![obj[t]] = <<t, url[t]>>]
    /\ \/ dialled' = [dialled EXCEPT ![<<t, url[t]>>] = "open"] /\ Go(t, "spawn")
       \/ UNCHANGED dialled /\ Go(t, "start")
    /\ UNCHANGED <<staticPushMap, startflag, chan, handle, hobj, info, todo, url, obj,
                   packets, races>>

StartSpawnsNothing(t) ==
    /\ tpc[t] = "spawn"
    /\ Go(t, "flag")
    /\ UNCHANGED <<objVars, info, todo, url, obj, packets, races>>
StartSpawn(t) ==
    /\ tpc[t] = "spawn"
    /\ handle' = [handle EXCEPT ![<<t, url[t]>>] = "spawned"]
    /\ hobj' = [hobj EXCEPT ![<<t, url[t]>>] = obj[t]]
    /\ Go(t, "flag")
    /\ UNCHANGED <<staticPushMap, startflag, chan, client, dialled, info, todo, url, obj,
                   packets, races>>

StartFlag(t) ==
    /\ tpc[t] = "flag"
    /\ startflag' = [startflag EXCEPT ![obj[t]] = TRUE]
    /\ Go(t, "start")
    /\ UNCHANGED <<staticPushMap, chan, client, dialled, handle, hobj, info, todo, url,
                   obj, packets, races>>

-----------------------------------------------------------------------------
(* A packet: IsSendStaticPush asks for any object, SendStaticPush writes   *)
(* to each.                                                                *)
ReadPacket(t) ==
    /\ tpc[t] = "loop"
    /\ packets[t] < MaxPackets
    /\ packets' = [packets EXCEPT ![t] = @ + 1]
    /\ todo' = [todo EXCEPT ![t] = IF info[t] /\ \E u \in Urls : staticPushMap[u] # Nil
                                   THEN Urls ELSE {}]
    /\ Go(t, "send")
    /\ UNCHANGED <<objVars, info, url, obj, races>>

SendNext(t, u) ==
    /\ u \in todo[t]
    /\ todo' = [todo EXCEPT ![t] = @ \ {u}]
    /\ IF staticPushMap[u] # Nil /\ startflag[staticPushMap[u]]
       THEN obj' = [obj EXCEPT ![t] = staticPushMap[u]] /\ Go(t, "put")
       ELSE UNCHANGED <<obj, tpc>>
SendLoop(t) ==
    /\ tpc[t] = "send"
    /\ \/ \E u \in Urls : SendNext(t, u)
       \/ todo[t] = {} /\ Go(t, "loop") /\ UNCHANGED <<obj, todo>>
    /\ UNCHANGED <<objVars, info, url, packets, races>>

(* packetChan <- packet waits while the channel is full.                   *)
WritePacket(t) ==
    /\ tpc[t] = "put"
    /\ chan[obj[t]] < ChanCap
    /\ chan' = [chan EXCEPT ![obj[t]] = @ + 1]
    /\ Go(t, "send")
    /\ UNCHANGED <<staticPushMap, startflag, client, dialled, handle, hobj, info, todo,
                   url, obj, packets, races>>

-----------------------------------------------------------------------------
(* The publisher is gone: closeInter calls StopStaticPush, then closes the *)
(* players.                                                                *)
TransStops(t) ==
    /\ tpc[t] = "loop"
    /\ todo' = [todo EXCEPT ![t] = IF info[t] THEN Urls ELSE {}]
    /\ Go(t, "stop")
    /\ UNCHANGED <<objVars, info, url, obj, packets, races>>

StopNext(t, u) ==
    /\ u \in todo[t]
    /\ todo' = [todo EXCEPT ![t] = @ \ {u}]
    /\ url' = [url EXCEPT ![t] = u]
    /\ IF staticPushMap[u] # Nil
       THEN /\ obj' = [obj EXCEPT ![t] = staticPushMap[u]]
            /\ Go(t, IF startflag[staticPushMap[u]] THEN "ctrl" ELSE "release")
       ELSE UNCHANGED <<obj, tpc>>
StopLoop(t) ==
    /\ tpc[t] = "stop"
    /\ \/ \E u \in Urls : StopNext(t, u)
       \/ todo[t] = {} /\ Go(t, "done") /\ UNCHANGED <<url, obj, todo>>
    /\ UNCHANGED <<objVars, info, packets, races>>

(* sndctrlChan <- stop meets a Handle in its select, which closes the      *)
(* connection; break leaves the select and not the loop.                   *)
StopHandleEnds(t, h) ==
    /\ tpc[t] = "ctrl"
    /\ handle[h] = "select" /\ hobj[h] = obj[t]
    /\ dialled' = [dialled EXCEPT ![client[obj[t]]] = "closed"]
    /\ handle' = [handle EXCEPT ![h] = "returned"]
    /\ Go(t, "unflag")
    /\ UNCHANGED <<staticPushMap, startflag, chan, client, hobj, info, todo, url, obj,
                   packets, races>>
StopCtrl(t, h) ==
    /\ tpc[t] = "ctrl"
    /\ handle[h] = "select" /\ hobj[h] = obj[t]
    /\ dialled' = [dialled EXCEPT ![client[obj[t]]] = "closed"]
    /\ Go(t, "unflag")
    /\ UNCHANGED <<staticPushMap, startflag, chan, client, handle, hobj, info, todo, url,
                   obj, packets, races>>

StopUnflag(t) ==
    /\ tpc[t] = "unflag"
    /\ startflag' = [startflag EXCEPT ![obj[t]] = FALSE]
    /\ Go(t, "release")
    /\ UNCHANGED <<staticPushMap, chan, client, dialled, handle, hobj, info, todo, url,
                   obj, packets, races>>

ReleaseKeeps(t) ==
    /\ tpc[t] = "release"
    /\ Go(t, "stop")
    /\ UNCHANGED <<objVars, info, todo, url, obj, packets, races>>
(* ReleaseStaticPushObject deletes whatever the URL maps to by now.        *)
Release(t) ==
    /\ tpc[t] = "release"
    /\ staticPushMap' = [staticPushMap EXCEPT ![url[t]] = Nil]
    /\ Go(t, "stop")
    /\ UNCHANGED <<startflag, chan, client, dialled, handle, hobj, info, todo, url, obj,
                   packets, races>>

-----------------------------------------------------------------------------
(* Handle: it ends at once if it runs before Start has set the flag.       *)
HandleBegin(h) ==
    /\ handle[h] = "spawned"
    /\ handle' = [handle EXCEPT ![h] = IF startflag[hobj[h]] THEN "select" ELSE "returned"]
    /\ races' = IF startflag[hobj[h]] THEN races ELSE races \union {"unattended"}
    /\ UNCHANGED <<staticPushMap, startflag, chan, client, dialled, hobj, tpc, info, todo,
                   url, obj, packets>>

(* Send writes the packet unless the flag is down; its errors are ignored. *)
HandlePacket(h) ==
    /\ handle[h] = "select"
    /\ chan[hobj[h]] > 0
    /\ chan' = [chan EXCEPT ![hobj[h]] = @ - 1]
    /\ UNCHANGED <<staticPushMap, startflag, client, dialled, handle, hobj, tpc, info,
                   todo, url, obj, packets, races>>

-----------------------------------------------------------------------------
TransportStep(t) ==
    \/ StartLoop(t) \/ CreatePush(t) \/ StartTest(t) \/ StartDial(t) \/ StartSpawn(t)
    \/ StartFlag(t) \/ SendLoop(t) \/ WritePacket(t) \/ StopLoop(t)
    \/ (\E h \in Objects : StopCtrl(t, h)) \/ StopUnflag(t) \/ Release(t)

HandleStep(h) == HandleBegin(h) \/ HandlePacket(h)

Next ==
    \/ \E t \in Transports :
          TransBegin(t) \/ TransportStep(t) \/ ReadPacket(t) \/ TransStops(t)
    \/ \E h \in Objects : HandleStep(h)

Spec == Init /\ [][Next]_vars

(* Fairness: goroutines that can run do run, and the remote server reads.  *)
(* No publisher has to arrive, send or leave.                              *)
FairSpec ==
    /\ Spec
    /\ \A t \in Transports : WF_vars(TransportStep(t))
    /\ \A h \in Objects : WF_vars(HandleStep(h))

-----------------------------------------------------------------------------
(* The type invariant.                                                     *)
TypeOK ==
    /\ staticPushMap \in [Urls -> Objects \union {Nil}]
    /\ startflag \in [Objects -> BOOLEAN]
    /\ chan \in [Objects -> 0 .. ChanCap]
    /\ client \in [Objects -> Objects \union {Nil}]
    /\ dialled \in [Objects -> {"no", "open", "closed"}]
    /\ handle \in [Objects -> {"none", "spawned", "select", "returned"}]
    /\ hobj \in [Objects -> Objects \union {Nil}]
    /\ tpc \in [Transports -> {"new", "start", "create", "test", "dial", "spawn", "flag",
                               "loop", "send", "put", "stop", "ctrl", "unflag", "release",
                               "done"}]
    /\ info \in [Transports -> BOOLEAN]
    /\ todo \in [Transports -> SUBSET Urls]
    /\ url \in [Transports -> Urls]
    /\ obj \in [Transports -> Objects \union {Nil}]
    /\ packets \in [Transports -> 0 .. MaxPackets]
    /\ races \subseteq {"replaced", "shared", "unattended"}

(* A transport always gets past its pushes: it is not left waiting in      *)
(* Write for room on a channel nobody drains (staticrelay.go:138) or in    *)
(* Stop for a Handle that is gone (staticrelay.go:128), with its players   *)
(* unserved or never closed.  It takes a Handle that ran before startflag  *)
(* was set (staticrelay.go:115) to stop it.                                *)
PushNeverStops ==
    \A t \in Transports :
        (tpc[t] \notin {"new", "loop", "done"}) ~> (tpc[t] \in {"loop", "done"}
                                                     \/ "unattended" \in races)

(* While a transport runs, each URL it has dialled is being pushed to: the *)
(* object is registered and started, a Handle serves it, its connection is *)
(* open.  What can break it: an unattended start, and a second transport   *)
(* that uses, replaces or stops the same object.                           *)
PushServed ==
    races = {} =>
        \A t \in Transports, u \in Urls :
            (tpc[t] \in {"loop", "send", "put"} /\ dialled[<<t, u>>] # "no") =>
                /\ staticPushMap[u] = <<t, u>>
                /\ startflag[<<t, u>>]
                /\ dialled[<<t, u>>] = "open"
                /\ handle[<<t, u>>] \in {"spawned", "select"}

(* When every transport has ended nothing is left behind: no object is     *)
(* registered and no connection is open.  (With the type invariant.)       *)
NothingLeft ==
    TypeOK /\ ((races = {} /\ \A t \in Transports : tpc[t] \in {"new", "done"}) =>
        /\ \A u \in Urls : staticPushMap[u] = Nil
        /\ \A h \in Objects : dialled[h] # "open")

=============================================================================
