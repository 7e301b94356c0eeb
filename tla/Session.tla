------------------------------ MODULE Session ------------------------------
(***************************************************************************)
(* How an RTMP session is set up: the handshake (core/handshake.go) and    *)
(* the commands connect, createStream, publish and play between a client   *)
(* (core/conn_client.go, used by pushes and relays) and a server           *)
(* (core/conn_server.go, Server.handleConn of rtmp.go).  One of the two    *)
(* ends may be another implementation, which sends what it likes.  Each    *)
(* direction is a FIFO of whole messages, which Chunks justifies; control  *)
(* messages ("ctl") carry nothing that matters here.                       *)
(***************************************************************************)
EXTENDS Integers, Sequences

CONSTANTS
    Apps,        \* application names a client may ask for
    Configured,  \* those with a configuration (configure.CheckAppName)
    Names,       \* stream names or keys a client may ask for
    ChannelOf,   \* RoomKeys.GetChannel on the keys that resolve
    MaxOther     \* bound: messages the other implementation sends

ASSUME SessionAssumption ==
    /\ Configured \subseteq Apps /\ DOMAIN ChannelOf \subseteq Names /\ MaxOther \in Nat

VARIABLES
    own,       \* which ends are this program: a nonempty subset of {"client", "server"}
    request,   \* what the client is to do: its method, app and name
    toServer, toClient,   \* messages on their way
    broken,    \* the connection is lost, or an end has closed it
    cpc,       \* the own client: what it waits for, "ok" or "failed"
    transID,   \* ConnClient.transID
    streamid,  \* ConnClient.streamid
    spc,       \* the own server: "c0c1", "c2", "read", "check", "serve", "closed"
    connInfo,  \* ConnServer.ConnInfo.App, or "none"
    publish,   \* ConnServer.PublishInfo.Name, isPublisher
    others     \* messages the other implementation has sent

cVars == <<cpc, transID, streamid>>
sVars == <<spc, connInfo, publish>>
vars == <<own, request, toServer, toClient, broken, cVars, sVars, others>>

Ctl == [k |-> "ctl"]
Cmd(name, id, arg) == [k |-> "cmd", name |-> name, id |-> id, arg |-> arg]
(* C0C1: the version, and whether the digest of a C1 that has one is right. *)
C0C1(ver, digest) == [k |-> "c0c1", ver |-> ver, digest |-> digest]

Requests == [method : {"publish", "play"}, app : Apps, name : Names]

Init ==
    /\ own \in {{"client"}, {"server"}, {"client", "server"}}
    /\ request \in Requests
    \* the other implementation looks at the method at most
    /\ own # {"client", "server"} => LET any == CHOOSE r \in Requests : TRUE IN
          request.app = any.app /\ request.name = any.name
    /\ own = {"server"} => request.method = "publish"
    /\ toServer = <<>> /\ toClient = <<>> /\ broken = FALSE
    /\ cpc = (IF "client" \in own THEN "start" ELSE "other")
    /\ transID = 1 /\ streamid = "none"
    /\ spc = (IF "server" \in own THEN "c0c1" ELSE "other")
    /\ connInfo = "none" /\ publish = [name |-> "none", isPublisher |-> FALSE]
    /\ others = 0

-----------------------------------------------------------------------------
(* The client: ConnClient.Start.                                           *)
ClientFails == cpc' = "failed" /\ UNCHANGED <<transID, streamid>>

(* DialTCP, which may fail, and the first half of HandshakeClient.         *)
Dial ==
    /\ cpc = "start"
    /\ \/ /\ toServer' = Append(toServer, C0C1(3, "none"))
          /\ cpc' = "s0s1s2" /\ UNCHANGED <<transID, streamid, broken>>
       \/ ClientFails /\ broken' = TRUE /\ UNCHANGED toServer
    /\ UNCHANGED <<own, request, toClient, sVars, others>>

(* C2 stays in the write buffer until the connect message is flushed.      *)
HandshakeClient ==
    /\ cpc = "s0s1s2" /\ toClient # <<>>
    /\ toClient' = Tail(toClient)
    /\ toServer' = toServer \o <<[k |-> "c2"], Cmd("connect", transID, request.app)>>
    /\ cpc' = "connect"
    /\ UNCHANGED <<own, request, broken, transID, streamid, sVars, others>>

(* A deadline of five seconds covers every wait of the handshake.          *)
ClientTimeout ==
    /\ cpc = "s0s1s2"
    /\ ClientFails
    /\ UNCHANGED <<own, request, toServer, toClient, broken, sVars, others>>

(* readRespMsg on a command message: "ok", ErrResponse or another error.   *)
(* A message whose object has no code passes.                              *)
Codes == {"success", "publishStart", "playStart", "failed"}
RespMsg(m) ==
    CASE cpc \in {"connect", "createStream"} ->
            IF m.name # "_result" THEN "error"
            ELSE IF m.id # transID \/ (cpc = "connect" /\ m.arg \in Codes \ {"success"})
            THEN "ErrResponse" ELSE "ok"
      [] cpc = "publish" ->
            IF m.name # "onStatus" \/ m.id # 0 \/ m.arg \in Codes \ {"publishStart"}
            THEN "ErrResponse" ELSE "ok"
      [] cpc = "play" -> "ok"

(* What Start does after the response: writeCreateStreamMsg, then          *)
(* writePublishMsg or writePlayMsg, whose own transaction id is 0.         *)
NextCommand ==
    CASE cpc = "connect" ->
            /\ transID' = transID + 1 /\ cpc' = "createStream"
            /\ toServer' = Append(toServer, Cmd("createStream", transID', "none"))
      [] cpc = "createStream" ->
            /\ transID' = transID + 1 /\ cpc' = request.method
            /\ toServer' = Append(toServer, Cmd(request.method,
                              IF request.method = "play" THEN 0 ELSE transID', request.name))
      [] OTHER -> cpc' = "ok" /\ UNCHANGED <<transID, toServer>>

Waits == {"connect", "createStream", "publish", "play"}

ReadRespMsg ==
    /\ cpc \in Waits /\ toClient # <<>>
    /\ toClient' = Tail(toClient)
    /\ LET m == Head(toClient) IN
       \/ m.k # "cmd" /\ UNCHANGED <<cVars, toServer>>
       \/ /\ m.k = "cmd" /\ RespMsg(m) = "ok"
          /\ NextCommand
          /\ streamid' = IF cpc \in {"connect", "createStream"} /\ m.arg = "stream1"
                       THEN m.arg ELSE streamid
       \* createStream only gives up on ErrResponse
       \/ /\ m.k = "cmd" /\ RespMsg(m) # "ok" /\ UNCHANGED toServer
          /\ IF cpc = "createStream" /\ RespMsg(m) = "error" THEN UNCHANGED cVars
             ELSE ClientFails
    /\ UNCHANGED <<own, request, broken, sVars, others>>

(* A read or a flush on a lost connection fails; createStream tries again, *)
(* for ever.                                                               *)
AlsoPublishRetries == cpc \notin {"createStream", "publish"}
ReadErrorEnds == cpc # "createStream"
ClientReadFails ==
    /\ cpc \in Waits \cup {"s0s1s2"} /\ broken /\ toClient = <<>>
    /\ ReadErrorEnds
    /\ ClientFails
    /\ UNCHANGED <<own, request, toServer, toClient, broken, sVars, others>>

ClientFlushFails ==
    /\ cpc \in {"s0s1s2", "connect", "createStream"} /\ broken /\ toClient # <<>>
    /\ Head(toClient).k = "s0s1s2" \/ (Head(toClient).k = "cmd" /\ RespMsg(Head(toClient)) = "ok")
    /\ toClient' = Tail(toClient)
    /\ ClientFails
    /\ UNCHANGED <<own, request, toServer, broken, sVars, others>>

-----------------------------------------------------------------------------
(* The server: Server.handleConn.                                          *)
ServerCloses == spc' = "closed" /\ broken' = TRUE

(* HandshakeServer, first half: version and digest.                        *)
GoodC0C1(m) == m.k = "c0c1" /\ m.ver = 3 /\ m.digest # "wrong"

HandshakeServer ==
    /\ spc = "c0c1" /\ toServer # <<>>
    /\ toServer' = Tail(toServer)
    /\ IF GoodC0C1(Head(toServer))
       THEN /\ toClient' = Append(toClient, [k |-> "s0s1s2"])
            /\ spc' = "c2" /\ UNCHANGED broken
       ELSE ServerCloses /\ UNCHANGED toClient
    /\ UNCHANGED <<own, request, cVars, connInfo, publish, others>>

HandshakeServerC2 ==
    /\ spc = "c2" /\ toServer # <<>>
    /\ toServer' = Tail(toServer)
    /\ spc' = "read"
    /\ UNCHANGED <<own, request, toClient, broken, cVars, connInfo, publish, others>>

NoDeadline == FALSE
Deadline == spc \in {"c0c1", "c2"}
ServerTimeout ==
    /\ Deadline
    /\ ServerCloses
    /\ UNCHANGED <<own, request, toServer, toClient, cVars, connInfo, publish, others>>

(* handleCmdMsg: the responses, and what the server remembers.  publish is *)
(* answered before the application and the key are looked up.              *)
Responses(m) ==
    CASE m.name = "connect"      -> <<Ctl, Ctl, Ctl, Cmd("_result", m.id, "success")>>
      [] m.name = "createStream" -> <<Cmd("_result", m.id, "stream1")>>
      [] m.name = "publish"      -> <<Cmd("onStatus", 0, "publishStart")>>
      [] m.name = "play"         -> <<Ctl, Ctl>> \o [i \in 1 .. 4 |-> Cmd("onStatus", 0, "playStart")]
      [] OTHER                   -> <<>>

PlaysAll(m) == [name |-> m.arg, isPublisher |-> FALSE]
PublishOrPlay(m) == [name |-> m.arg, isPublisher |-> m.name = "publish"]

HandleCmdMsg ==
    /\ spc = "read" /\ toServer # <<>>
    /\ toServer' = Tail(toServer)
    /\ LET m == Head(toServer) IN
       \/ m.k # "cmd" /\ UNCHANGED <<sVars, toClient, broken>>
       \/ /\ m.k = "cmd" /\ m.name = "connect" /\ m.id # 1     \* ErrReq
          /\ ServerCloses /\ UNCHANGED <<connInfo, publish, toClient>>
       \/ /\ m.k = "cmd" /\ (m.name = "connect" => m.id = 1)
          /\ toClient' = toClient \o Responses(m)
          /\ connInfo' = IF m.name = "connect" THEN m.arg ELSE connInfo
          /\ publish' = IF m.name \in {"publish", "play"} THEN PublishOrPlay(m) ELSE publish
          /\ spc' = IF m.name \in {"publish", "play"} THEN "check" ELSE spc
          /\ UNCHANGED broken
    /\ UNCHANGED <<own, request, cVars, others>>

(* The rest of handleConn: CheckAppName, and GetChannel for a publisher.   *)
HandleConn ==
    /\ spc = "check"
    /\ LET ok == connInfo \in Configured /\ (publish.isPublisher => publish.name \in DOMAIN ChannelOf)
       IN  IF ok
           THEN /\ spc' = "serve" /\ UNCHANGED broken
                /\ publish' = [publish EXCEPT !.name = IF publish.isPublisher THEN ChannelOf[@] ELSE @]
           ELSE ServerCloses /\ UNCHANGED publish
    /\ UNCHANGED <<own, request, toServer, toClient, cVars, connInfo, others>>

ServerReadFails ==
    /\ spc \in {"c0c1", "c2", "read"} /\ broken /\ toServer = <<>>
    /\ ServerCloses
    /\ UNCHANGED <<own, request, toServer, toClient, cVars, connInfo, publish, others>>

(* The flush of the answer fails; the connection's fields go with it.      *)
ServerFlushFails ==
    /\ broken /\ toServer # <<>>
    /\ \/ spc = "c0c1" /\ GoodC0C1(Head(toServer))
       \/ spc = "read" /\ Head(toServer).k = "cmd" /\ Responses(Head(toServer)) # <<>>
    /\ toServer' = Tail(toServer)
    /\ ServerCloses
    /\ UNCHANGED <<own, request, toClient, cVars, connInfo, publish, others>>

-----------------------------------------------------------------------------
(* The other implementation and the network (external).                    *)
OtherMessages ==
    IF cpc = "other"
    THEN CASE others = 0 -> {C0C1(v, d) : v \in {3, 6}, d \in {"none", "right", "wrong"}}
           [] others = 1 -> {[k |-> "c2"]}
           [] OTHER -> {Ctl, Cmd("FCPublish", 2, "none")}
                       \cup {Cmd("connect", i, a) : i \in {1, 2}, a \in Apps}
                       \cup {Cmd("createStream", 2, "none")}
                       \cup {Cmd(c, 3, n) : c \in {"publish", "play"}, n \in Names}
    ELSE CASE others = 0 -> {[k |-> "s0s1s2"]}
           [] OTHER -> {Ctl, Cmd("onBWDone", 0, "none"), Cmd("_error", transID, "none"),
                        Cmd("_result", transID, "success"), Cmd("_result", transID, "stream1"),
                        Cmd("_result", transID, "failed"), Cmd("onStatus", 0, "none"),
                        Cmd("_result", transID + 1, "stream1"), Cmd("onStatus", 0, "publishStart"),
                        Cmd("onStatus", 0, "failed")}

OtherSends ==
    /\ others < MaxOther /\ ~broken /\ cpc # "start"
    /\ \/ cpc = "other" /\ \E m \in OtherMessages : toServer' = Append(toServer, m)
                        /\ UNCHANGED toClient
       \/ spc = "other" /\ \E m \in OtherMessages : toClient' = Append(toClient, m)
                        /\ UNCHANGED toServer
    /\ others' = others + 1
    /\ UNCHANGED <<own, request, broken, cVars, sVars>>

(* The connection is lost: what is under way may be lost with it.          *)
ConnectionLost ==
    /\ ~broken /\ cpc # "start"
    /\ broken' = TRUE
    /\ toServer' \in {toServer, <<>>} /\ toClient' \in {toClient, <<>>}
    /\ UNCHANGED <<own, request, cVars, sVars, others>>

-----------------------------------------------------------------------------
ClientStep ==
    HandshakeClient \/ ReadRespMsg \/ ClientReadFails \/ ClientFlushFails
ServerStep ==
    \/ HandshakeServer \/ HandshakeServerC2 \/ HandleCmdMsg \/ HandleConn
    \/ ServerReadFails \/ ServerFlushFails

Next ==
    \/ Dial \/ ClientStep \/ ClientTimeout \/ ServerStep \/ ServerTimeout
    \/ OtherSends \/ ConnectionLost

Spec == Init /\ [][Next]_vars

(* Fairness: either end handles what has arrived and notices a lost        *)
(* connection, and deadlines expire.  The other implementation and the     *)
(* network owe nothing.                                                    *)
FairSpec ==
    /\ Spec /\ WF_vars(ClientStep) /\ WF_vars(ServerStep)
    /\ WF_vars(ClientTimeout) /\ WF_vars(ServerTimeout)

-----------------------------------------------------------------------------
(* The type invariant.                                                     *)
TypeOK ==
    /\ cpc \in Waits \cup {"start", "s0s1s2", "ok", "failed", "other"}
    /\ spc \in {"c0c1", "c2", "read", "check", "serve", "closed", "other"}
    /\ transID \in 1 .. 3 /\ streamid \in {"none", "stream1"} /\ broken \in BOOLEAN
    /\ connInfo \in Apps \cup {"none"} /\ publish.isPublisher \in BOOLEAN
    /\ others \in 0 .. MaxOther

(* The two ends agree on what was set up: the server serves the app, the   *)
(* role and the stream the client asked for, a key replaced by its room,   *)
(* and a client whose Start succeeded has had its command carried out on   *)
(* the stream id the server gave.  (It may still be turned away: the       *)
(* server says Publish.Start before it looks the key up,                   *)
(* conn_server.go:282.)  With the type invariant.                          *)
RolesAgree ==
    /\ TypeOK
    /\ own = {"client", "server"} =>
          /\ spc = "serve" =>
                /\ connInfo = request.app
                /\ publish.isPublisher = (request.method = "publish")
                /\ publish.name = IF request.method = "publish" THEN ChannelOf[request.name]
                                  ELSE request.name
          /\ cpc = "ok" => spc \in {"check", "serve", "closed"} /\ streamid = "stream1"

(* Start returns, so that a push or a relay does not hold its caller: in   *)
(* the handshake with any server, because of the deadlines, afterwards     *)
(* with this program as the server.  Not if the connection is lost while   *)
(* createStream waits (conn_client.go:180): that loop spins for ever.      *)
StartReturns ==
    /\ (cpc = "s0s1s2") ~> (cpc # "s0s1s2")
    /\ (own = {"client", "server"} /\ cpc # "start") ~>
          (cpc \in {"ok", "failed"} \/ (cpc = "createStream" /\ broken))

(* handleConn does not wait for ever for a client that stops half-way in   *)
(* the handshake, whoever it is; and with this program's client it comes   *)
(* to serve the session or closes the connection.                          *)
HandlerDecides ==
    /\ (spc \in {"c0c1", "c2"}) ~> (spc \notin {"c0c1", "c2"})
    /\ (own = {"client", "server"} /\ cpc # "start") ~> (spc \in {"serve", "closed"})
=============================================================================
