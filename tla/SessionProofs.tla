--------------------------- MODULE SessionProofs ---------------------------
(***************************************************************************)
(* A theorem about Session, for any applications, names and keys and any   *)
(* number of messages of the other implementation.                         *)
(***************************************************************************)
EXTENDS Session, SequenceTheorems, TLAPS

(* The messages of either direction: a connect has an application.         *)
CmdNames == {"createStream", "publish", "play", "FCPublish", "_result", "_error",
             "onStatus", "onBWDone"}
Args == (Apps \union Names) \union ({"none", "stream1"} \union Codes)
Msg == ([k : {"ctl", "c2", "s0s1s2"}]
        \union [k : {"c0c1"}, ver : {3, 6}, digest : {"none", "right", "wrong"}])
       \union ([k : {"cmd"}, name : {"connect"}, id : 0 .. 4, arg : Apps]
               \union [k : {"cmd"}, name : CmdNames, id : 0 .. 4, arg : Args])

(* What TypeOK needs to be inductive: the variables it does not mention,   *)
(* and the transaction id the client has at each step.                     *)
TypeInv ==
    /\ own \in {{"client"}, {"server"}, {"client", "server"}}
    /\ request \in Requests
    /\ toServer \in Seq(Msg) /\ toClient \in Seq(Msg)
    /\ publish = [name |-> publish.name, isPublisher |-> publish.isPublisher]
    /\ "client" \in own => cpc # "other"
    /\ "server" \in own => spc # "other"
    /\ cpc \in {"start", "s0s1s2", "connect"} => transID = 1
    /\ cpc = "createStream" => transID = 2

(* The three commands of this client.                                      *)
ConnectCmd == Cmd("connect", 1, request.app)
CreateCmd == Cmd("createStream", 2, "none")
RequestCmd == Cmd(request.method, IF request.method = "play" THEN 0 ELSE 3, request.name)

Decided == {"check", "serve", "closed"}

(* With this program at both ends at most one command is on its way to the *)
(* server.  It comes last, it is the one the client's step says, and the   *)
(* server knows the application before it gets the request.                *)
CommandInv == \A i \in 1 .. Len(toServer) : toServer[i].k = "cmd" =>
    /\ i = Len(toServer)
    /\ cpc \notin {"start", "s0s1s2"}
    /\ cpc = "connect" => toServer[i] = ConnectCmd
    /\ cpc = "createStream" => toServer[i] = CreateCmd
    /\ cpc \in {"publish", "play"} => toServer[i] = RequestCmd
    /\ toServer[i] \in {ConnectCmd, CreateCmd, RequestCmd}
    /\ toServer[i] = RequestCmd => connInfo = request.app

(* While the answer to connect or createStream is on its way nothing comes *)
(* after it and nothing is on its way to the server; an answer to the      *)
(* request comes from a server that has left its read loop.                *)
AnswerInv == \A i \in 1 .. Len(toClient) : toClient[i].k = "cmd" =>
    /\ cpc \notin {"start", "s0s1s2"}
    /\ cpc = "connect" =>
          /\ i = Len(toClient) /\ toServer = <<>> /\ connInfo = request.app
          /\ toClient[i] = Cmd("_result", 1, "success")
    /\ cpc = "createStream" =>
          /\ i = Len(toClient) /\ toServer = <<>>
          /\ toClient[i] = Cmd("_result", 2, "stream1")
    /\ cpc \in {"publish", "play"} => spc \in Decided

(* What the ends know of each other.                                       *)
AgreeInv ==
    /\ cpc \in {"createStream", "publish", "play", "ok"} => connInfo = request.app
    /\ cpc \in {"publish", "play", "ok"} => streamid = "stream1"
    /\ cpc = "ok" => spc \in Decided
    /\ spc = "check" => connInfo = request.app /\ publish = PublishOrPlay(RequestCmd)
    /\ spc = "serve" =>
          /\ connInfo = request.app
          /\ publish.isPublisher = (request.method = "publish")
          /\ publish.name = IF request.method = "publish" THEN ChannelOf[request.name]
                            ELSE request.name

OwnEnds == own = {"client", "server"}
SessionInv ==
    /\ TypeOK /\ TypeInv
    /\ OwnEnds => CommandInv /\ AnswerInv /\ AgreeInv

-----------------------------------------------------------------------------
(* Messages.                                                               *)
LEMMA MsgCases ==
  ASSUME NEW m \in Msg, m.k = "cmd"
  PROVE  /\ m.id \in 0 .. 4
         /\ m.name = "connect" => m.arg \in Apps
  BY DEF Msg, CmdNames

LEMMA PlainMsgs == Ctl \in Msg /\ [k |-> "c2"] \in Msg /\ [k |-> "s0s1s2"] \in Msg
  BY DEF Ctl, Msg

LEMMA HelloMsgs ==
  ASSUME NEW v \in {3, 6}, NEW d \in {"none", "right", "wrong"}
  PROVE  C0C1(v, d) \in Msg
  BY DEF C0C1, Msg

LEMMA ConnectMsgs ==
  ASSUME NEW i \in 0 .. 4, NEW a \in Apps
  PROVE  Cmd("connect", i, a) \in Msg
  BY DEF Cmd, Msg

LEMMA CmdMsgs ==
  ASSUME NEW n \in CmdNames, NEW i \in 0 .. 4, NEW a \in Args
  PROVE  Cmd(n, i, a) \in Msg
  BY DEF Cmd, Msg

LEMMA ArgCases ==
  /\ \A n \in Names : n \in Args
  /\ \A a \in {"none", "stream1", "success", "publishStart", "playStart", "failed"} :
        a \in Args
  BY DEF Args, Codes

LEMMA AppendMsg ==
  ASSUME NEW s \in Seq(Msg), NEW m \in Msg
  PROVE  Append(s, m) \in Seq(Msg)
  OBVIOUS

(* The four answers to play.                                               *)
LEMMA FourTimes ==
  ASSUME NEW S, NEW x \in S
  PROVE  [i \in 1 .. 4 |-> x] = <<x, x, x, x>>
  OBVIOUS

LEMMA ResponsesType ==
  ASSUME NEW m \in Msg, m.k = "cmd"
  PROVE  Responses(m) \in Seq(Msg)
  <1> DEFINE P == Cmd("onStatus", 0, "playStart")
  <1>1. m.id \in 0 .. 4
    BY MsgCases
  <1>2. Cmd("_result", m.id, "success") \in Msg /\ Cmd("_result", m.id, "stream1") \in Msg
    BY <1>1, CmdMsgs, ArgCases DEF CmdNames
  <1>3. Cmd("onStatus", 0, "publishStart") \in Msg /\ P \in Msg
    BY CmdMsgs, ArgCases DEF CmdNames
  <1>4. [i \in 1 .. 4 |-> P] = <<P, P, P, P>>
    BY <1>3, FourTimes
  <1>5. <<Ctl, Ctl>> \o <<P, P, P, P>> \in Seq(Msg)
    BY <1>3, PlainMsgs
  <1> QED
    BY <1>2, <1>3, <1>4, <1>5, PlainMsgs DEF Responses

LEMMA OtherMessagesType ==
  ASSUME SessionAssumption, TypeOK, NEW m \in OtherMessages
  PROVE  m \in Msg
  <1>1. transID \in 0 .. 4 /\ transID + 1 \in 0 .. 4
    BY DEF TypeOK
  <1>2. CASE cpc = "other" /\ others = 0
    BY <1>2, HelloMsgs DEF OtherMessages
  <1>3. CASE cpc = "other" /\ others = 1
    BY <1>3, PlainMsgs DEF OtherMessages
  <1>4. CASE cpc = "other" /\ others \notin {0, 1}
    BY <1>4, PlainMsgs, ConnectMsgs, CmdMsgs, ArgCases DEF OtherMessages, CmdNames
  <1>5. CASE cpc # "other" /\ others = 0
    BY <1>5, PlainMsgs DEF OtherMessages
  <1>6. CASE cpc # "other" /\ others # 0
    BY <1>1, <1>6, PlainMsgs, CmdMsgs, ArgCases DEF OtherMessages, CmdNames
  <1> QED
    BY <1>2, <1>3, <1>4, <1>5, <1>6

(* The effect of NextCommand by step of the client.                        *)
LEMMA NextCommandEffect ==
  ASSUME NextCommand, cpc \in Waits
  PROVE  \/ /\ cpc = "connect" /\ cpc' = "createStream" /\ transID' = transID + 1
            /\ toServer' = Append(toServer, Cmd("createStream", transID', "none"))
         \/ /\ cpc = "createStream" /\ cpc' = request.method /\ transID' = transID + 1
            /\ toServer' = Append(toServer, Cmd(request.method,
                              IF request.method = "play" THEN 0 ELSE transID', request.name))
         \/ /\ cpc \in {"publish", "play"} /\ cpc' = "ok"
            /\ transID' = transID /\ toServer' = toServer
  <1>1. CASE cpc = "connect"
    BY <1>1 DEF NextCommand
  <1>2. CASE cpc = "createStream"
    BY <1>2 DEF NextCommand
  <1>3. CASE cpc \in {"publish", "play"}
    BY <1>3 DEF NextCommand
  <1> QED
    BY <1>1, <1>2, <1>3 DEF Waits

LEMMA TypesInit == SessionAssumption /\ Init => TypeOK /\ TypeInv
  <1> SUFFICES ASSUME SessionAssumption, Init
               PROVE  TypeOK /\ TypeInv
    OBVIOUS
  <1>1. cpc \in {"start", "other"} /\ spc \in {"c0c1", "other"}
    BY DEF Init
  <1>2. ("client" \in own => cpc # "other") /\ ("server" \in own => spc # "other")
    BY DEF Init
  <1>3. TypeOK
    <2>1. publish.isPublisher \in BOOLEAN /\ broken \in BOOLEAN
      BY DEF Init
    <2>2. transID = 1 /\ streamid = "none" /\ connInfo = "none" /\ others = 0
      BY DEF Init
    <2> QED
      BY <1>1, <2>1, <2>2 DEF SessionAssumption, TypeOK, Waits
  <1>4. toServer \in Seq(Msg) /\ toClient \in Seq(Msg)
    BY EmptySeq DEF Init
  <1>5. publish = [name |-> publish.name, isPublisher |-> publish.isPublisher]
    BY DEF Init
  <1>6. transID = 1 /\ cpc # "createStream" /\ request \in Requests
        /\ own \in {{"client"}, {"server"}, {"client", "server"}}
    BY <1>1 DEF Init
  <1> QED
    BY <1>2, <1>3, <1>4, <1>5, <1>6 DEF TypeInv

LEMMA TypesStep ==
  ASSUME SessionAssumption, TypeOK, TypeInv, [Next]_vars
  PROVE  TypeOK' /\ TypeInv'
  <1> USE DEF cVars, sVars
  <1>t. request.method \in {"publish", "play"} /\ request.app \in Apps /\ request.name \in Names
    BY DEF TypeInv, Requests
  <1>1. CASE Dial
    <2>1. C0C1(3, "none") \in Msg
      BY HelloMsgs
    <2>2. toServer' \in Seq(Msg)
      BY <1>1, <2>1, AppendMsg DEF Dial, TypeInv
    <2>3. cpc' \in {"s0s1s2", "failed"} /\ broken' \in BOOLEAN
      BY <1>1 DEF Dial, ClientFails, TypeOK
    <2>4. UNCHANGED <<own, request, toClient, transID, streamid, sVars, others>> /\ transID = 1
      BY <1>1 DEF Dial, ClientFails, TypeInv
    <2> QED
      BY <2>2, <2>3, <2>4 DEF TypeOK, TypeInv, Waits
  <1>2. CASE HandshakeClient
    <2>1. transID = 1
      BY <1>2 DEF HandshakeClient, TypeInv
    <2>2. <<[k |-> "c2"], Cmd("connect", transID, request.app)>> \in Seq(Msg)
      BY <1>t, <2>1, ConnectMsgs, PlainMsgs
    <2>3. toServer' \in Seq(Msg) /\ toClient' \in Seq(Msg)
      BY <1>2, <2>2, ConcatProperties, HeadTailProperties DEF HandshakeClient, TypeInv
    <2> QED
      BY <1>2, <2>3 DEF HandshakeClient, TypeOK, TypeInv, Waits
  <1>3. CASE ClientTimeout
    BY <1>3 DEF ClientTimeout, ClientFails, TypeOK, TypeInv, Waits
  <1>4. CASE ReadRespMsg
    <2>1. toClient' \in Seq(Msg)
      BY <1>4, HeadTailProperties DEF ReadRespMsg, TypeInv
    <2>2. CASE UNCHANGED <<cVars, toServer>> \/ (ClientFails /\ UNCHANGED toServer)
      BY <1>4, <2>1, <2>2 DEF ReadRespMsg, ClientFails, TypeOK, TypeInv, Waits
    <2>3. CASE NextCommand
      <3>1. streamid' \in {"none", "stream1"}
        BY <1>4, <2>3 DEF ReadRespMsg, TypeOK, NextCommand, ClientFails
      <3>2. cpc \in Waits
        BY <1>4 DEF ReadRespMsg
      <3>3. cpc = "connect" => Cmd("createStream", transID + 1, "none") \in Msg
        BY CmdMsgs, ArgCases DEF TypeInv, CmdNames
      <3>4. cpc = "createStream" =>
               Cmd(request.method, IF request.method = "play" THEN 0 ELSE transID + 1,
                   request.name) \in Msg
        BY <1>t, CmdMsgs, ArgCases DEF TypeInv, CmdNames
      <3>5. toServer' \in Seq(Msg)
        <4>1. CASE cpc = "connect"
          <5>1. toServer' = Append(toServer, Cmd("createStream", transID + 1, "none"))
            BY <2>3, <3>2, <4>1, NextCommandEffect
          <5> QED
            BY <3>3, <4>1, <5>1, AppendMsg DEF TypeInv
        <4>2. CASE cpc = "createStream"
          <5>1. toServer' = Append(toServer, Cmd(request.method,
                              IF request.method = "play" THEN 0 ELSE transID + 1, request.name))
            BY <2>3, <3>2, <4>2, NextCommandEffect
          <5> QED
            BY <3>4, <4>2, <5>1, AppendMsg DEF TypeInv
        <4>3. CASE cpc \in {"publish", "play"}
          BY <2>3, <3>2, <4>3, NextCommandEffect DEF TypeInv
        <4> QED
          BY <3>2, <4>1, <4>2, <4>3 DEF Waits
      <3>6. /\ cpc' \in {"createStream", "publish", "play", "ok"} /\ transID' \in 1 .. 3
            /\ cpc' = "createStream" => transID' = 2
        BY <1>t, <2>3, <3>2, NextCommandEffect DEF TypeInv, TypeOK
      <3> QED
        BY <1>4, <2>1, <3>1, <3>5, <3>6 DEF ReadRespMsg, TypeOK, TypeInv, Waits
    <2> QED
      BY <1>4, <2>2, <2>3 DEF ReadRespMsg
  <1>5. CASE ClientReadFails
    BY <1>5 DEF ClientReadFails, ClientFails, TypeOK, TypeInv, Waits
  <1>6. CASE ClientFlushFails
    <2>1. toClient' \in Seq(Msg)
      BY <1>6, HeadTailProperties DEF ClientFlushFails, TypeInv
    <2> QED
      BY <1>6, <2>1 DEF ClientFlushFails, ClientFails, TypeOK, TypeInv, Waits
  <1>7. CASE HandshakeServer
    <2>1. toServer' \in Seq(Msg)
      BY <1>7, HeadTailProperties DEF HandshakeServer, TypeInv
    <2>2. toClient' \in Seq(Msg)
      BY <1>7, PlainMsgs, AppendMsg DEF HandshakeServer, TypeInv
    <2> QED
      BY <1>7, <2>1, <2>2 DEF HandshakeServer, ServerCloses, TypeOK, TypeInv, Waits
  <1>8. CASE HandshakeServerC2
    <2>1. toServer' \in Seq(Msg)
      BY <1>8, HeadTailProperties DEF HandshakeServerC2, TypeInv
    <2> QED
      BY <1>8, <2>1 DEF HandshakeServerC2, TypeOK, TypeInv, Waits
  <1>9. CASE ServerTimeout
    BY <1>9 DEF ServerTimeout, Deadline, ServerCloses, TypeOK, TypeInv, Waits
  <1>10. CASE HandleCmdMsg
    <2> DEFINE m == Head(toServer)
    <2>1. m \in Msg /\ toServer' \in Seq(Msg)
      BY <1>10, HeadTailProperties DEF HandleCmdMsg, TypeInv
    <2>2. CASE m.k # "cmd" \/ (m.name = "connect" /\ m.id # 1)
      BY <1>10, <2>1, <2>2 DEF HandleCmdMsg, ServerCloses, TypeOK, TypeInv, Waits
    <2>3. CASE m.k = "cmd" /\ (m.name = "connect" => m.id = 1)
      <3>1. Responses(m) \in Seq(Msg) /\ (m.name = "connect" => m.arg \in Apps)
        BY <2>1, <2>3, ResponsesType, MsgCases
      <3>2. toClient' = toClient \o Responses(m)
        BY <1>10, <2>3 DEF HandleCmdMsg
      <3>3. toClient' \in Seq(Msg)
        BY <3>1, <3>2, ConcatProperties DEF TypeInv
      <3>4. connInfo' = IF m.name = "connect" THEN m.arg ELSE connInfo
        BY <1>10, <2>3 DEF HandleCmdMsg
      <3>5. publish' = [name |-> m.arg, isPublisher |-> m.name = "publish"] \/ publish' = publish
        BY <1>10, <2>3 DEF HandleCmdMsg, PublishOrPlay
      <3>6. publish'.isPublisher \in BOOLEAN
            /\ publish' = [name |-> publish'.name, isPublisher |-> publish'.isPublisher]
        <4>1. CASE publish' = publish
          BY <4>1 DEF TypeOK, TypeInv
        <4>2. CASE publish' = [name |-> m.arg, isPublisher |-> m.name = "publish"]
          <5> HIDE DEF m
          <5> QED
            BY <4>2
        <4> QED
          BY <3>5, <4>1, <4>2
      <3>7. spc' \in {"check", spc} /\ broken' = broken
        BY <1>10, <2>3 DEF HandleCmdMsg
      <3> QED
        BY <1>10, <2>1, <3>1, <3>3, <3>4, <3>6, <3>7 DEF HandleCmdMsg, TypeOK, TypeInv, Waits
    <2> QED
      BY <2>2, <2>3
  <1>11. CASE HandleConn
    <2>1. publish'.isPublisher \in BOOLEAN
          /\ publish' = [name |-> publish'.name, isPublisher |-> publish'.isPublisher]
      BY <1>11 DEF HandleConn, TypeOK, TypeInv
    <2> QED
      BY <1>11, <2>1 DEF HandleConn, ServerCloses, TypeOK, TypeInv, Waits
  <1>12. CASE ServerReadFails
    BY <1>12 DEF ServerReadFails, ServerCloses, TypeOK, TypeInv, Waits
  <1>13. CASE ServerFlushFails
    <2>1. toServer' \in Seq(Msg)
      BY <1>13, HeadTailProperties DEF ServerFlushFails, TypeInv
    <2>2. spc \in {"c0c1", "read"}
      BY <1>13 DEF ServerFlushFails
    <2> QED
      BY <1>13, <2>1, <2>2 DEF ServerFlushFails, ServerCloses, TypeOK, TypeInv, Waits
  <1>14. CASE OtherSends
    <2>1. toServer' \in Seq(Msg) /\ toClient' \in Seq(Msg)
      <3>1. \A x \in OtherMessages : x \in Msg
        BY OtherMessagesType
      <3>2. toServer \in Seq(Msg) /\ toClient \in Seq(Msg)
        BY DEF TypeInv
      <3>3. CASE UNCHANGED toClient /\ \E x \in OtherMessages : toServer' = Append(toServer, x)
        BY <3>1, <3>2, <3>3, AppendMsg
      <3>4. CASE UNCHANGED toServer /\ \E x \in OtherMessages : toClient' = Append(toClient, x)
        BY <3>1, <3>2, <3>4, AppendMsg
      <3> QED
        BY <1>14, <3>3, <3>4 DEF OtherSends
    <2>2. others' \in 0 .. MaxOther
      BY <1>14 DEF OtherSends, TypeOK, SessionAssumption
    <2> QED
      BY <1>14, <2>1, <2>2 DEF OtherSends, TypeOK, TypeInv, Waits
  <1>15. CASE ConnectionLost
    <2>1. toServer' \in Seq(Msg) /\ toClient' \in Seq(Msg)
      BY <1>15, EmptySeq DEF ConnectionLost, TypeInv
    <2> QED
      BY <1>15, <2>1 DEF ConnectionLost, TypeOK, TypeInv, Waits
  <1>16. CASE UNCHANGED vars
    BY <1>16 DEF vars, TypeOK, TypeInv, Waits
  <1> QED
    BY <1>1, <1>2, <1>3, <1>4, <1>5, <1>6, <1>7, <1>8, <1>9, <1>10, <1>11, <1>12, <1>13, <1>14, <1>15, <1>16
    DEF Next, ClientStep, ServerStep

-----------------------------------------------------------------------------
(* This program at both ends: the steps that add no command.               *)
Shorter(new, old) == new \in {old, <<>>} \/ (old # <<>> /\ new = Tail(old))

LEMMA ShorterElements ==
  ASSUME NEW old \in Seq(Msg), NEW new, Shorter(new, old)
  PROVE  /\ Len(new) \in Nat
         /\ \A i \in 1 .. Len(new) : \E j \in 1 .. Len(old) :
               new[i] = old[j] /\ (j = Len(old) => i = Len(new))
  <1>1. CASE new = old
    BY <1>1
  <1>2. CASE new = <<>>
    BY <1>2
  <1>3. CASE old # <<>> /\ new = Tail(old)
    <2>1. Len(new) = Len(old) - 1 /\ Len(old) \in Nat
      BY <1>3
    <2>2. \A i \in 1 .. Len(new) : new[i] = old[i + 1]
      BY <1>3, HeadTailProperties
    <2>3. ASSUME NEW i \in 1 .. Len(new)
          PROVE  \E j \in 1 .. Len(old) : new[i] = old[j] /\ (j = Len(old) => i = Len(new))
      <3>1. i + 1 \in 1 .. Len(old) /\ (i + 1 = Len(old) => i = Len(new))
        BY <2>1
      <3> QED
        BY <2>2, <3>1
    <2> QED
      BY <2>1, <2>3
  <1> QED
    BY <1>1, <1>2, <1>3 DEF Shorter

LEMMA ShorterCmd ==
  ASSUME NEW old \in Seq(Msg), NEW new, Shorter(new, old), NEW i \in 1 .. Len(new)
  PROVE  \E j \in 1 .. Len(old) : new[i] = old[j] /\ (j = Len(old) => i = Len(new))
  BY ShorterElements

LEMMA CommandKeeps ==
  ASSUME TypeInv, CommandInv, Shorter(toServer', toServer), cpc' \in {cpc, "failed", "ok"},
         request' = request, connInfo' = connInfo
  PROVE  CommandInv'
  <1>1. ConnectCmd' = ConnectCmd /\ CreateCmd' = CreateCmd /\ RequestCmd' = RequestCmd
    BY DEF ConnectCmd, CreateCmd, RequestCmd
  <1> SUFFICES ASSUME NEW i \in 1 .. Len(toServer'), toServer'[i].k = "cmd"
               PROVE  /\ i = Len(toServer')
                      /\ cpc' \notin {"start", "s0s1s2"}
                      /\ cpc' = "connect" => toServer'[i] = ConnectCmd
                      /\ cpc' = "createStream" => toServer'[i] = CreateCmd
                      /\ cpc' \in {"publish", "play"} => toServer'[i] = RequestCmd
                      /\ toServer'[i] \in {ConnectCmd, CreateCmd, RequestCmd}
                      /\ toServer'[i] = RequestCmd => connInfo' = request'.app
    BY <1>1 DEF CommandInv
  <1>2. PICK j \in 1 .. Len(toServer) :
           toServer'[i] = toServer[j] /\ (j = Len(toServer) => i = Len(toServer'))
    BY ShorterCmd DEF TypeInv
  <1>3. toServer[j].k = "cmd"
    BY <1>2
  <1> QED
    BY <1>2, <1>3 DEF CommandInv

LEMMA AnswerKeeps ==
  ASSUME TypeInv, AnswerInv, Shorter(toClient', toClient), cpc' \in {cpc, "failed", "ok"},
         request' = request, connInfo' = connInfo,
         toServer = <<>> => toServer' = <<>>, spc \in Decided => spc' \in Decided
  PROVE  AnswerInv'
  <1> SUFFICES ASSUME NEW i \in 1 .. Len(toClient'), toClient'[i].k = "cmd"
               PROVE  /\ cpc' \notin {"start", "s0s1s2"}
                      /\ cpc' = "connect" =>
                            /\ i = Len(toClient') /\ toServer' = <<>>
                            /\ connInfo' = request'.app
                            /\ toClient'[i] = Cmd("_result", 1, "success")
                      /\ cpc' = "createStream" =>
                            /\ i = Len(toClient') /\ toServer' = <<>>
                            /\ toClient'[i] = Cmd("_result", 2, "stream1")
                      /\ cpc' \in {"publish", "play"} => spc' \in Decided
    BY DEF AnswerInv, Decided
  <1>2. PICK j \in 1 .. Len(toClient) :
           toClient'[i] = toClient[j] /\ (j = Len(toClient) => i = Len(toClient'))
    BY ShorterCmd DEF TypeInv
  <1>3. toClient[j].k = "cmd"
    BY <1>2
  <1> QED
    BY <1>2, <1>3 DEF AnswerInv

LEMMA AgreeKeeps ==
  ASSUME AgreeInv, cpc' \in {cpc, "failed"}, UNCHANGED <<request, connInfo, publish, streamid>>,
         spc' \in {spc, "closed"} \/ (spc \notin Decided /\ spc' \notin Decided)
  PROVE  AgreeInv'
  <1>1. RequestCmd' = RequestCmd
    BY DEF RequestCmd
  <1>2. PublishOrPlay(RequestCmd)' = PublishOrPlay(RequestCmd)
    BY <1>1 DEF PublishOrPlay
  <1> QED
    BY <1>2 DEF AgreeInv, Decided

EndsInv == CommandInv /\ AnswerInv /\ AgreeInv

(* A command is the only message on its way when the server gets it.       *)
LEMMA CommandAlone ==
  ASSUME TypeInv, CommandInv, toServer # <<>>, Head(toServer).k = "cmd"
  PROVE  Len(toServer) = 1 /\ toServer[1] = Head(toServer) /\ Tail(toServer) = <<>>
  <1>1. Len(toServer) \in Nat \ {0} /\ toServer[1] = Head(toServer)
    BY DEF TypeInv
  <1>2. Len(toServer) = 1
    BY <1>1 DEF CommandInv
  <1>3. Tail(toServer) \in Seq(Msg) /\ Len(Tail(toServer)) = 0
    BY <1>2, HeadTailProperties DEF TypeInv
  <1> QED
    BY <1>1, <1>2, <1>3, EmptySeq

(* Dial and HandshakeClient.                                               *)
LEMMA EndsDial ==
  ASSUME TypeInv, EndsInv, Dial
  PROVE  EndsInv'
  <1> USE DEF cVars, sVars
  <1>1. CASE ClientFails /\ toServer' = toServer
    <2>1. /\ Shorter(toServer', toServer) /\ Shorter(toClient', toClient) /\ cpc' = "failed"
          /\ UNCHANGED <<request, connInfo, toServer, spc, publish, streamid>>
      BY <1>1 DEF Dial, ClientFails, Shorter
    <2> QED
      BY <2>1, CommandKeeps, AnswerKeeps, AgreeKeeps DEF EndsInv
  <1>2. CASE toServer' = Append(toServer, C0C1(3, "none")) /\ cpc' = "s0s1s2"
    <2>1. \A i \in 1 .. Len(toServer) : toServer[i].k # "cmd"
      BY DEF Dial, EndsInv, CommandInv
    <2>2. /\ Len(toServer') = Len(toServer) + 1 /\ Len(toServer) \in Nat
          /\ toServer'[Len(toServer) + 1] = C0C1(3, "none")
          /\ \A i \in 1 .. Len(toServer) : toServer'[i] = toServer[i]
      BY <1>2 DEF TypeInv
    <2>3. \A i \in 1 .. Len(toServer') : toServer'[i].k # "cmd"
      BY <2>1, <2>2 DEF C0C1
    <2>4. CommandInv'
      BY <2>3 DEF CommandInv
    <2>5. AnswerInv'
      BY <1>2 DEF AnswerInv, EndsInv, Dial
    <2>6. AgreeInv'
      <3>1. RequestCmd' = RequestCmd
        BY DEF RequestCmd, Dial
      <3> QED
        BY <1>2, <3>1 DEF AgreeInv, EndsInv, Dial, PublishOrPlay, Decided
    <2> QED
      BY <2>4, <2>5, <2>6 DEF EndsInv
  <1> QED
    BY <1>1, <1>2 DEF Dial

LEMMA EndsHandshakeClient ==
  ASSUME TypeInv, EndsInv, HandshakeClient
  PROVE  EndsInv'
  <1> USE DEF cVars, sVars
  <1> DEFINE c == Cmd("connect", 1, request.app)
             new == <<[k |-> "c2"], c>>
  <1>1. transID = 1 /\ cpc = "s0s1s2" /\ cpc' = "connect"
    BY DEF HandshakeClient, TypeInv
  <1>2. toServer' = toServer \o new
    BY <1>1 DEF HandshakeClient
  <1>3. \A i \in 1 .. Len(toServer) : toServer[i].k # "cmd"
    BY <1>1 DEF EndsInv, CommandInv
  <1>4. /\ Len(toServer') = Len(toServer) + 2 /\ Len(toServer) \in Nat
        /\ toServer'[Len(toServer) + 1] = [k |-> "c2"]
        /\ toServer'[Len(toServer) + 2] = c
        /\ \A i \in 1 .. Len(toServer) : toServer'[i] = toServer[i]
    BY <1>2 DEF TypeInv
  <1>5. \A i \in 1 .. Len(toServer') :
           toServer'[i].k = "cmd" => i = Len(toServer') /\ toServer'[i] = c
    BY <1>3, <1>4
  <1>6. ConnectCmd' = c /\ RequestCmd' = RequestCmd /\ RequestCmd # c
    <2>1. request' = request
      BY DEF HandshakeClient
    <2>2. request.method # "connect"
      BY DEF TypeInv, Requests
    <2> QED
      BY <2>1, <2>2 DEF ConnectCmd, RequestCmd, Cmd
  <1>7. CommandInv'
    BY <1>1, <1>5, <1>6 DEF CommandInv
  <1>8. AnswerInv'
    <2>1. \A i \in 1 .. Len(toClient) : toClient[i].k # "cmd"
      BY <1>1 DEF EndsInv, AnswerInv
    <2>2. Shorter(toClient', toClient)
      BY DEF HandshakeClient, Shorter
    <2>3. \A i \in 1 .. Len(toClient') : toClient'[i].k # "cmd"
      BY <2>1, <2>2, ShorterCmd DEF TypeInv
    <2> QED
      BY <2>3 DEF AnswerInv
  <1>9. AgreeInv'
    <2>1. UNCHANGED <<request, sVars, streamid>>
      BY DEF HandshakeClient
    <2> QED
      BY <1>1, <1>6, <2>1 DEF AgreeInv, EndsInv, PublishOrPlay, Decided
  <1> QED
    BY <1>7, <1>8, <1>9 DEF EndsInv

(* A step that adds no message and takes neither end further than failure. *)
LEMMA EndsKeeps ==
  ASSUME TypeInv, EndsInv, Shorter(toServer', toServer), Shorter(toClient', toClient),
         cpc' \in {cpc, "failed"}, UNCHANGED <<request, connInfo, publish, streamid>>,
         spc' \in {spc, "closed"} \/ (spc \notin Decided /\ spc' \notin Decided)
  PROVE  EndsInv'
  <1>1. toServer = <<>> => toServer' = <<>>
    BY DEF Shorter
  <1>2. spc \in Decided => spc' \in Decided
    BY DEF Decided
  <1> QED
    BY <1>1, <1>2, CommandKeeps, AnswerKeeps, AgreeKeeps DEF EndsInv

(* readRespMsg.                                                            *)
LEMMA EndsReadRespMsg ==
  ASSUME TypeOK, TypeInv, EndsInv, ReadRespMsg
  PROVE  EndsInv'
  <1> USE DEF cVars, sVars
  <1> DEFINE m == Head(toClient)
  <1>1. /\ Shorter(toClient', toClient) /\ toClient' = Tail(toClient)
        /\ UNCHANGED <<own, request, sVars>>
    BY DEF ReadRespMsg, Shorter
  <1>2. CASE UNCHANGED <<cVars, toServer>> \/ (ClientFails /\ UNCHANGED toServer)
    <2>1. Shorter(toServer', toServer) /\ cpc' \in {cpc, "failed"} /\ streamid' = streamid
      BY <1>2 DEF Shorter, ClientFails
    <2> QED
      BY <1>1, <2>1, EndsKeeps
  <1>3. CASE m.k = "cmd" /\ NextCommand
               /\ streamid' = IF cpc \in {"connect", "createStream"} /\ m.arg = "stream1"
                            THEN m.arg ELSE streamid
    <2>1. /\ cpc \in Waits /\ toClient # <<>> /\ Len(toClient) \in Nat \ {0}
          /\ toClient[1] = m /\ 1 \in 1 .. Len(toClient)
      BY DEF ReadRespMsg, TypeInv
    <2>2. ConnectCmd' = ConnectCmd /\ CreateCmd' = CreateCmd /\ RequestCmd' = RequestCmd
      BY <1>1 DEF ConnectCmd, CreateCmd, RequestCmd
    <2>3. CASE cpc = "connect"
      <3>1. /\ Len(toClient) = 1 /\ toServer = <<>> /\ connInfo = request.app
            /\ m = Cmd("_result", 1, "success")
        BY <1>3, <2>1, <2>3 DEF EndsInv, AnswerInv
      <3>2. cpc' = "createStream" /\ transID' = 2 /\ streamid' = streamid
        BY <1>3, <2>1, <2>3, <3>1, NextCommandEffect DEF TypeInv, Cmd
      <3>3. toServer' = Append(toServer, CreateCmd)
        BY <1>3, <2>1, <2>3, <3>2, NextCommandEffect DEF CreateCmd
      <3>4. toServer' = <<CreateCmd>>
        BY <3>1, <3>3
      <3>5. Len(toClient') = 0
        BY <1>1, <2>1, <3>1, HeadTailProperties DEF TypeInv
      <3>6. RequestCmd # CreateCmd
        BY DEF RequestCmd, CreateCmd, Cmd, TypeInv, Requests
      <3>7. CommandInv'
        BY <2>2, <3>2, <3>4, <3>6 DEF CommandInv
      <3>8. AnswerInv'
        BY <3>5 DEF AnswerInv
      <3>9. AgreeInv'
        BY <1>1, <2>2, <3>1, <3>2 DEF AgreeInv, EndsInv, PublishOrPlay, Decided
      <3> QED
        BY <3>7, <3>8, <3>9 DEF EndsInv
    <2>4. CASE cpc = "createStream"
      <3>1. /\ Len(toClient) = 1 /\ toServer = <<>> /\ connInfo = request.app
            /\ m = Cmd("_result", 2, "stream1")
        BY <1>3, <2>1, <2>4 DEF EndsInv, AnswerInv, AgreeInv
      <3>2. cpc' = request.method /\ transID' = 3 /\ streamid' = "stream1"
        BY <1>3, <2>1, <2>4, <3>1, NextCommandEffect DEF TypeInv, Cmd
      <3>3. toServer' = Append(toServer, RequestCmd)
        BY <1>3, <2>1, <2>4, <3>2, NextCommandEffect DEF RequestCmd
      <3>4. toServer' = <<RequestCmd>>
        BY <3>1, <3>3
      <3>5. Len(toClient') = 0
        BY <1>1, <2>1, <3>1, HeadTailProperties DEF TypeInv
      <3>6. request.method \in {"publish", "play"}
        BY DEF TypeInv, Requests
      <3>7. CommandInv'
        BY <1>1, <2>2, <3>1, <3>2, <3>4, <3>6 DEF CommandInv
      <3>8. AnswerInv'
        BY <3>5 DEF AnswerInv
      <3>9. AgreeInv'
        BY <1>1, <2>2, <3>1, <3>2, <3>6 DEF AgreeInv, EndsInv, PublishOrPlay, Decided
      <3> QED
        BY <3>7, <3>8, <3>9 DEF EndsInv
    <2>5. CASE cpc \in {"publish", "play"}
      <3>1. spc \in Decided /\ connInfo = request.app /\ streamid = "stream1"
        BY <1>3, <2>1, <2>5 DEF EndsInv, AnswerInv, AgreeInv
      <3>2. cpc' = "ok" /\ toServer' = toServer /\ streamid' = streamid
        BY <1>3, <2>1, <2>5, NextCommandEffect
      <3>3. CommandInv' /\ AnswerInv'
        BY <1>1, <3>2, CommandKeeps, AnswerKeeps DEF EndsInv, Shorter
      <3>4. AgreeInv'
        BY <1>1, <2>2, <3>1, <3>2 DEF AgreeInv, EndsInv, PublishOrPlay
      <3> QED
        BY <3>3, <3>4 DEF EndsInv
    <2> QED
      BY <2>1, <2>3, <2>4, <2>5 DEF Waits
  <1> QED
    BY <1>2, <1>3 DEF ReadRespMsg

(* The first half of HandshakeServer.                                      *)
LEMMA EndsHandshakeServer ==
  ASSUME TypeInv, EndsInv, HandshakeServer
  PROVE  EndsInv'
  <1> USE DEF cVars, sVars
  <1>1. /\ Shorter(toServer', toServer) /\ spc = "c0c1" /\ toServer # <<>>
        /\ UNCHANGED <<own, request, cVars, connInfo, publish>>
    BY DEF HandshakeServer, Shorter
  <1>2. CASE ServerCloses /\ UNCHANGED toClient
    <2>1. Shorter(toClient', toClient) /\ spc' = "closed"
      BY <1>2 DEF Shorter, ServerCloses
    <2> QED
      BY <1>1, <2>1, EndsKeeps
  <1>3. CASE toClient' = Append(toClient, [k |-> "s0s1s2"]) /\ spc' = "c2"
    <2>1. CommandInv'
      BY <1>1, CommandKeeps DEF EndsInv
    <2>2. AgreeInv'
      BY <1>1, <1>3, AgreeKeeps DEF EndsInv, Decided
    <2>3. /\ Len(toClient') = Len(toClient) + 1 /\ Len(toClient) \in Nat
          /\ toClient'[Len(toClient) + 1] = [k |-> "s0s1s2"]
          /\ \A i \in 1 .. Len(toClient) : toClient'[i] = toClient[i]
      BY <1>3 DEF TypeInv
    <2>4. \A i \in 1 .. Len(toClient') : toClient'[i].k = "cmd" =>
             i \in 1 .. Len(toClient) /\ toClient[i].k = "cmd"
      BY <2>3
    <2>5. \A i \in 1 .. Len(toClient) : toClient[i].k = "cmd" =>
             cpc \notin {"start", "s0s1s2", "connect", "createStream", "publish", "play"}
      BY <1>1 DEF EndsInv, AnswerInv, Decided
    <2>6. AnswerInv'
      BY <1>1, <2>4, <2>5 DEF AnswerInv
    <2> QED
      BY <2>1, <2>2, <2>6 DEF EndsInv
  <1> QED
    BY <1>2, <1>3 DEF HandshakeServer

(* Answers of which only the last is a command, after none.                *)
LEMMA AnswersLast ==
  ASSUME NEW s \in Seq(Msg), NEW t \in Seq(Msg),
         \A i \in 1 .. Len(s) : s[i].k # "cmd",
         \A i \in 1 .. Len(t) : t[i].k = "cmd" => i = Len(t),
         NEW i \in 1 .. Len(s \o t), (s \o t)[i].k = "cmd"
  PROVE  i = Len(s \o t) /\ (s \o t)[i] = t[Len(t)]
  <1>1. Len(s) \in Nat /\ Len(t) \in Nat /\ Len(s \o t) = Len(s) + Len(t)
    OBVIOUS
  <1>2. (s \o t)[i] = IF i <= Len(s) THEN s[i] ELSE t[i - Len(s)]
    BY <1>1, ConcatProperties
  <1>3. ~(i <= Len(s))
    BY <1>1, <1>2
  <1>4. i - Len(s) \in 1 .. Len(t) /\ (s \o t)[i] = t[i - Len(s)]
    BY <1>1, <1>2, <1>3
  <1>5. i - Len(s) = Len(t)
    BY <1>4
  <1> QED
    BY <1>1, <1>4, <1>5

LEMMA FourAnswers ==
  ASSUME NEW t, NEW R, t = <<Ctl, Ctl, Ctl, R>>
  PROVE  Len(t) = 4 /\ t[4] = R /\ \A i \in 1 .. Len(t) : t[i].k = "cmd" => i = Len(t)
  <1>1. Len(t) = 4 /\ t[1] = Ctl /\ t[2] = Ctl /\ t[3] = Ctl /\ t[4] = R
    OBVIOUS
  <1>2. Ctl.k # "cmd"
    BY DEF Ctl
  <1>3. ASSUME NEW i \in 1 .. Len(t), t[i].k = "cmd"
        PROVE  i = Len(t)
    <2>1. i \in {1, 2, 3, 4}
      BY <1>1
    <2> QED
      BY <1>1, <1>2, <1>3, <2>1
  <1> QED
    BY <1>1, <1>3

LEMMA OneAnswer ==
  ASSUME NEW t, NEW R, t = <<R>>
  PROVE  Len(t) = 1 /\ t[1] = R /\ \A i \in 1 .. Len(t) : i = Len(t)
  <1>1. Len(t) = 1 /\ t[1] = R
    OBVIOUS
  <1> QED
    BY <1>1

(* handleCmdMsg.                                                           *)
LEMMA EndsHandleCmdMsg ==
  ASSUME TypeOK, TypeInv, EndsInv, HandleCmdMsg
  PROVE  EndsInv'
  <1> USE DEF cVars, sVars
  <1> DEFINE m == Head(toServer)
  <1>1. /\ Shorter(toServer', toServer) /\ toServer' = Tail(toServer) /\ toServer # <<>>
        /\ spc = "read" /\ UNCHANGED <<own, request, cVars>>
    BY DEF HandleCmdMsg, Shorter
  <1>2. CASE m.k # "cmd" \/ (m.name = "connect" /\ m.id # 1)
    <2>1. Shorter(toClient', toClient) /\ spc' \in {spc, "closed"} /\ UNCHANGED <<connInfo, publish>>
      BY <1>2 DEF HandleCmdMsg, ServerCloses, Shorter
    <2> QED
      BY <1>1, <2>1, EndsKeeps
  <1>3. CASE m.k = "cmd" /\ (m.name = "connect" => m.id = 1)
    <2>1. /\ toClient' = toClient \o Responses(m)
          /\ connInfo' = IF m.name = "connect" THEN m.arg ELSE connInfo
          /\ publish' = IF m.name \in {"publish", "play"} THEN PublishOrPlay(m) ELSE publish
          /\ spc' = IF m.name \in {"publish", "play"} THEN "check" ELSE spc
      BY <1>3 DEF HandleCmdMsg
    <2>2. /\ Len(toServer) = 1 /\ toServer[1] = m /\ toServer' = <<>>
      BY <1>1, <1>3, CommandAlone DEF EndsInv
    <2>3. /\ cpc \notin {"start", "s0s1s2"}
          /\ cpc = "connect" => m = ConnectCmd
          /\ cpc = "createStream" => m = CreateCmd
          /\ cpc \in {"publish", "play"} => m = RequestCmd
          /\ m \in {ConnectCmd, CreateCmd, RequestCmd}
          /\ m = RequestCmd => connInfo = request.app
      BY <1>3, <2>2 DEF EndsInv, CommandInv
    <2>4. CommandInv'
      BY <2>2 DEF CommandInv
    <2>5. RequestCmd' = RequestCmd
      BY <1>1 DEF RequestCmd
    <2>6. \A i \in 1 .. Len(toClient) : toClient[i].k = "cmd" =>
             cpc \notin {"connect", "createStream"}
      BY <1>1 DEF EndsInv, AnswerInv
    <2>7. cpc # "ok"
      BY <1>1 DEF EndsInv, AgreeInv, Decided
    <2>8. request.method \in {"publish", "play"}
      BY DEF TypeInv, Requests
    <2>a. Responses(m) \in Seq(Msg)
      BY <1>1, <1>3, HeadTailProperties, ResponsesType DEF TypeInv
    <2>9. CASE m = ConnectCmd
      <3> DEFINE R == Cmd("_result", 1, "success")
      <3>1. m.name = "connect" /\ m.arg = request.app
        BY <2>9 DEF ConnectCmd, Cmd
      <3>2. connInfo' = request.app /\ spc' = "read" /\ publish' = publish
        BY <1>1, <2>1, <3>1
      <3>3. cpc \notin {"createStream", "publish", "play"}
        BY <2>3, <2>8, <3>1 DEF CreateCmd, RequestCmd, Cmd
      <3>4. Responses(m) = <<Ctl, Ctl, Ctl, R>>
        BY <2>9 DEF Responses, ConnectCmd, Cmd
      <3>5. /\ Len(Responses(m)) = 4 /\ Responses(m)[4] = R
            /\ \A i \in 1 .. Len(Responses(m)) :
                  Responses(m)[i].k = "cmd" => i = Len(Responses(m))
        BY <3>4, FourAnswers
      <3>7. cpc = "connect" => \A i \in 1 .. Len(toClient') : toClient'[i].k = "cmd" =>
               i = Len(toClient') /\ toClient'[i] = R
        <4> SUFFICES ASSUME cpc = "connect", NEW i \in 1 .. Len(toClient'), toClient'[i].k = "cmd"
                     PROVE  i = Len(toClient') /\ toClient'[i] = R
          OBVIOUS
        <4>1. toClient \in Seq(Msg) /\ Responses(m) \in Seq(Msg)
          BY <2>a DEF TypeInv
        <4>2. \A j \in 1 .. Len(toClient) : toClient[j].k # "cmd"
          BY <2>6
        <4> HIDE DEF m, R
        <4> QED
          BY <2>1, <3>5, <4>1, <4>2, AnswersLast
      <3>8. AnswerInv'
        BY <1>1, <2>2, <2>3, <3>2, <3>3, <3>7 DEF AnswerInv
      <3>9. AgreeInv'
        BY <1>1, <2>7, <3>2, <3>3 DEF AgreeInv
      <3> QED
        BY <2>4, <3>8, <3>9 DEF EndsInv
    <2>10. CASE m = CreateCmd
      <3> DEFINE R == Cmd("_result", 2, "stream1")
      <3>1. m.name = "createStream"
        BY <2>10 DEF CreateCmd, Cmd
      <3>2. connInfo' = connInfo /\ spc' = "read" /\ publish' = publish
        BY <1>1, <2>1, <3>1
      <3>3. cpc \notin {"connect", "publish", "play"}
        BY <2>3, <2>8, <3>1 DEF ConnectCmd, RequestCmd, Cmd
      <3>4. Responses(m) = <<R>>
        BY <2>10 DEF Responses, CreateCmd, Cmd
      <3>5. /\ Len(Responses(m)) = 1 /\ Responses(m)[1] = R
            /\ \A i \in 1 .. Len(Responses(m)) : i = Len(Responses(m))
        BY <3>4, OneAnswer
      <3>7. cpc = "createStream" => \A i \in 1 .. Len(toClient') : toClient'[i].k = "cmd" =>
               i = Len(toClient') /\ toClient'[i] = R
        <4> SUFFICES ASSUME cpc = "createStream", NEW i \in 1 .. Len(toClient'),
                            toClient'[i].k = "cmd"
                     PROVE  i = Len(toClient') /\ toClient'[i] = R
          OBVIOUS
        <4>1. toClient \in Seq(Msg) /\ Responses(m) \in Seq(Msg)
          BY <2>a DEF TypeInv
        <4>2. \A j \in 1 .. Len(toClient) : toClient[j].k # "cmd"
          BY <2>6
        <4>3. \A j \in 1 .. Len(Responses(m)) :
                 Responses(m)[j].k = "cmd" => j = Len(Responses(m))
          BY <3>5
        <4> HIDE DEF m, R
        <4>4. i = Len(toClient') /\ toClient'[i] = Responses(m)[Len(Responses(m))]
          BY <2>1, <4>1, <4>2, <4>3, AnswersLast
        <4> QED
          BY <3>5, <4>4
      <3>8. AnswerInv'
        BY <1>1, <2>2, <2>3, <3>2, <3>3, <3>7 DEF AnswerInv
      <3>9. AgreeInv'
        BY <1>1, <2>7, <3>2, <3>3 DEF AgreeInv, EndsInv
      <3> QED
        BY <2>4, <3>8, <3>9 DEF EndsInv
    <2>11. CASE m = RequestCmd
      <3>1. m.name = request.method
        BY <2>11 DEF RequestCmd, Cmd
      <3>2. /\ connInfo' = connInfo /\ connInfo = request.app /\ spc' = "check"
            /\ publish' = PublishOrPlay(m)
        BY <2>1, <2>3, <2>8, <2>11, <3>1
      <3>3. cpc \notin {"connect", "createStream"}
        BY <2>3, <2>8, <3>1 DEF ConnectCmd, CreateCmd, Cmd
      <3>4. AnswerInv'
        BY <1>1, <2>3, <3>2, <3>3 DEF AnswerInv, Decided
      <3>5. PublishOrPlay(RequestCmd)' = PublishOrPlay(m)
        BY <2>5, <2>11 DEF PublishOrPlay
      <3>6. AgreeInv'
        BY <1>1, <2>7, <3>2, <3>5 DEF AgreeInv, EndsInv, Decided
      <3> QED
        BY <2>4, <3>4, <3>6 DEF EndsInv
    <2> QED
      BY <2>3, <2>9, <2>10, <2>11
  <1> QED
    BY <1>2, <1>3

(* The rest of handleConn.                                                 *)
LEMMA EndsHandleConn ==
  ASSUME TypeOK, TypeInv, EndsInv, HandleConn
  PROVE  EndsInv'
  <1> USE DEF cVars, sVars
  <1>1. /\ Shorter(toServer', toServer) /\ Shorter(toClient', toClient)
        /\ UNCHANGED <<own, request, toServer, toClient, cVars, connInfo>> /\ spc = "check"
    BY DEF HandleConn, Shorter
  <1>2. CASE ServerCloses /\ UNCHANGED publish
    <2>1. spc' = "closed"
      BY <1>2 DEF ServerCloses
    <2> QED
      BY <1>1, <1>2, <2>1, EndsKeeps
  <1>3. CASE /\ spc' = "serve"
             /\ publish' = [publish EXCEPT !.name = IF publish.isPublisher THEN ChannelOf[@] ELSE @]
    <2>1. connInfo = request.app /\ publish = PublishOrPlay(RequestCmd)
      BY <1>1 DEF EndsInv, AgreeInv
    <2>2. publish = [name |-> request.name, isPublisher |-> request.method = "publish"]
      BY <2>1 DEF PublishOrPlay, RequestCmd, Cmd
    <2>3. publish.name = request.name /\ publish.isPublisher = (request.method = "publish")
      BY <2>2
    <2>4. /\ publish'.isPublisher = publish.isPublisher
          /\ publish'.name = IF publish.isPublisher THEN ChannelOf[publish.name] ELSE publish.name
      BY <1>3, <2>2
    <2>5. AgreeInv'
      <3>1. /\ publish'.isPublisher = (request.method = "publish")
            /\ publish'.name = IF request.method = "publish" THEN ChannelOf[request.name]
                               ELSE request.name
        BY <2>3, <2>4
      <3> QED
        BY <1>1, <1>3, <2>1, <3>1 DEF AgreeInv, EndsInv, Decided
    <2>6. CommandInv' /\ AnswerInv'
      BY <1>1, <1>3, CommandKeeps, AnswerKeeps DEF EndsInv, Decided
    <2> QED
      BY <2>5, <2>6 DEF EndsInv
  <1> QED
    BY <1>2, <1>3 DEF HandleConn

LEMMA EndsStep ==
  ASSUME TypeOK, TypeInv, OwnEnds, EndsInv, [Next]_vars
  PROVE  EndsInv'
  <1> USE DEF cVars, sVars
  <1>1. CASE ClientTimeout \/ ClientReadFails
    <2>1. /\ Shorter(toServer', toServer) /\ Shorter(toClient', toClient) /\ cpc' = "failed"
          /\ UNCHANGED <<request, connInfo, publish, streamid, spc>>
      BY <1>1 DEF ClientTimeout, ClientReadFails, ClientFails, Shorter
    <2> QED
      BY <2>1, EndsKeeps
  <1>2. CASE ClientFlushFails
    <2>1. /\ Shorter(toServer', toServer) /\ Shorter(toClient', toClient) /\ cpc' = "failed"
          /\ UNCHANGED <<request, connInfo, publish, streamid, spc>>
      BY <1>2 DEF ClientFlushFails, ClientFails, Shorter
    <2> QED
      BY <2>1, EndsKeeps
  <1>3. CASE HandshakeServerC2
    <2>1. /\ Shorter(toServer', toServer) /\ Shorter(toClient', toClient)
          /\ spc = "c2" /\ spc' = "read"
          /\ UNCHANGED <<request, cpc, connInfo, publish, streamid>>
      BY <1>3 DEF HandshakeServerC2, Shorter
    <2>2. spc \notin Decided /\ spc' \notin Decided
      BY <2>1 DEF Decided
    <2> QED
      BY <2>1, <2>2, EndsKeeps
  <1>4. CASE ServerTimeout \/ ServerReadFails \/ ServerFlushFails
    <2>1. /\ Shorter(toServer', toServer) /\ Shorter(toClient', toClient) /\ spc' = "closed"
          /\ UNCHANGED <<request, cpc, connInfo, publish, streamid>>
      BY <1>4 DEF ServerTimeout, ServerReadFails, ServerFlushFails, ServerCloses, Shorter
    <2> QED
      BY <2>1, EndsKeeps
  <1>5. CASE ConnectionLost
    <2>1. /\ Shorter(toServer', toServer) /\ Shorter(toClient', toClient)
          /\ UNCHANGED <<request, cpc, connInfo, publish, streamid, spc>>
      BY <1>5 DEF ConnectionLost, Shorter
    <2> QED
      BY <2>1, EndsKeeps
  <1>6. CASE UNCHANGED vars
    <2>1. /\ Shorter(toServer', toServer) /\ Shorter(toClient', toClient)
          /\ UNCHANGED <<request, cpc, connInfo, publish, streamid, spc>>
      BY <1>6 DEF vars, Shorter
    <2> QED
      BY <2>1, EndsKeeps
  <1>7. ~OtherSends
    BY DEF OtherSends, OwnEnds, TypeInv
  <1> QED
    BY <1>1, <1>2, <1>3, <1>4, <1>5, <1>6, <1>7, EndsDial, EndsHandshakeClient, EndsReadRespMsg,
       EndsHandshakeServer, EndsHandleCmdMsg, EndsHandleConn
    DEF Next, ClientStep, ServerStep

-----------------------------------------------------------------------------
LEMMA EndsInit == SessionAssumption /\ Init => EndsInv
  <1> SUFFICES ASSUME SessionAssumption, Init
               PROVE  EndsInv
    OBVIOUS
  <1>1. CommandInv /\ AnswerInv
    BY DEF Init, CommandInv, AnswerInv
  <1>2. cpc \in {"start", "other"} /\ spc \in {"c0c1", "other"}
    BY DEF Init
  <1> QED
    BY <1>1, <1>2 DEF EndsInv, AgreeInv

(* SessionInv is an invariant of the specification.                        *)
THEOREM SessionInvariant == Spec => []SessionInv
  <1>1. Init => SessionInv
    BY SessionAssumption, TypesInit, EndsInit DEF SessionInv, EndsInv
  <1>2. SessionInv /\ [Next]_vars => SessionInv'
    <2> SUFFICES ASSUME SessionInv, [Next]_vars
                 PROVE  SessionInv'
      OBVIOUS
    <2>1. TypeOK' /\ TypeInv'
      BY SessionAssumption, TypesStep DEF SessionInv
    <2>2. own' = own
      BY DEF Next, ClientStep, ServerStep, Dial, HandshakeClient, ReadRespMsg, ClientReadFails,
             ClientFlushFails, ClientTimeout, HandshakeServer, HandshakeServerC2, HandleCmdMsg,
             HandleConn, ServerReadFails, ServerFlushFails, ServerTimeout, OtherSends,
             ConnectionLost, vars
    <2>3. OwnEnds => EndsInv'
      BY EndsStep DEF SessionInv, EndsInv
    <2> QED
      BY <2>1, <2>2, <2>3 DEF SessionInv, EndsInv, OwnEnds
  <1> QED
    BY <1>1, <1>2, PTL DEF Spec

(* The two ends agree on what was set up (RolesAgree): whatever messages   *)
(* are lost, deadlines expire or writes fail on the way, the server serves *)
(* the application, role and stream its client asked for, and a client     *)
(* whose Start succeeded has been heard, ConnClient.Start and              *)
(* Server.handleConn.                                                      *)
THEOREM EndsAgree == Spec => []RolesAgree
  <1>1. SessionInv => RolesAgree
    BY DEF SessionInv, RolesAgree, OwnEnds, AgreeInv, Decided
  <1> QED
    BY <1>1, SessionInvariant, PTL
=============================================================================
