------------------------- MODULE ControlPlaneProofs -------------------------
(***************************************************************************)
(* For any number of starts, crashes, connections and requests, and any    *)
(* contents of the UUID file: the registry names sessions that run, under  *)
(* their own ids, and the agent streams under the id it is registered with.*)
(***************************************************************************)
EXTENDS ControlPlane, SequenceTheorems, TLAPS

\* NoConn is not the number of a connection.
LEMMA ConnNumbers == NoConn \notin Conns /\ \A c \in Conns : c \in Nat /\ c <= MaxConns
BY ControlAssumption DEF NoConn, Conns

-----------------------------------------------------------------------------
(* Types                                                                   *)

LEMMA TypeInit == Init => TypeOK
<1> SUFFICES ASSUME Init PROVE TypeOK
  OBVIOUS
<1>1. file \in Ids \cup {NoId, EmptyFile}
  BY ControlAssumption DEF Init
<1>2. issued \in SUBSET Ids
  BY DEF Init
<1>3. /\ up \in [Conns -> Seq({"ID", "OK", "ERROR"})]
      /\ down \in [Conns -> Seq(ControlMsgs)]
      /\ writerqu \in Seq({"ID", "OK", "ERROR"})
  BY DEF Init
<1>4. /\ link \in [Conns -> {"unused", "open", "broken"}]
      /\ md \in [Conns -> Ids \cup {NoId}]
      /\ hpc \in [Conns -> {"idle", "handshake", "add", "run", "gone"}]
      /\ sid \in [Conns -> Ids \cup {NoId}]
      /\ \A c \in Conns : hpc[c] \in {"add", "run"} => sid[c] \in Ids
  BY DEF Init
<1>5. /\ sendPc \in [Conns -> {"off", "select", "sending", "ended"}]
      /\ recvPc \in [Conns -> {"off", "recv", "ended"}]
      /\ registry \in [Ids -> Conns \cup {NoConn}]
      /\ http \in [Reqs -> {"idle", "send", "accepted", "failed"}]
      /\ httpConn \in [Reqs -> Conns \cup {NoConn}]
  BY DEF Init
<1>6. /\ proc \in {"down", "up", "offline"} /\ conn \in Conns \cup {NoConn}
      /\ proc # "down" => conn \in Conns
      /\ id \in Ids \cup {NoId} /\ writing \in BOOLEAN
      /\ stream \in {"none", "starting", "open", "ended"}
  BY DEF Init
<1> QED BY <1>1, <1>2, <1>3, <1>4, <1>5, <1>6 DEF TypeOK

\* EnqueueWrite keeps the types of what it writes.
LEMMA EnqueueType ==
  ASSUME TypeOK, conn \in Conns, NEW type \in {"ID", "OK", "ERROR"}, EnqueueWrite(type)
  PROVE  /\ writerqu' \in Seq({"ID", "OK", "ERROR"})
         /\ writing' \in BOOLEAN
         /\ up' \in [Conns -> Seq({"ID", "OK", "ERROR"})]
<1> DEFINE R == {"ID", "OK", "ERROR"}
<1>1. writerqu \in Seq(R) /\ up \in [Conns -> Seq(R)] /\ type \in R
  BY DEF TypeOK
<1> HIDE DEF R
<1>2. writerqu' \in Seq(R) /\ writerqu' # <<>> /\ Head(writerqu') \in R
  BY <1>1 DEF EnqueueWrite
<1>3. up' \in [Conns -> Seq(R)]
  BY <1>1, <1>2 DEF EnqueueWrite
<1> QED BY <1>2, <1>3 DEF EnqueueWrite, R

LEMMA AgentStartType == TypeOK /\ AgentStart => TypeOK'
<1> SUFFICES ASSUME TypeOK, AgentStart PROVE TypeOK'
  OBVIOUS
<1>1. conn' \in Conns
  BY ControlAssumption DEF AgentStart, TypeOK, Conns, NoConn
<1>2. LoadUUID \in Ids \cup {NoId}
  BY DEF LoadUUID
<1>3. <<"ID">> \in Seq({"ID", "OK", "ERROR"})
  OBVIOUS
<1>4. CASE UNCHANGED <<id, link, md, writerqu, writing, up, hpc>>
  BY <1>1, <1>4 DEF AgentStart, TypeOK, httpVars
<1>5. CASE /\ id' = LoadUUID /\ writerqu' = <<"ID">> /\ writing' = TRUE
           /\ link' = [link EXCEPT ![conn'] = "open"]
           /\ md' = [md EXCEPT ![conn'] = LoadUUID]
           /\ up' = [up EXCEPT ![conn'] = <<"ID">>]
           /\ hpc' = [hpc EXCEPT ![conn'] = "handshake"]
  <2>1. /\ link' \in [Conns -> {"unused", "open", "broken"}]
        /\ hpc' \in [Conns -> {"idle", "handshake", "add", "run", "gone"}]
        /\ \A c \in Conns : hpc'[c] \in {"add", "run"} => sid[c] \in Ids
    BY <1>1, <1>5 DEF TypeOK
  <2>2. md' \in [Conns -> Ids \cup {NoId}]
    BY <1>1, <1>2, <1>5 DEF TypeOK
  <2>3. up' \in [Conns -> Seq({"ID", "OK", "ERROR"})]
    <3> DEFINE R == Seq({"ID", "OK", "ERROR"})
    <3>1. up \in [Conns -> R] /\ <<"ID">> \in R
      BY <1>3 DEF TypeOK
    <3> HIDE DEF R
    <3>2. up' \in [Conns -> R]
      BY <1>1, <1>5, <3>1
    <3> QED BY <3>2 DEF R
  <2> QED BY <1>1, <1>2, <1>3, <1>5, <2>1, <2>2, <2>3 DEF AgentStart, TypeOK, httpVars
<1> QED BY <1>4, <1>5 DEF AgentStart

LEMMA OnWriteDoneType == TypeOK /\ OnWriteDone => TypeOK'
<1> SUFFICES ASSUME TypeOK, OnWriteDone PROVE TypeOK'
  OBVIOUS
<1> DEFINE R == {"ID", "OK", "ERROR"}
<1>1. writerqu \in Seq(R) /\ up \in [Conns -> Seq(R)] /\ conn \in Conns
  BY DEF TypeOK, OnWriteDone
<1> HIDE DEF R
<1>2. writerqu' \in Seq(R) /\ (writerqu' # <<>> => Head(writerqu') \in R)
  BY <1>1 DEF OnWriteDone
<1>3. up' \in [Conns -> Seq(R)]
  BY <1>1, <1>2 DEF OnWriteDone
<1>4. /\ writing' \in BOOLEAN
      /\ UNCHANGED <<file, proc, conn, id, stream, link, md, down, serverVars, httpVars>>
  BY DEF OnWriteDone
<1> QED BY <1>2, <1>3, <1>4 DEF TypeOK, R, serverVars, httpVars

LEMMA OnMessageType == TypeOK /\ OnMessage => TypeOK'
<1> SUFFICES ASSUME TypeOK, OnMessage PROVE TypeOK'
  OBVIOUS
<1> DEFINE msg == Head(down[conn])
<1>1. conn \in Conns /\ down[conn] \in Seq(ControlMsgs) /\ down[conn] # <<>>
  BY DEF TypeOK, OnMessage
<1>2. msg \in ControlMsgs /\ Tail(down[conn]) \in Seq(ControlMsgs)
  <2> HIDE DEF ControlMsgs
  <2> QED BY <1>1
<1>3. msg.payload \in Ids \cup {NoId}
  BY <1>2 DEF ControlMsgs
<1>4. down' \in [Conns -> Seq(ControlMsgs)]
  <2> HIDE DEF ControlMsgs
  <2> QED BY <1>1, <1>2 DEF OnMessage, TypeOK
<1> HIDE DEF msg
<1>5. \/ /\ UNCHANGED <<writerqu, writing, up>>
      \/ \E type \in {"ID", "OK", "ERROR"} : EnqueueWrite(type)
  BY DEF OnMessage, SaveUUID, StreamData
<1>6. /\ writerqu' \in Seq({"ID", "OK", "ERROR"})
      /\ writing' \in BOOLEAN
      /\ up' \in [Conns -> Seq({"ID", "OK", "ERROR"})]
  BY <1>1, <1>5, EnqueueType DEF TypeOK
<1>7. /\ file' \in Ids \cup {NoId, EmptyFile} /\ id' \in Ids \cup {NoId}
      /\ stream' \in {"none", "starting", "open", "ended"}
  BY <1>3 DEF OnMessage, SaveUUID, StreamData, TypeOK, msg
<1> QED BY <1>4, <1>6, <1>7 DEF OnMessage, TypeOK, serverVars, httpVars

LEMMA AgentEndType == TypeOK /\ (OnDone \/ AgentStop \/ AgentCrash) => TypeOK'
<1> SUFFICES ASSUME TypeOK, OnDone \/ AgentStop \/ AgentCrash PROVE TypeOK'
  OBVIOUS
<1>1. link' \in [Conns -> {"unused", "open", "broken"}]
  BY DEF TypeOK, OnDone, AgentStop, AgentCrash, rpcVars
<1>2. writerqu' = <<>> /\ <<>> \in Seq({"ID", "OK", "ERROR"})
  BY DEF OnDone, AgentStop, AgentCrash, NoClient
<1> QED BY <1>1, <1>2 DEF TypeOK, OnDone, AgentStop, AgentCrash, NoClient, rpcVars, serverVars, httpVars

\* The handshake refuses the agent, takes the id it names, or gives it a new one.
LEMMA HandshakeEffect ==
  ASSUME NEW c \in Conns, TypeOK, Handshake(c)
  PROVE  /\ hpc[c] = "handshake"
         /\ UNCHANGED <<agentVars, md, sendPc, recvPc, registry, httpVars>>
         /\ \/ /\ ReturnConnect(c)
               /\ UNCHANGED <<sid, down>>
            \/ /\ md[c] \in Ids /\ registry[md[c]] = NoConn
               /\ sid' = [sid EXCEPT ![c] = md[c]]
               /\ hpc' = [hpc EXCEPT ![c] = "add"]
               /\ UNCHANGED <<link, down>>
            \/ \E uuid \in Ids \ issued :
               /\ md[c] = NoId
               /\ sid' = [sid EXCEPT ![c] = uuid]
               /\ down' = [down EXCEPT ![c] = Append(@, Msg("ID", uuid))]
               /\ hpc' = [hpc EXCEPT ![c] = "add"]
               /\ UNCHANGED link
         /\ issued' \in SUBSET Ids
<1>1. md[c] \in Ids \cup {NoId} /\ issued \in SUBSET Ids
  BY DEF TypeOK
<1> QED BY <1>1 DEF Handshake

\* The types of the server's side, one connection at a time.
LEMMA SessionType == ASSUME TypeOK, NEW c \in Conns, Session(c) \/ Break(c) PROVE TypeOK'
<1> HIDE DEF ControlMsgs
<1>1. CASE Handshake(c)
  <2> DEFINE R == {"ID", "OK", "ERROR"}
  <2>1. up[c] \in Seq(R) /\ up[c] # <<>> /\ up \in [Conns -> Seq(R)]
    BY <1>1 DEF Handshake, TypeOK
  <2> HIDE DEF R
  <2>2. up' \in [Conns -> Seq(R)]
    BY <1>1, <2>1 DEF Handshake
  <2>3. issued' \in SUBSET Ids
    BY <1>1, HandshakeEffect
  <2>u. UNCHANGED <<agentVars, md, sendPc, recvPc, registry, httpVars>>
    BY <1>1 DEF Handshake
  <2>4. CASE ReturnConnect(c) /\ UNCHANGED <<sid, down>>
    BY <2>2, <2>3, <2>4, <2>u DEF TypeOK, ReturnConnect, agentVars, httpVars, R
  <2>5. CASE /\ md[c] \in Ids /\ sid' = [sid EXCEPT ![c] = md[c]]
             /\ hpc' = [hpc EXCEPT ![c] = "add"]
             /\ UNCHANGED <<link, down>>
    BY <2>2, <2>3, <2>5, <2>u DEF TypeOK, agentVars, httpVars, R
  <2>6. ASSUME NEW uuid \in Ids, sid' = [sid EXCEPT ![c] = uuid],
               down' = [down EXCEPT ![c] = Append(@, Msg("ID", uuid))],
               hpc' = [hpc EXCEPT ![c] = "add"], UNCHANGED link
        PROVE  TypeOK'
    <3>1. Msg("ID", uuid) \in ControlMsgs
      BY DEF Msg, ControlMsgs
    <3>2. down' \in [Conns -> Seq(ControlMsgs)]
      <4> HIDE DEF Msg
      <4>1. down \in [Conns -> Seq(ControlMsgs)] /\ Append(down[c], Msg("ID", uuid)) \in Seq(ControlMsgs)
        BY <3>1 DEF TypeOK
      <4> QED BY <2>6, <4>1
    <3> QED BY <2>2, <2>3, <2>6, <2>u, <3>2 DEF TypeOK, agentVars, httpVars, R
  <2> QED BY <1>1, <2>4, <2>5, <2>6, HandshakeEffect
<1>2. CASE HandshakeFail(c)
  BY <1>2 DEF HandshakeFail, ReturnConnect, TypeOK, agentVars, httpVars
<1>3. CASE Add(c)
  BY <1>3 DEF Add, TypeOK, agentVars, rpcVars, httpVars
<1>10. CASE Run(c)
  BY <1>10 DEF Run, TypeOK, agentVars, rpcVars, httpVars
<1>4. CASE Remove(c)
  BY <1>4 DEF Remove, ReturnConnect, TypeOK, agentVars, httpVars
<1>5. CASE Recv(c)
  <2> DEFINE R == {"ID", "OK", "ERROR"}
  <2>1. up[c] \in Seq(R) /\ up[c] # <<>> /\ up \in [Conns -> Seq(R)]
    BY <1>5 DEF Recv, TypeOK
  <2> HIDE DEF R
  <2>2. up' \in [Conns -> Seq(R)]
    BY <1>5, <2>1 DEF Recv
  <2> QED BY <1>5, <2>2 DEF Recv, TypeOK, agentVars, serverVars, httpVars, R
<1>6. CASE RecvFail(c)
  BY <1>6 DEF RecvFail, TypeOK, agentVars, rpcVars, httpVars
<1>7. CASE SendLoop(c)
  <2>1. Msg("STREAM_DATA", NoId) \in ControlMsgs
    BY DEF Msg, ControlMsgs
  <2>2. down' \in [Conns -> Seq(ControlMsgs)]
    <3> HIDE DEF Msg
    <3>1. /\ down \in [Conns -> Seq(ControlMsgs)]
          /\ Append(down[c], Msg("STREAM_DATA", NoId)) \in Seq(ControlMsgs)
      BY <2>1 DEF TypeOK
    <3> QED BY <1>7, <3>1 DEF SendLoop
  <2>3. sendPc' \in [Conns -> {"off", "select", "sending", "ended"}]
    BY <1>7 DEF SendLoop, TypeOK
  <2> QED BY <1>7, <2>2, <2>3 DEF SendLoop, TypeOK, agentVars, httpVars
<1>8. CASE SendLoopDone(c)
  BY <1>8 DEF SendLoopDone, TypeOK, agentVars, rpcVars, httpVars
<1>9. CASE Break(c)
  BY <1>9 DEF Break, TypeOK, agentVars, serverVars, httpVars
<1> QED BY <1>1, <1>2, <1>3, <1>4, <1>5, <1>6, <1>7, <1>8, <1>9, <1>10 DEF Session

LEMMA StreamType == TypeOK /\ (StreamMetricsStart \/ StreamEnd) => TypeOK'
BY DEF TypeOK, StreamMetricsStart, StreamEnd, rpcVars, serverVars, httpVars

LEMMA HttpType == ASSUME TypeOK, NEW r \in Reqs, Http(r) PROVE TypeOK'
<1> DEFINE S == Conns \cup {NoConn}
           H == {"idle", "send", "accepted", "failed"}
<1>t. /\ http \in [Reqs -> H] /\ httpConn \in [Reqs -> S] /\ registry \in [Ids -> S] /\ NoConn \in S
      /\ "idle" \in H /\ "send" \in H /\ "accepted" \in H /\ "failed" \in H
  BY DEF TypeOK
<1> HIDE DEF S, H
<1>1. http' \in [Reqs -> H] /\ httpConn' \in [Reqs -> S]
  BY <1>t DEF Http, HttpLookup, HttpSend, HttpSendFail
<1>2. sendPc' \in [Conns -> {"off", "select", "sending", "ended"}]
  BY DEF Http, HttpLookup, HttpSend, HttpSendFail, TypeOK, serverVars
<1>3. UNCHANGED <<agentVars, rpcVars, hpc, sid, recvPc, registry, issued>>
  BY DEF Http, HttpLookup, HttpSend, HttpSendFail, serverVars
<1> QED BY <1>1, <1>2, <1>3 DEF TypeOK, agentVars, rpcVars, S, H

LEMMA TypeStep == TypeOK /\ [Next]_vars => TypeOK'
<1> SUFFICES ASSUME TypeOK, [Next]_vars PROVE TypeOK'
  OBVIOUS
<1>1. CASE UNCHANGED vars
  BY <1>1 DEF TypeOK, vars, agentVars, rpcVars, serverVars, httpVars
<1> QED
  BY <1>1, AgentStartType, OnWriteDoneType, OnMessageType, AgentEndType, SessionType, StreamType,
     HttpType DEF Next, Agent

\* Every variable keeps its type: no connection passes the handshake without an id,
\* and nothing is registered under the empty one.
THEOREM ControlTypeCorrect == Spec => []TypeOK
BY TypeInit, TypeStep, PTL DEF Spec

-----------------------------------------------------------------------------
(* The sessions and the registry                                           *)

\* What is not yet connected is untouched, an id is given once, and commands are
\* sent only while the handler runs.
Sessions ==
    \A c \in Conns :
      /\ c > conn => hpc[c] = "idle"
      /\ hpc[c] \in {"idle", "handshake"} => sid[c] = NoId /\ down[c] = <<>>
      /\ sendPc[c] \in {"select", "sending"} => hpc[c] = "run"
      /\ down[c] # <<>> => sid[c] \in Ids

ServerInv == TypeOK /\ Sessions /\ RegistryLive /\ HiddenOnlyByTwin

\* Steps that leave the sessions alone.
LEMMA ServerFrame ==
  ASSUME ServerInv, UNCHANGED <<conn, hpc, sid, down, sendPc, registry>>
  PROVE  Sessions' /\ RegistryLive' /\ HiddenOnlyByTwin'
BY DEF ServerInv, Sessions, RegistryLive, HiddenOnlyByTwin

\* A session that runs has an id, which nobody else's handshake can take away.
LEMMA AgentStartServer ==
  ASSUME ServerInv, AgentStart
  PROVE  Sessions' /\ RegistryLive' /\ HiddenOnlyByTwin'
<1>1. /\ conn' = conn + 1 /\ conn' \in Conns /\ conn \in Int
      /\ \/ hpc' = hpc
         \/ hpc' = [hpc EXCEPT ![conn'] = "handshake"]
      /\ UNCHANGED <<sid, down, sendPc, registry>>
  BY ControlAssumption DEF AgentStart, ServerInv, TypeOK, Conns, NoConn
<1>2. hpc[conn'] = "idle" /\ hpc \in [Conns -> {"idle", "handshake", "add", "run", "gone"}]
  BY <1>1 DEF ServerInv, TypeOK, Sessions
<1>3. \A c \in Conns : /\ c \in Int
                       /\ hpc'[c] = hpc[c] \/ (c = conn' /\ hpc'[c] = "handshake")
  BY <1>1, <1>2, ConnNumbers
<1>4. Sessions'
  BY <1>1, <1>2, <1>3 DEF ServerInv, Sessions
<1>5. registry \in [Ids -> Conns \cup {NoConn}]
  BY DEF ServerInv, TypeOK
<1>6. RegistryLive'
  <2> SUFFICES ASSUME NEW i \in Ids, registry[i] # NoConn
               PROVE  hpc'[registry[i]] = "run" /\ sid[registry[i]] = i
    BY <1>1 DEF RegistryLive
  <2>1. registry[i] \in Conns /\ hpc[registry[i]] = "run" /\ sid[registry[i]] = i
    BY <1>5 DEF ServerInv, RegistryLive
  <2>2. registry[i] # conn'
    BY <1>2, <2>1
  <2> QED BY <1>3, <2>1, <2>2
<1>7. HiddenOnlyByTwin'
  BY <1>1, <1>2, <1>3 DEF ServerInv, HiddenOnlyByTwin
<1> QED BY <1>4, <1>6, <1>7

LEMMA OnMessageServer ==
  ASSUME ServerInv, OnMessage
  PROVE  Sessions' /\ RegistryLive' /\ HiddenOnlyByTwin'
<1>1. /\ conn \in Conns /\ down[conn] # <<>> /\ down' = [down EXCEPT ![conn] = Tail(@)]
      /\ UNCHANGED <<conn, hpc, sid, sendPc, registry>>
  BY DEF OnMessage, ServerInv, TypeOK, serverVars
<1>2. down \in [Conns -> Seq(ControlMsgs)]
  BY DEF ServerInv, TypeOK
<1>3. \A c \in Conns : down'[c] # <<>> => down[c] # <<>>
  BY <1>1, <1>2
<1>4. Sessions'
  BY <1>1, <1>3 DEF ServerInv, Sessions
<1> QED BY <1>1, <1>4 DEF ServerInv, RegistryLive, HiddenOnlyByTwin

LEMMA HandshakeServer ==
  ASSUME ServerInv, NEW c \in Conns, Handshake(c) \/ HandshakeFail(c)
  PROVE  Sessions' /\ RegistryLive' /\ HiddenOnlyByTwin'
<1>1. TypeOK
  BY DEF ServerInv
<1>2. hpc[c] = "handshake" /\ UNCHANGED <<conn, sendPc, registry>>
  BY <1>1, HandshakeEffect DEF HandshakeFail, agentVars
<1>3. /\ sid[c] = NoId /\ down[c] = <<>> /\ ~(c > conn)
      /\ sendPc[c] \notin {"select", "sending"}
  BY <1>2 DEF ServerInv, Sessions
<1>4. /\ hpc' \in [Conns -> {"idle", "handshake", "add", "run", "gone"}]
      /\ hpc'[c] \in {"add", "gone"}
      /\ \A d \in Conns \ {c} : hpc'[d] = hpc[d] /\ sid'[d] = sid[d] /\ down'[d] = down[d]
      /\ hpc'[c] = "gone" => UNCHANGED <<sid, down>>
      /\ hpc'[c] = "add" => sid'[c] \in Ids
  <2>1. /\ hpc \in [Conns -> {"idle", "handshake", "add", "run", "gone"}]
        /\ sid \in [Conns -> Ids \cup {NoId}] /\ down \in [Conns -> Seq(ControlMsgs)]
    BY <1>1 DEF TypeOK
  <2>2. CASE ReturnConnect(c) /\ UNCHANGED <<sid, down>>
    BY <2>1, <2>2 DEF ReturnConnect
  <2>3. CASE /\ md[c] \in Ids /\ sid' = [sid EXCEPT ![c] = md[c]]
             /\ hpc' = [hpc EXCEPT ![c] = "add"] /\ down' = down
    BY <2>1, <2>3
  <2>4. ASSUME NEW uuid \in Ids, sid' = [sid EXCEPT ![c] = uuid],
               down' = [down EXCEPT ![c] = Append(@, Msg("ID", uuid))],
               hpc' = [hpc EXCEPT ![c] = "add"]
        PROVE  /\ hpc' \in [Conns -> {"idle", "handshake", "add", "run", "gone"}]
               /\ hpc'[c] = "add" /\ sid'[c] \in Ids
               /\ \A d \in Conns \ {c} : hpc'[d] = hpc[d] /\ sid'[d] = sid[d] /\ down'[d] = down[d]
    BY <2>1, <2>4
  <2> QED BY <1>1, <2>2, <2>3, <2>4, HandshakeEffect DEF HandshakeFail
<1>5. NoId \notin Ids
  BY ControlAssumption
<1>6. Sessions'
  <2> SUFFICES ASSUME NEW d \in Conns
               PROVE  /\ d > conn => hpc'[d] = "idle"
                      /\ hpc'[d] \in {"idle", "handshake"} => sid'[d] = NoId /\ down'[d] = <<>>
                      /\ sendPc[d] \in {"select", "sending"} => hpc'[d] = "run"
                      /\ down'[d] # <<>> => sid'[d] \in Ids
    BY <1>2 DEF Sessions
  <2>1. CASE d # c
    BY <1>4, <2>1 DEF ServerInv, Sessions
  <2>2. CASE d = c /\ hpc'[c] = "gone"
    BY <1>3, <1>4, <2>2
  <2>3. CASE d = c /\ hpc'[c] = "add"
    BY <1>3, <1>4, <2>3
  <2> QED BY <1>4, <2>1, <2>2, <2>3
<1>7. RegistryLive'
  <2>1. registry \in [Ids -> Conns \cup {NoConn}]
    BY <1>1 DEF TypeOK
  <2> QED BY <1>2, <1>4, <2>1 DEF ServerInv, RegistryLive
<1>8. HiddenOnlyByTwin'
  <2> SUFFICES ASSUME NEW d \in Conns, hpc'[d] = "run", registry[sid'[d]] # d
               PROVE  \E e \in Conns \ {d} : sid'[e] = sid'[d]
    BY <1>2 DEF HiddenOnlyByTwin
  <2>1. d # c /\ hpc[d] = "run" /\ sid'[d] = sid[d]
    BY <1>4
  <2>2. PICK e \in Conns \ {d} : sid[e] = sid[d]
    BY <2>1 DEF ServerInv, HiddenOnlyByTwin
  <2>3. sid[d] \in Ids
    BY <1>1, <2>1 DEF TypeOK
  <2>4. e # c
    BY <1>3, <1>5, <2>2, <2>3
  <2> QED BY <1>4, <2>1, <2>2, <2>4
<1> QED BY <1>6, <1>7, <1>8

LEMMA AddServer ==
  ASSUME ServerInv, NEW c \in Conns, Add(c)
  PROVE  Sessions' /\ RegistryLive' /\ HiddenOnlyByTwin'
<1>1. /\ hpc[c] = "add" /\ hpc' = [hpc EXCEPT ![c] = "run"]
      /\ registry' = [registry EXCEPT ![sid[c]] = c]
      /\ UNCHANGED <<conn, sid, down, sendPc>>
  BY DEF Add, agentVars, rpcVars
<1>2. /\ hpc \in [Conns -> {"idle", "handshake", "add", "run", "gone"}]
      /\ registry \in [Ids -> Conns \cup {NoConn}] /\ sid[c] \in Ids
      /\ \A d \in Conns : hpc[d] = "run" => sid[d] \in Ids
  BY <1>1 DEF ServerInv, TypeOK
<1>3. Sessions'
  BY <1>1, <1>2 DEF ServerInv, Sessions
<1>4. RegistryLive'
  <2> SUFFICES ASSUME NEW i \in Ids, registry'[i] # NoConn
               PROVE  hpc'[registry'[i]] = "run" /\ sid[registry'[i]] = i
    BY <1>1 DEF RegistryLive
  <2>1. CASE i = sid[c]
    BY <1>1, <1>2, <2>1
  <2>2. CASE i # sid[c]
    <3>1. registry'[i] = registry[i] /\ registry[i] \in Conns
      BY <1>1, <1>2, <2>2
    <3>2. hpc[registry[i]] = "run" /\ sid[registry[i]] = i
      BY <3>1 DEF ServerInv, RegistryLive
    <3> QED BY <1>1, <1>2, <3>1, <3>2
  <2> QED BY <2>1, <2>2
<1>5. HiddenOnlyByTwin'
  <2> SUFFICES ASSUME NEW d \in Conns, hpc'[d] = "run", registry'[sid[d]] # d
               PROVE  \E e \in Conns \ {d} : sid[e] = sid[d]
    BY <1>1 DEF HiddenOnlyByTwin
  <2>1. d # c /\ hpc[d] = "run" /\ sid[d] \in Ids
    BY <1>1, <1>2
  <2>2. CASE sid[d] = sid[c]
    BY <2>1, <2>2
  <2>3. CASE sid[d] # sid[c]
    <3>1. registry[sid[d]] # d
      BY <1>1, <1>2, <2>1, <2>3
    <3> QED BY <2>1, <3>1 DEF ServerInv, HiddenOnlyByTwin
  <2> QED BY <2>2, <2>3
<1> QED BY <1>3, <1>4, <1>5

LEMMA RemoveServer ==
  ASSUME ServerInv, NEW c \in Conns, Remove(c)
  PROVE  Sessions' /\ RegistryLive' /\ HiddenOnlyByTwin'
<1>1. /\ hpc[c] = "run" /\ hpc' = [hpc EXCEPT ![c] = "gone"]
      /\ registry' = [registry EXCEPT ![sid[c]] = NoConn]
      /\ sendPc[c] = "ended"
      /\ UNCHANGED <<conn, sid, down, sendPc>>
  BY DEF Remove, ReturnConnect, agentVars
<1>2. /\ hpc \in [Conns -> {"idle", "handshake", "add", "run", "gone"}]
      /\ registry \in [Ids -> Conns \cup {NoConn}] /\ sid[c] \in Ids
      /\ \A d \in Conns : hpc[d] = "run" => sid[d] \in Ids
  BY <1>1 DEF ServerInv, TypeOK
<1>3. Sessions'
  BY <1>1, <1>2 DEF ServerInv, Sessions
<1>4. RegistryLive'
  <2> SUFFICES ASSUME NEW i \in Ids, registry'[i] # NoConn
               PROVE  hpc'[registry'[i]] = "run" /\ sid[registry'[i]] = i
    BY <1>1 DEF RegistryLive
  <2>1. i # sid[c] /\ registry'[i] = registry[i] /\ registry[i] \in Conns
    BY <1>1, <1>2
  <2>2. hpc[registry[i]] = "run" /\ sid[registry[i]] = i
    BY <2>1 DEF ServerInv, RegistryLive
  <2>3. registry[i] # c
    BY <2>1, <2>2
  <2> QED BY <1>1, <1>2, <2>1, <2>2, <2>3
<1>5. HiddenOnlyByTwin'
  <2> SUFFICES ASSUME NEW d \in Conns, hpc'[d] = "run", registry'[sid[d]] # d
               PROVE  \E e \in Conns \ {d} : sid[e] = sid[d]
    BY <1>1 DEF HiddenOnlyByTwin
  <2>1. d # c /\ hpc[d] = "run" /\ sid[d] \in Ids
    BY <1>1, <1>2
  <2>2. CASE sid[d] = sid[c]
    BY <2>1, <2>2
  <2>3. CASE sid[d] # sid[c]
    <3>1. registry[sid[d]] # d
      BY <1>1, <1>2, <2>1, <2>3
    <3> QED BY <2>1, <3>1 DEF ServerInv, HiddenOnlyByTwin
  <2> QED BY <2>2, <2>3
<1> QED BY <1>3, <1>4, <1>5

\* The loops of a session and the requests that hand it a command.
LEMMA LoopsServer ==
  ASSUME ServerInv,
         \/ \E c \in Conns : Run(c) \/ Recv(c) \/ RecvFail(c) \/ SendLoop(c) \/ SendLoopDone(c) \/ Break(c)
         \/ \E r \in Reqs : Http(r)
  PROVE  Sessions' /\ RegistryLive' /\ HiddenOnlyByTwin'
<1>1. UNCHANGED <<conn, hpc, sid, registry>>
  BY DEF Run, Recv, RecvFail, SendLoop, SendLoopDone, Break, Http, HttpLookup, HttpSend, HttpSendFail,
       agentVars, serverVars
<1>2. RegistryLive' /\ HiddenOnlyByTwin'
  BY <1>1 DEF ServerInv, RegistryLive, HiddenOnlyByTwin
<1>3. /\ sendPc \in [Conns -> {"off", "select", "sending", "ended"}]
      /\ down \in [Conns -> Seq(ControlMsgs)]
      /\ hpc \in [Conns -> {"idle", "handshake", "add", "run", "gone"}]
      /\ \A d \in Conns : hpc[d] = "run" => sid[d] \in Ids
  BY DEF ServerInv, TypeOK
<1>4. ASSUME NEW c \in Conns, SendLoop(c) PROVE Sessions'
  <2>1. /\ sendPc[c] = "sending"
        /\ sendPc' = [sendPc EXCEPT ![c] = "select"] \/ sendPc' = [sendPc EXCEPT ![c] = "ended"]
        /\ down' = down \/ down' = [down EXCEPT ![c] = Append(@, Msg("STREAM_DATA", NoId))]
    BY <1>4 DEF SendLoop
  <2>2. hpc[c] = "run" /\ sid[c] \in Ids
    BY <1>3, <2>1 DEF ServerInv, Sessions
  <2>3. \A d \in Conns \ {c} : sendPc'[d] = sendPc[d] /\ down'[d] = down[d]
    BY <1>3, <2>1
  <2> QED BY <1>1, <2>2, <2>3 DEF ServerInv, Sessions
<1>5. ASSUME NEW c \in Conns, Recv(c) \/ RecvFail(c) \/ SendLoopDone(c) \/ Break(c) PROVE Sessions'
  <2>1. /\ down' = down
        /\ sendPc' = sendPc \/ sendPc' = [sendPc EXCEPT ![c] = "ended"]
    BY <1>5 DEF Recv, RecvFail, SendLoopDone, Break, rpcVars, serverVars
  <2>2. \A d \in Conns : sendPc'[d] = sendPc[d] \/ sendPc'[d] = "ended"
    BY <1>3, <2>1
  <2> QED BY <1>1, <2>1, <2>2 DEF ServerInv, Sessions
<1>6. ASSUME NEW r \in Reqs, Http(r) PROVE Sessions'
  <2>1. /\ down' = down
        /\ \/ sendPc' = sendPc
           \/ /\ sendPc[httpConn[r]] = "select"
              /\ sendPc' = [sendPc EXCEPT ![httpConn[r]] = "sending"]
    BY <1>6 DEF Http, HttpLookup, HttpSend, HttpSendFail, rpcVars, serverVars
  <2>2. \A d \in Conns : sendPc'[d] = sendPc[d] \/ sendPc[d] = "select"
    BY <1>3, <2>1
  <2> QED BY <1>1, <2>1, <2>2 DEF ServerInv, Sessions
<1>7. ASSUME NEW c \in Conns, Run(c) PROVE Sessions'
  <2>1. /\ hpc[c] = "run" /\ down' = down
        /\ sendPc' = [sendPc EXCEPT ![c] = "select"]
    BY <1>7 DEF Run, rpcVars
  <2>2. \A d \in Conns \ {c} : sendPc'[d] = sendPc[d]
    BY <1>3, <2>1
  <2> QED BY <1>1, <2>1, <2>2 DEF ServerInv, Sessions
<1> QED BY <1>2, <1>4, <1>5, <1>6, <1>7

LEMMA ServerStep == ServerInv /\ [Next]_vars => ServerInv'
<1> SUFFICES ASSUME ServerInv, [Next]_vars PROVE ServerInv'
  OBVIOUS
<1>1. TypeOK'
  BY TypeStep DEF ServerInv
<1>2. ASSUME \/ OnWriteDone \/ OnDone \/ AgentStop \/ AgentCrash \/ StreamMetricsStart \/ StreamEnd
             \/ UNCHANGED vars
      PROVE  Sessions' /\ RegistryLive' /\ HiddenOnlyByTwin'
  <2>1. UNCHANGED <<conn, hpc, sid, down, sendPc, registry>>
    BY <1>2 DEF OnWriteDone, OnDone, AgentStop, AgentCrash, StreamMetricsStart, StreamEnd, vars,
         agentVars, rpcVars, serverVars
  <2> QED BY <2>1, ServerFrame
<1>3. Sessions' /\ RegistryLive' /\ HiddenOnlyByTwin'
  BY <1>2, AgentStartServer, OnMessageServer, HandshakeServer, AddServer, RemoveServer, LoopsServer
     DEF Next, Agent, Session
<1> QED BY <1>1, <1>3 DEF ServerInv

LEMMA ServerAlways == Spec => []ServerInv
<1>1. Init => ServerInv
  <2> SUFFICES ASSUME Init PROVE ServerInv
    OBVIOUS
  <2>1. Sessions /\ RegistryLive /\ HiddenOnlyByTwin
    BY DEF Init, Sessions, RegistryLive, HiddenOnlyByTwin
  <2> QED BY <2>1, TypeInit DEF ServerInv
<1> QED BY <1>1, ServerStep, PTL DEF Spec

\* Whatever handlers of one id overlap, and whichever of them deletes the entry of
\* the other, the registry names no session that is over.
THEOREM RegistryAlwaysLive == Spec => []RegistryLive
<1>1. ServerInv => RegistryLive
  BY DEF ServerInv
<1> QED BY <1>1, ServerAlways, PTL

\* A session that is missing from the registry while it runs shares its id: the
\* check in handshake and the entry made by Add are not one step.
THEOREM AlwaysHiddenOnlyByTwin == Spec => []HiddenOnlyByTwin
<1>1. ServerInv => HiddenOnlyByTwin
  BY DEF ServerInv
<1> QED BY <1>1, ServerAlways, PTL


-----------------------------------------------------------------------------
(* The agent's identity                                                    *)

\* What the send loop puts on a stream.
Commands == {Msg("STREAM_DATA", NoId)}

\* The agent has an id: the one its connection names, or was given.
Known ==
    /\ id \in Ids /\ file # NoId
    /\ down[conn] \in Seq(Commands)
    /\ sid[conn] \in {NoId, id}
    /\ hpc[conn] = "handshake" => md[conn] = id

\* The agent has no id yet: MESSAGE_ID is still to be sent, or on its way and
\* ahead of every command.
Unknown ==
    /\ id = NoId /\ file = NoId /\ md[conn] = NoId
    /\ \/ down[conn] = <<>> /\ hpc[conn] \notin {"add", "run"}
       \/ /\ down[conn] # <<>>
          /\ Head(down[conn]) = Msg("ID", sid[conn])
          /\ Tail(down[conn]) \in Seq(Commands)

\* The agent has no id and will get none: the empty file stands in the way.
Nameless == id = NoId /\ file = EmptyFile

Identity ==
    /\ proc = "up" => Known \/ Unknown \/ Nameless
    /\ stream # "none" => proc = "up"
    /\ StreamUnderOwnId

\* Steps that leave the agent, its id and its connection's messages alone.
LEMMA IdentityFrame ==
  ASSUME Identity, UNCHANGED <<file, proc, conn, id, md>>,
         stream' = stream \/ stream # "none",
         conn \in Conns => /\ sid'[conn] = sid[conn] /\ down'[conn] = down[conn]
                           /\ \/ hpc'[conn] = hpc[conn]
                              \/ hpc[conn] \in {"handshake", "add", "run"} /\ hpc'[conn] = "gone"
                              \/ hpc[conn] = "add" /\ hpc'[conn] = "run",
         proc # "down" => conn \in Conns
  PROVE  Identity'
<1>1. stream' # "none" => stream # "none"
  OBVIOUS
<1>2. proc = "up" => conn \in Conns
  OBVIOUS
<1>3. ASSUME proc = "up", Known PROVE Known'
  BY <1>2, <1>3 DEF Known, Commands, Msg
<1>4. ASSUME proc = "up", Unknown PROVE Unknown'
  BY <1>2, <1>4 DEF Unknown, Commands, Msg
<1>5. StreamUnderOwnId'
  BY <1>1, <1>2 DEF Identity, StreamUnderOwnId
<1> QED BY <1>1, <1>3, <1>4, <1>5 DEF Identity, Nameless

\* A new process knows what the file says, and its connection is a new one.
LEMMA AgentStartIdentity == ASSUME ServerInv, Identity, AgentStart PROVE Identity'
<1>1. stream' = "none" /\ StreamUnderOwnId'
  BY DEF Identity, AgentStart, StreamUnderOwnId
<1>2. ASSUME proc' = "up" PROVE (Known \/ Unknown \/ Nameless)'
  <2>1. /\ conn' = conn + 1 /\ conn' \in Conns /\ conn \in Int
        /\ file' = file /\ id' = LoadUUID /\ md' = [md EXCEPT ![conn'] = LoadUUID]
        /\ hpc' = [hpc EXCEPT ![conn'] = "handshake"]
        /\ UNCHANGED <<down, sid>>
    BY <1>2, ControlAssumption DEF AgentStart, ServerInv, TypeOK, Conns, NoConn
  <2>2. hpc[conn'] = "idle"
    BY <2>1 DEF ServerInv, Sessions
  <2>3. sid[conn'] = NoId /\ down[conn'] = <<>>
    BY <2>1, <2>2 DEF ServerInv, Sessions
  <2>4. hpc'[conn'] = "handshake" /\ md'[conn'] = LoadUUID
    BY <2>1 DEF ServerInv, TypeOK
  <2>5. CASE file \in Ids
    <3>1. id' = file /\ md'[conn'] = file /\ file # NoId /\ id' \in Ids
      BY <2>1, <2>4, <2>5, ControlAssumption DEF LoadUUID
    <3>2. down'[conn'] \in Seq(Commands)
      BY <2>1, <2>3
    <3> QED BY <2>1, <2>3, <3>1, <3>2 DEF Known
  <2>6. CASE file = NoId
    <3>1. id' = NoId /\ md'[conn'] = NoId
      BY <2>1, <2>4, <2>6, ControlAssumption DEF LoadUUID
    <3> QED BY <2>1, <2>3, <2>4, <2>6, <3>1 DEF Unknown
  <2>7. CASE file = EmptyFile
    BY <2>1, <2>7, ControlAssumption DEF LoadUUID, Nameless
  <2> QED BY <2>5, <2>6, <2>7 DEF ServerInv, TypeOK
<1> QED BY <1>1, <1>2 DEF Identity

\* MESSAGE_ID gives the agent the id of its session; a command finds it there.
LEMMA OnMessageIdentity == ASSUME ServerInv, Identity, OnMessage PROVE Identity'
<1>1. /\ conn \in Conns /\ proc = "up" /\ down[conn] # <<>>
      /\ down' = [down EXCEPT ![conn] = Tail(@)]
      /\ down \in [Conns -> Seq(ControlMsgs)]
      /\ UNCHANGED <<proc, conn, md, hpc, sid>>
  BY DEF OnMessage, ServerInv, TypeOK, serverVars
<1>2. sid[conn] \in Ids /\ hpc[conn] # "handshake" /\ NoId \notin Ids
  BY <1>1, ControlAssumption DEF ServerInv, Sessions
<1>3. down'[conn] = Tail(down[conn])
  BY <1>1
<1>5. CASE Nameless
  <2>1. UNCHANGED <<file, id>>
    BY <1>5, ControlAssumption DEF OnMessage, SaveUUID, Nameless
  <2> QED BY <1>1, <1>5, <2>1 DEF Identity, StreamUnderOwnId, Nameless
<1>6. CASE Known
  <2>1. down[conn] \in Seq(Commands) /\ file # NoId /\ id = sid[conn]
    BY <1>2, <1>6 DEF Known
  <2>2. Head(down[conn]) \in Commands /\ Tail(down[conn]) \in Seq(Commands)
    <3> HIDE DEF Commands
    <3> QED BY <1>1, <2>1
  <2>3. Head(down[conn]).type = "STREAM_DATA"
    BY <2>2 DEF Commands, Msg
  <2>4. UNCHANGED <<file, id>>
    BY <2>3 DEF OnMessage
  <2>5. Known'
    BY <1>1, <1>2, <1>3, <1>6, <2>1, <2>2, <2>4 DEF Known
  <2>6. StreamUnderOwnId'
    BY <1>1, <1>2, <2>1, <2>4 DEF StreamUnderOwnId
  <2> QED BY <1>1, <2>5, <2>6 DEF Identity
<1>7. CASE Unknown
  <2>1. /\ Head(down[conn]) = Msg("ID", sid[conn]) /\ Tail(down[conn]) \in Seq(Commands)
        /\ id = NoId /\ file = NoId
    BY <1>1, <1>7 DEF Unknown
  <2>2. Head(down[conn]).type = "ID" /\ Head(down[conn]).payload = sid[conn]
    BY <2>1 DEF Msg
  <2>3. id' = sid[conn] /\ file' # NoId /\ stream' = stream
    BY <1>2, <2>1, <2>2, ControlAssumption DEF OnMessage, SaveUUID
  <2>4. Known'
    BY <1>1, <1>2, <1>3, <2>1, <2>3 DEF Known
  <2>5. StreamUnderOwnId'
    BY <1>1, <1>2, <2>3 DEF StreamUnderOwnId
  <2> QED BY <1>1, <2>4, <2>5 DEF Identity
<1> QED BY <1>1, <1>5, <1>6, <1>7 DEF Identity

\* An agent that names its id keeps it; one that names none is sent a new one.
LEMMA HandshakeIdentity ==
  ASSUME ServerInv, Identity, NEW c \in Conns, Handshake(c)
  PROVE  Identity'
<1>1. TypeOK
  BY DEF ServerInv
<1>2. /\ hpc[c] = "handshake" /\ sid[c] = NoId /\ down[c] = <<>>
      /\ UNCHANGED <<file, proc, conn, id, md, stream>>
  BY <1>1, HandshakeEffect DEF ServerInv, Sessions, agentVars
<1>3. /\ hpc \in [Conns -> {"idle", "handshake", "add", "run", "gone"}]
      /\ sid \in [Conns -> Ids \cup {NoId}] /\ down \in [Conns -> Seq(ControlMsgs)]
      /\ proc # "down" => conn \in Conns
  BY <1>1 DEF TypeOK
<1>4. StreamUnderOwnId => stream = "none" \/ Nameless \/ conn # c
  BY <1>2, ControlAssumption DEF StreamUnderOwnId, Nameless
<1>5. CASE conn # c
  <2>1. conn \in Conns => sid'[conn] = sid[conn] /\ down'[conn] = down[conn] /\ hpc'[conn] = hpc[conn]
    BY <1>1, <1>3, <1>5, HandshakeEffect DEF ReturnConnect
  <2> QED BY <1>2, <1>3, <2>1, IdentityFrame
<1>6. CASE conn = c
  <2>1. StreamUnderOwnId'
    BY <1>2, <1>4, <1>6 DEF Identity, StreamUnderOwnId, Nameless
  <2>2. CASE ReturnConnect(c) /\ UNCHANGED <<sid, down>>
    <3>1. hpc'[c] = "gone"
      BY <1>3, <2>2 DEF ReturnConnect
    <3> QED BY <1>2, <1>3, <1>6, <2>2, <3>1, IdentityFrame
  <2>3. CASE /\ md[c] \in Ids /\ sid' = [sid EXCEPT ![c] = md[c]]
             /\ hpc' = [hpc EXCEPT ![c] = "add"] /\ down' = down
    <3>1. ~Unknown
      BY <1>6, <2>3, ControlAssumption DEF Unknown
    <3>2. ASSUME Known PROVE Known'
      <4>1. sid'[conn] = id /\ hpc'[conn] = "add"
        BY <1>2, <1>3, <1>6, <2>3, <3>2 DEF Known
      <4> QED BY <1>2, <2>3, <3>2, <4>1 DEF Known, Commands, Msg
    <3> QED BY <1>2, <2>1, <3>1, <3>2 DEF Identity, Nameless
  <2>4. ASSUME NEW uuid \in Ids, md[c] = NoId, sid' = [sid EXCEPT ![c] = uuid],
               down' = [down EXCEPT ![c] = Append(@, Msg("ID", uuid))],
               hpc' = [hpc EXCEPT ![c] = "add"]
        PROVE  Identity'
    <3>1. ~Known
      BY <1>2, <1>6, <2>4, ControlAssumption DEF Known
    <3>2. ASSUME Unknown PROVE Unknown'
      <4>1. down'[conn] = Append(<<>>, Msg("ID", uuid)) /\ sid'[conn] = uuid
        BY <1>2, <1>3, <1>6, <2>4
      <4>2. down'[conn] = <<Msg("ID", uuid)>>
        BY <4>1
      <4>3. /\ down'[conn] # <<>> /\ Head(down'[conn]) = Msg("ID", uuid)
            /\ Tail(down'[conn]) = <<>>
        BY <4>2
      <4> QED BY <1>2, <3>2, <4>1, <4>3 DEF Unknown
    <3> QED BY <1>2, <2>1, <3>1, <3>2 DEF Identity, Nameless
  <2> QED BY <1>1, <2>2, <2>3, <2>4, HandshakeEffect
<1> QED BY <1>5, <1>6

\* A command is sent behind MESSAGE_ID.
LEMMA SendLoopIdentity ==
  ASSUME ServerInv, Identity, NEW c \in Conns, SendLoop(c)
  PROVE  Identity'
<1>1. /\ sendPc[c] = "sending"
      /\ UNCHANGED <<file, proc, conn, id, md, stream, hpc, sid>>
      /\ down' = down \/ down' = [down EXCEPT ![c] = Append(@, Msg("STREAM_DATA", NoId))]
  BY DEF SendLoop, agentVars
<1>2. /\ down \in [Conns -> Seq(ControlMsgs)] /\ hpc[c] = "run"
      /\ proc # "down" => conn \in Conns
  BY <1>1 DEF ServerInv, TypeOK, Sessions
<1>3. CASE down' = down \/ conn # c
  <2>1. conn \in Conns => down'[conn] = down[conn]
    BY <1>1, <1>2, <1>3
  <2> QED BY <1>1, <1>2, <2>1, IdentityFrame
<1>4. CASE /\ conn = c
           /\ down' = [down EXCEPT ![c] = Append(@, Msg("STREAM_DATA", NoId))]
  <2> DEFINE cmd == Msg("STREAM_DATA", NoId)
  <2>1. down'[conn] = Append(down[conn], cmd) /\ cmd \in Commands /\ down[conn] \in Seq(ControlMsgs)
    BY <1>2, <1>4 DEF Commands
  <2> HIDE DEF cmd, Commands
  <2>2. ASSUME Known PROVE Known'
    <3>1. Append(down[conn], cmd) \in Seq(Commands)
      BY <2>1, <2>2 DEF Known
    <3> QED BY <1>1, <2>1, <2>2, <3>1 DEF Known
  <2>3. ASSUME Unknown PROVE Unknown'
    <3>1. /\ down[conn] # <<>> /\ Head(down[conn]) = Msg("ID", sid[conn])
          /\ Tail(down[conn]) \in Seq(Commands)
      BY <1>2, <1>4, <2>3 DEF Unknown
    <3>2. /\ Head(Append(down[conn], cmd)) = Head(down[conn])
          /\ Tail(Append(down[conn], cmd)) = Append(Tail(down[conn]), cmd)
      BY <2>1, <3>1, HeadTailAppend
    <3>3. Append(Tail(down[conn]), cmd) \in Seq(Commands) /\ Append(down[conn], cmd) # <<>>
      BY <2>1, <3>1
    <3> QED BY <1>1, <2>1, <2>3, <3>1, <3>2, <3>3 DEF Unknown
  <2>4. StreamUnderOwnId'
    BY <1>1 DEF Identity, StreamUnderOwnId
  <2> QED BY <1>1, <2>2, <2>3, <2>4 DEF Identity, Nameless
<1> QED BY <1>1, <1>3, <1>4

LEMMA IdentityStep == ServerInv /\ Identity /\ [Next]_vars => Identity'
<1> SUFFICES ASSUME ServerInv, Identity, [Next]_vars PROVE Identity'
  OBVIOUS
<1>t. /\ hpc \in [Conns -> {"idle", "handshake", "add", "run", "gone"}]
      /\ proc # "down" => conn \in Conns
  BY DEF ServerInv, TypeOK
<1>1. ASSUME OnDone \/ AgentStop \/ AgentCrash PROVE Identity'
  <2>1. stream' = "none" /\ proc' # "up"
    BY <1>1 DEF OnDone, AgentStop, AgentCrash, NoClient
  <2> QED BY <2>1 DEF Identity, StreamUnderOwnId
<1>2. ASSUME OnWriteDone \/ StreamMetricsStart \/ StreamEnd \/ UNCHANGED vars PROVE Identity'
  <2>1. /\ UNCHANGED <<file, proc, conn, id, md, sid, down, hpc>>
        /\ stream' = stream \/ stream # "none"
    BY <1>2 DEF OnWriteDone, StreamMetricsStart, StreamEnd, vars, agentVars, rpcVars, serverVars
  <2> QED BY <1>t, <2>1, IdentityFrame
<1>3. ASSUME NEW c \in Conns, HandshakeFail(c) \/ Add(c) \/ Remove(c) PROVE Identity'
  <2>1. UNCHANGED <<file, proc, conn, id, md, stream, sid, down>>
    BY <1>3 DEF HandshakeFail, Add, Remove, agentVars, rpcVars
  <2>2. \/ hpc[c] \in {"handshake", "run"} /\ hpc' = [hpc EXCEPT ![c] = "gone"]
        \/ hpc[c] = "add" /\ hpc' = [hpc EXCEPT ![c] = "run"]
    BY <1>3 DEF HandshakeFail, Add, Remove, ReturnConnect
  <2>3. conn \in Conns => \/ hpc'[conn] = hpc[conn]
                          \/ hpc[conn] \in {"handshake", "add", "run"} /\ hpc'[conn] = "gone"
                          \/ hpc[conn] = "add" /\ hpc'[conn] = "run"
    BY <1>t, <2>2
  <2> QED BY <1>t, <2>1, <2>3, IdentityFrame
<1>4. ASSUME \/ \E c \in Conns : Run(c) \/ Recv(c) \/ RecvFail(c) \/ SendLoopDone(c) \/ Break(c)
             \/ \E r \in Reqs : Http(r)
      PROVE  Identity'
  <2>1. UNCHANGED <<file, proc, conn, id, md, stream, sid, down, hpc>>
    BY <1>4 DEF Run, Recv, RecvFail, SendLoopDone, Break, Http, HttpLookup, HttpSend, HttpSendFail,
         agentVars, rpcVars, serverVars
  <2> QED BY <1>t, <2>1, IdentityFrame
<1> QED
  BY <1>1, <1>2, <1>3, <1>4, AgentStartIdentity, OnMessageIdentity, HandshakeIdentity,
     SendLoopIdentity DEF Next, Agent, Session

\* The agent streams under the id its session is registered with, however often it
\* crashed before: no command overtakes the MESSAGE_ID that names the agent.  With
\* an empty UUID file it may stream under the empty id, but under no other.
THEOREM StreamAlwaysUnderOwnId == Spec => []StreamUnderOwnId
<1>1. Init => Identity
  BY DEF Init, Identity, StreamUnderOwnId
<1>2. Identity => StreamUnderOwnId
  BY DEF Identity
<1> QED BY <1>1, <1>2, ServerAlways, IdentityStep, PTL DEF Spec

=============================================================================
