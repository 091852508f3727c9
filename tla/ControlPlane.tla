---------------------------- MODULE ControlPlane ----------------------------
(***************************************************************************)
(* The control path of Volta: how an agent gets its identity, connects,    *)
(* is listed, and is told to stream.                                       *)
(*                                                                         *)
(*   agent    Client and ConnectReactor (client/*.cc), the UUID file       *)
(*   server   GRPCServer.Connect / handshake / StreamMetrics,              *)
(*            AgentSession, AgentRegistry, CommandRouter.StreamData        *)
(*   client   any number of POST /api/agents/{id}/stream requests          *)
(*                                                                         *)
(* One machine runs the agent.  Each start of the process opens one        *)
(* Connect RPC; when that RPC ends the agent goes on without a server (it  *)
(* never reconnects).  The process may die at any time and be started      *)
(* again, and the server may learn of a dead connection only much later,   *)
(* so the handlers of several connections of the machine can overlap.      *)
(* Each connection has its own goroutines at the server; a step is an      *)
(* operation on a channel, on the stream or on the registry.               *)
(***************************************************************************)
EXTENDS Integers, Sequences, FiniteSets

CONSTANTS
    MaxConns,    \* bound: how often the agent process is started
    Ids,         \* the UUIDs that can exist
    NoId,        \* the empty agent id
    EmptyFile,   \* a UUID file without content
    InitFiles,   \* what the UUID file may be at first: NoId stands for no file
    MaxReqs      \* bound: the HTTP requests ever made

Conns == 1 .. MaxConns
Reqs == 1 .. MaxReqs
NoConn == 0

ASSUME ControlAssumption ==
    /\ MaxConns \in Nat /\ MaxReqs \in Nat
    /\ NoId \notin Ids /\ EmptyFile \notin Ids /\ EmptyFile # NoId
    /\ InitFiles \subseteq Ids \cup {NoId, EmptyFile}

VARIABLES
    (* the agent's machine and process *)
    file,        \* kUUIDFile
    proc,        \* down, up (in Client::Connect) or offline (no Client)
    conn,        \* the number of the process's Connect RPC, counts the starts
    id,          \* id_
    writerqu,    \* ConnectReactor's queue
    writing,     \* writing_: a StartWrite is outstanding
    stream,      \* stream_data_reactor_ and its RPC: none, starting, open, ended
    (* each Connect RPC *)
    link,        \* unused, open or broken
    md,          \* the agent-id metadata it was opened with
    up,          \* control messages on their way to the server
    down,        \* control messages on their way to the agent
    (* the server *)
    hpc,         \* the Connect handler: idle, handshake, add, run, gone
    sid,         \* the id the handshake returned
    sendPc,      \* AgentSession.send: off, select, sending, ended
    recvPc,      \* AgentSession.recv: off, recv, ended
    registry,    \* AgentRegistry.sessions
    issued,      \* the UUIDs that exist
    http,        \* the state of each request: idle, send, accepted, failed
    httpConn     \* the session it is sending to

agentVars  == <<file, proc, conn, id, writerqu, writing, stream>>
rpcVars    == <<link, md, up, down>>
serverVars == <<hpc, sid, sendPc, recvPc, registry, issued>>
httpVars   == <<http, httpConn>>
vars == <<agentVars, rpcVars, serverVars, httpVars>>

\* A control message: its type and, for MESSAGE_ID, the id it carries.
Msg(type, payload) == [type |-> type, payload |-> payload]

-----------------------------------------------------------------------------
(* The agent's side of the Connect RPC                                     *)

\* EnqueueWrite under mu_: queue the message and start writing it unless
\* another one is being written.
EnqueueWrite(type) ==
    /\ writerqu' = Append(writerqu, type)
    /\ writing' = TRUE
    /\ up' = IF writing THEN up ELSE [up EXCEPT ![conn] = Append(@, Head(writerqu'))]

\* Faulty variant: whatever the file holds is taken for an id.
LoadUUIDRaw == file

\* LoadUUID leaves id_ empty when there is no file or its first line is empty.
LoadUUID == IF file \in Ids THEN file ELSE NoId

\* The process starts.  CreateChannel succeeds and ConnectReactor opens the
\* RPC and sends MESSAGE_ID, or the agent falls back to the local dashboard.
AgentStart ==
    /\ proc = "down"
    /\ conn < MaxConns
    /\ conn' = conn + 1
    /\ \/ /\ proc' = "up"
          /\ id' = LoadUUID
          /\ link' = [link EXCEPT ![conn'] = "open"]
          /\ md' = [md EXCEPT ![conn'] = LoadUUID]
          /\ writerqu' = <<"ID">>
          /\ writing' = TRUE
          /\ up' = [up EXCEPT ![conn'] = <<"ID">>]
          /\ hpc' = [hpc EXCEPT ![conn'] = "handshake"]
       \/ /\ proc' = "offline"
          /\ UNCHANGED <<id, link, md, writerqu, writing, up, hpc>>
    /\ UNCHANGED <<file, stream, down, sid, sendPc, recvPc, registry, issued, httpVars>>

\* OnWriteDone(true): pop the message written, start writing the next.
OnWriteDone ==
    /\ proc = "up" /\ writing
    /\ writerqu # <<>>
    /\ writerqu' = Tail(writerqu)
    /\ writing' = (writerqu' # <<>>)
    /\ up' = IF writerqu' = <<>> THEN up
             ELSE [up EXCEPT ![conn] = Append(@, Head(writerqu'))]
    /\ UNCHANGED <<file, proc, conn, id, stream, link, md, down, serverVars, httpVars>>

\* Faulty variant: the id is saved but not used before the next start.
SaveUUIDOnly(uuid) ==
    \/ /\ file # NoId
       /\ EnqueueWrite("ERROR")
       /\ UNCHANGED <<file, id>>
    \/ /\ file = NoId
       /\ file' = uuid
       /\ UNCHANGED <<id, writerqu, writing, up>>

\* SaveUUID: an existing file, even an empty one, is never overwritten.  The
\* content is written to a temporary file and renamed, so the file appears
\* whole; but nobody looks whether the write succeeded, and on a full disk an
\* empty file is renamed.  (The server sends no empty id.  A rename that throws
\* ends the process: AgentCrash.)
SaveUUID(uuid) ==
    \/ /\ file # NoId
       /\ EnqueueWrite("ERROR")
       /\ UNCHANGED <<file, id>>
    \/ /\ file = NoId
       /\ file' \in {uuid, EmptyFile}
       /\ id' = uuid
       /\ UNCHANGED <<writerqu, writing, up>>

\* StreamData: a reactor that was ever created blocks every later request.
StreamData ==
    \/ /\ stream # "none"
       /\ EnqueueWrite("ERROR")
       /\ UNCHANGED stream
    \/ /\ stream = "none"
       /\ stream' = "starting"
       /\ EnqueueWrite("OK")

\* OnReadDone(true), OnMessage: the server sends MESSAGE_ID and
\* MESSAGE_STREAM_DATA and nothing else.
OnMessage ==
    /\ proc = "up"
    /\ down[conn] # <<>>
    /\ LET msg == Head(down[conn]) IN
       \/ msg.type = "ID" /\ SaveUUID(msg.payload) /\ UNCHANGED stream
       \/ msg.type = "STREAM_DATA" /\ StreamData /\ UNCHANGED <<file, id>>
    /\ down' = [down EXCEPT ![conn] = Tail(@)]
    /\ UNCHANGED <<proc, conn, link, md, serverVars, httpVars>>

\* The process has no Client, or is gone: its reactors and id_ with it.
NoClient ==
    /\ id' = NoId
    /\ writerqu' = <<>>
    /\ writing' = FALSE
    /\ stream' = "none"

\* OnDone: Await returns, the Client and both its reactors are destroyed and
\* the agent goes on collecting without a server.
OnDone ==
    /\ proc = "up"
    /\ link[conn] = "broken"
    /\ proc' = "offline"
    /\ NoClient
    /\ UNCHANGED <<file, conn, rpcVars, serverVars, httpVars>>

\* A signal clears g_running: Await cancels the RPC and the process exits.
AgentStop ==
    /\ proc # "down"
    /\ proc' = "down"
    /\ NoClient
    /\ link' = IF proc = "up" THEN [link EXCEPT ![conn] = "broken"] ELSE link
    /\ UNCHANGED <<file, conn, md, up, down, serverVars, httpVars>>

\* The process or its machine dies; the server is not told.
AgentCrash ==
    /\ proc # "down"
    /\ proc' = "down"
    /\ NoClient
    /\ UNCHANGED <<file, conn, rpcVars, serverVars, httpVars>>

-----------------------------------------------------------------------------
(* The server's Connect handler                                            *)

\* The handler of c returns: the RPC ends with it.
ReturnConnect(c) ==
    /\ hpc' = [hpc EXCEPT ![c] = "gone"]
    /\ link' = [link EXCEPT ![c] = "broken"]

\* handshake: the first message has come.  An agent that names an id which is
\* registered is refused; one that names none is given a new one.
Handshake(c) ==
    /\ hpc[c] = "handshake"
    /\ up[c] # <<>>
    /\ up' = [up EXCEPT ![c] = Tail(@)]
    /\ \/ /\ md[c] # NoId
          /\ registry[md[c]] # NoConn
          /\ ReturnConnect(c)
          /\ UNCHANGED <<sid, issued, down>>
       \/ /\ md[c] # NoId
          /\ registry[md[c]] = NoConn
          /\ sid' = [sid EXCEPT ![c] = md[c]]
          /\ hpc' = [hpc EXCEPT ![c] = "add"]
          /\ UNCHANGED <<link, issued, down>>
       \/ /\ md[c] = NoId
          /\ \E uuid \in Ids \ issued :
               /\ issued' = issued \cup {uuid}
               /\ \/ /\ link[c] = "open"
                     /\ sid' = [sid EXCEPT ![c] = uuid]
                     /\ down' = [down EXCEPT ![c] = Append(@, Msg("ID", uuid))]
                     /\ hpc' = [hpc EXCEPT ![c] = "add"]
                     /\ UNCHANGED link
                  \/ /\ link[c] = "broken"
                     /\ ReturnConnect(c)
                     /\ UNCHANGED <<sid, down>>
    /\ UNCHANGED <<agentVars, md, sendPc, recvPc, registry, httpVars>>

\* handshake: five seconds without a message, or the stream fails.
HandshakeFail(c) ==
    /\ hpc[c] = "handshake"
    /\ ReturnConnect(c)
    /\ UNCHANGED <<agentVars, md, up, down, sid, sendPc, recvPc, registry, issued, httpVars>>

\* session.New and registry.Add, which replaces an entry of the same id.
Add(c) ==
    /\ hpc[c] = "add"
    /\ registry' = [registry EXCEPT ![sid[c]] = c]
    /\ hpc' = [hpc EXCEPT ![c] = "run"]
    /\ UNCHANGED <<agentVars, rpcVars, sid, sendPc, recvPc, issued, httpVars>>

\* Run starts the two loops of a session that is listed already.
Run(c) ==
    /\ hpc[c] = "run"
    /\ sendPc[c] = "off" /\ recvPc[c] = "off"
    /\ sendPc' = [sendPc EXCEPT ![c] = "select"]
    /\ recvPc' = [recvPc EXCEPT ![c] = "recv"]
    /\ UNCHANGED <<agentVars, rpcVars, hpc, sid, registry, issued, httpVars>>

\* recv: handleMessage answers neither OK nor ERROR, and the agent sends no other.
Recv(c) ==
    /\ recvPc[c] = "recv"
    /\ up[c] # <<>>
    /\ up' = [up EXCEPT ![c] = Tail(@)]
    /\ UNCHANGED <<agentVars, link, md, down, serverVars, httpVars>>

\* Faulty variant: the agent is unlisted as soon as recv fails.
RecvFailUnlists(c) ==
    /\ recvPc[c] = "recv"
    /\ link[c] = "broken"
    /\ recvPc' = [recvPc EXCEPT ![c] = "ended"]
    /\ registry' = [registry EXCEPT ![sid[c]] = NoConn]
    /\ UNCHANGED <<agentVars, rpcVars, hpc, sid, sendPc, issued, httpVars>>

\* recv: the stream has failed.
RecvFail(c) ==
    /\ recvPc[c] = "recv"
    /\ link[c] = "broken"
    /\ recvPc' = [recvPc EXCEPT ![c] = "ended"]
    /\ UNCHANGED <<agentVars, rpcVars, hpc, sid, sendPc, registry, issued, httpVars>>

\* Faulty variant: the message taken from sendCh is lost.
SendLoopLoses(c) ==
    /\ sendPc[c] = "sending"
    /\ sendPc' = [sendPc EXCEPT ![c] = "select"]
    /\ UNCHANGED <<agentVars, rpcVars, hpc, sid, recvPc, registry, issued, httpVars>>

\* send: the message taken from sendCh goes on the stream, or fails.
SendLoop(c) ==
    /\ sendPc[c] = "sending"
    /\ \/ /\ link[c] = "open"
          /\ down' = [down EXCEPT ![c] = Append(@, Msg("STREAM_DATA", NoId))]
          /\ sendPc' = [sendPc EXCEPT ![c] = "select"]
       \/ /\ link[c] = "broken"
          /\ sendPc' = [sendPc EXCEPT ![c] = "ended"]
          /\ UNCHANGED down
    /\ UNCHANGED <<agentVars, link, md, up, hpc, sid, recvPc, registry, issued, httpVars>>

\* send: the context of the stream is done.
SendLoopDone(c) ==
    /\ sendPc[c] = "select"
    /\ link[c] = "broken"
    /\ sendPc' = [sendPc EXCEPT ![c] = "ended"]
    /\ UNCHANGED <<agentVars, rpcVars, hpc, sid, recvPc, registry, issued, httpVars>>

\* Faulty variant: the error path of Connect forgets registry.Remove.
RemoveForgets(c) ==
    /\ hpc[c] = "run"
    /\ sendPc[c] = "ended" /\ recvPc[c] = "ended"
    /\ ReturnConnect(c)
    /\ UNCHANGED <<agentVars, md, up, down, sid, sendPc, recvPc, registry, issued, httpVars>>

\* Run returns when both loops have; the entry of the id is deleted, whichever
\* session it belongs to.
Remove(c) ==
    /\ hpc[c] = "run"
    /\ sendPc[c] = "ended" /\ recvPc[c] = "ended"
    /\ registry' = [registry EXCEPT ![sid[c]] = NoConn]
    /\ ReturnConnect(c)
    /\ UNCHANGED <<agentVars, md, up, down, sid, sendPc, recvPc, issued, httpVars>>

\* The server's StreamMetrics handler starts: it serves registered agents only.
StreamMetricsStart ==
    /\ stream = "starting"
    /\ stream' = IF id # NoId /\ registry[id] # NoConn THEN "open" ELSE "ended"
    /\ UNCHANGED <<file, proc, conn, id, writerqu, writing, rpcVars, serverVars, httpVars>>

-----------------------------------------------------------------------------
(* POST /api/agents/{id}/stream                                            *)

\* CommandRouter.StreamData: look the agent up.  Requests are numbered in the
\* order of their look-ups.
HttpLookup(r, agent) ==
    /\ http[r] = "idle"
    /\ \A q \in 1 .. r - 1 : http[q] # "idle"
    /\ http' = [http EXCEPT ![r] = IF registry[agent] = NoConn THEN "failed" ELSE "send"]
    /\ httpConn' = [httpConn EXCEPT ![r] = registry[agent]]
    /\ UNCHANGED <<agentVars, rpcVars, serverVars>>

\* AgentSession.Send: the unbuffered sendCh hands the message to the send loop.
HttpSend(r) ==
    /\ http[r] = "send"
    /\ sendPc[httpConn[r]] = "select"
    /\ sendPc' = [sendPc EXCEPT ![httpConn[r]] = "sending"]
    /\ http' = [http EXCEPT ![r] = "accepted"]
    /\ UNCHANGED <<agentVars, rpcVars, hpc, sid, recvPc, registry, issued, httpConn>>

\* Faulty variant: Send only waits for the send loop.
HttpSendFailNever(r) ==
    /\ http[r] = "failed"
    /\ UNCHANGED vars

\* AgentSession.Send: the session's context is done.
HttpSendFail(r) ==
    /\ http[r] = "send"
    /\ link[httpConn[r]] = "broken"
    /\ http' = [http EXCEPT ![r] = "failed"]
    /\ httpConn' = [httpConn EXCEPT ![r] = NoConn]
    /\ UNCHANGED <<agentVars, rpcVars, serverVars>>

-----------------------------------------------------------------------------
(* The environment                                                         *)

\* The connection of c is lost, and both ends find out.
Break(c) ==
    /\ link[c] = "open"
    /\ link' = [link EXCEPT ![c] = "broken"]
    /\ UNCHANGED <<agentVars, md, up, down, serverVars, httpVars>>

\* The StreamMetrics RPC ends on its own.
StreamEnd ==
    /\ stream = "open"
    /\ stream' = "ended"
    /\ UNCHANGED <<file, proc, conn, id, writerqu, writing, rpcVars, serverVars, httpVars>>

-----------------------------------------------------------------------------
Init ==
    /\ file \in InitFiles
    /\ proc = "down"
    /\ conn = NoConn
    /\ id = NoId
    /\ writerqu = <<>>
    /\ writing = FALSE
    /\ stream = "none"
    /\ link = [c \in Conns |-> "unused"]
    /\ md = [c \in Conns |-> NoId]
    /\ up = [c \in Conns |-> <<>>]
    /\ down = [c \in Conns |-> <<>>]
    /\ hpc = [c \in Conns |-> "idle"]
    /\ sid = [c \in Conns |-> NoId]
    /\ sendPc = [c \in Conns |-> "off"]
    /\ recvPc = [c \in Conns |-> "off"]
    /\ registry = [i \in Ids |-> NoConn]
    /\ issued = {file} \cap Ids
    /\ http = [r \in Reqs |-> "idle"]
    /\ httpConn = [r \in Reqs |-> NoConn]

Agent == AgentStart \/ OnWriteDone \/ OnMessage \/ OnDone \/ AgentStop \/ AgentCrash

Session(c) ==
    \/ Handshake(c) \/ HandshakeFail(c) \/ Add(c) \/ Run(c) \/ Remove(c)
    \/ Recv(c) \/ RecvFail(c) \/ SendLoop(c) \/ SendLoopDone(c)

Http(r) ==
    \/ \E agent \in Ids : HttpLookup(r, agent)
    \/ HttpSend(r) \/ HttpSendFail(r)

Next ==
    \/ Agent
    \/ \E c \in Conns : Session(c) \/ Break(c)
    \/ StreamMetricsStart \/ StreamEnd
    \/ \E r \in Reqs : Http(r)

Spec == Init /\ [][Next]_vars

\* gRPC delivers the messages of an open stream and runs the callbacks, and a
\* goroutine that can go on does: control messages are small and few, so
\* stream.Send never waits for the peer.  Starts, crashes, breaks, requests and
\* the five-second timeout are left to chance.
Fairness ==
    /\ WF_vars(OnMessage) /\ WF_vars(StreamMetricsStart)
    /\ \A c \in Conns : WF_vars(Run(c)) /\ WF_vars(SendLoop(c))
    /\ \A r \in Reqs : WF_vars(HttpSend(r)) /\ WF_vars(HttpSendFail(r))

FairSpec == Spec /\ Fairness

-----------------------------------------------------------------------------
(* Properties                                                              *)

ControlMsgs == [type : {"ID", "STREAM_DATA"}, payload : Ids \cup {NoId}]

\* Every variable has its type, and a connection past its handshake has an id:
\* nothing is ever registered under the empty id.
TypeOK ==
    /\ file \in Ids \cup {NoId, EmptyFile}
    /\ proc \in {"down", "up", "offline"}
    /\ conn \in Conns \cup {NoConn}
    /\ proc # "down" => conn \in Conns
    /\ id \in Ids \cup {NoId}
    /\ writerqu \in Seq({"ID", "OK", "ERROR"})
    /\ writing \in BOOLEAN
    /\ stream \in {"none", "starting", "open", "ended"}
    /\ link \in [Conns -> {"unused", "open", "broken"}]
    /\ md \in [Conns -> Ids \cup {NoId}]
    /\ up \in [Conns -> Seq({"ID", "OK", "ERROR"})]
    /\ down \in [Conns -> Seq(ControlMsgs)]
    /\ hpc \in [Conns -> {"idle", "handshake", "add", "run", "gone"}]
    /\ sid \in [Conns -> Ids \cup {NoId}]
    /\ \A c \in Conns : hpc[c] \in {"add", "run"} => sid[c] \in Ids
    /\ sendPc \in [Conns -> {"off", "select", "sending", "ended"}]
    /\ recvPc \in [Conns -> {"off", "recv", "ended"}]
    /\ registry \in [Ids -> Conns \cup {NoConn}]
    /\ issued \in SUBSET Ids
    /\ http \in [Reqs -> {"idle", "send", "accepted", "failed"}]
    /\ httpConn \in [Reqs -> Conns \cup {NoConn}]

\* The registry never names a session whose handler has returned, even when two
\* handlers of one id overlap and overwrite and delete each other's entry.
RegistryLive ==
    \A i \in Ids : registry[i] # NoConn =>
        /\ hpc[registry[i]] = "run"
        /\ sid[registry[i]] = i

\* A running session is missing from the registry only if another connection
\* passed the handshake with the same id.
HiddenOnlyByTwin ==
    \A c \in Conns : hpc[c] = "run" /\ registry[sid[c]] # c =>
        \E d \in Conns \ {c} : sid[d] = sid[c]

\* The agent streams under the id its session is registered with: no command
\* overtakes MESSAGE_ID.  An empty UUID file is the exception (the TODO in
\* Client::Connect): it may hide the id the server assigns, and then the agent
\* streams under the empty id, never under one of another session.
StreamUnderOwnId ==
    stream # "none" =>
      \/ id \in Ids /\ id = sid[conn]
      \/ id = NoId /\ file = EmptyFile

\* AgentSession.Send returns, whatever becomes of the session meanwhile.
SendReturns == \A r \in Reqs : http[r] = "send" ~> http[r] # "send"

\* A request answered with 202 leads to an open metric stream.  The exceptions:
\* a stream of this process has ended before (the agent refuses the command,
\* see ControlPlane_refused.cfg), the UUID file is empty, the agent or its
\* connection is lost, or the session has lost its entry in the registry to
\* another connection of its id (see ControlPlane_listed.cfg).
AcceptedStarts ==
    \A r \in Reqs :
      http[r] = "accepted" /\ stream # "ended" /\ file # EmptyFile ~>
        \/ stream = "open"
        \/ proc # "up" \/ conn # httpConn[r] \/ link[conn] = "broken"
        \/ registry[sid[conn]] # conn

\* GET /api/agents lists the connected agents (server README): an agent whose
\* session runs over a live connection is in the registry.
ConnectedListed ==
    proc = "up" /\ link[conn] = "open" /\ hpc[conn] = "run" => registry[sid[conn]] # NoConn

\* The agent refuses a command with "StreamData RPC already active" only while
\* that RPC is active.
RefusedOnlyWhileActive ==
    [][\A msgs \in {down[c] : c \in {conn} \cap Conns} :
         /\ msgs # <<>> /\ Head(msgs).type = "STREAM_DATA"
         /\ down' = [down EXCEPT ![conn] = Tail(@)]
         /\ stream' = stream
         => stream # "ended"]_vars

=============================================================================
