--------------------------- MODULE DashboardProofs --------------------------
(***************************************************************************)
(* For any servers and agents, and answers in any order: the charts show   *)
(* one agent, the hook holds one connection and the status line tells the  *)
(* truth.                                                                  *)
(***************************************************************************)
EXTENDS Dashboard, FiniteSetTheorems, TLAPS

States == {"opening", "open"}

\* OneConnection without counting: the timer, or one socket to what is streamed.
Connection ==
    IF effect = NoEffect
    THEN sockets = {} /\ ~timer
    ELSE IF timer THEN sockets = {}
                  ELSE \E st \in States : sockets = {[src |-> effect, st |-> st]}

\* Every property rests on Connection: it says which socket an event is for.
Inv == TypeOK /\ ChartsOfOneAgent /\ Connection /\ StatusTruthful

-----------------------------------------------------------------------------
(* What the hook depends on                                                *)

\* The agent null is no agent of a server.
LEMMA NoAgentApart == NoAgent \notin Agents /\ NoEffect \notin Sources
BY AgentAssumption DEF Agents, Sources, NoEffect

\* Between two renders too, what the hook depends on is a source or nothing.
LEMMA DepsType == TypeOK => Deps \in Sources \cup {NoEffect}
BY DEF TypeOK, Deps, Sources

\* setAgents leaves a selection that is in the list, or none.
LEMMA SetAgentsType ==
  ASSUME NEW u \in Servers, NEW list \in SUBSET AgentsOf[u], SetAgents(list, u)
  PROVE  /\ agents' \in SUBSET Agents
         /\ listFrom' \in Servers
         /\ selected' \in agents' \cup {NoAgent}
BY DEF SetAgents, Agents

\* A socket of the hook: its one socket, to what it streams, with no timer.
LEMMA TheSocket ==
  ASSUME Connection, NEW s \in sockets
  PROVE  /\ effect # NoEffect
         /\ ~timer
         /\ sockets = {s}
         /\ s.src = effect
         /\ s.st \in States
         /\ s = [src |-> effect, st |-> s.st]
<1>1. effect # NoEffect /\ ~timer
  BY DEF Connection
<1>2. PICK st \in States : sockets = {[src |-> effect, st |-> st]}
  BY <1>1 DEF Connection
<1>3. s = [src |-> effect, st |-> st]
  BY <1>2
<1> QED BY <1>1, <1>2, <1>3

-----------------------------------------------------------------------------
(* The inductive invariant                                                 *)

LEMMA InvInit == Init => Inv
<1> SUFFICES ASSUME Init PROVE Inv
  OBVIOUS
<1>1. fetches \in [Servers -> 0 .. MaxFetches]
  BY FetchAssumption DEF Init
<1>2. TypeOK
  BY <1>1 DEF Init, TypeOK
<1>3. ChartsOfOneAgent /\ Connection /\ StatusTruthful
  BY DEF Init, ChartsOfOneAgent, Connection, StatusTruthful
<1> QED BY <1>2, <1>3 DEF Inv

\* The stores alone change: the hook is as it was.
LEMMA StoresInv ==
  ASSUME Inv, TypeOK', UNCHANGED hookVars
  PROVE  Inv'
BY DEF Inv, hookVars, ChartsOfOneAgent, Connection, StatusTruthful

LEMMA ConnectInv == ASSUME Inv, NEW u \in Servers, Connect(u) PROVE Inv'
<1>1. TypeOK'
  BY DEF Inv, TypeOK, Connect, agentVars, hookVars, fetchVars
<1> QED BY <1>1, StoresInv DEF Connect

LEMMA ProbeOkInv == Inv /\ ProbeOk => Inv'
<1> SUFFICES ASSUME Inv, ProbeOk PROVE Inv'
  OBVIOUS
<1>1. PICK list \in SUBSET AgentsOf[probe] : SetAgents(list, probe)
  BY DEF ProbeOk
<1>2. probe \in Servers
  BY DEF Inv, TypeOK
<1>3. agents' \in SUBSET Agents /\ listFrom' \in Servers /\ selected' \in agents' \cup {NoAgent}
  BY <1>1, <1>2, SetAgentsType
<1>4. TypeOK'
  BY <1>2, <1>3 DEF Inv, TypeOK, ProbeOk, hookVars
<1> QED BY <1>4, StoresInv DEF ProbeOk

LEMMA ProbeFailInv == Inv /\ ProbeFail => Inv'
<1> SUFFICES ASSUME Inv, ProbeFail PROVE Inv'
  OBVIOUS
<1>1. TypeOK'
  BY DEF Inv, TypeOK, ProbeFail, agentVars, hookVars, fetchVars
<1> QED BY <1>1, StoresInv DEF ProbeFail

LEMMA DisconnectInv == Inv /\ Disconnect => Inv'
<1> SUFFICES ASSUME Inv, Disconnect PROVE Inv'
  OBVIOUS
<1>1. TypeOK'
  BY DEF Inv, TypeOK, Disconnect, agentVars, hookVars, fetchVars
<1> QED BY <1>1, StoresInv DEF Disconnect

LEMMA SelectAgentInv == ASSUME Inv, NEW a \in Agents, SelectAgent(a) PROVE Inv'
<1>1. TypeOK'
  BY DEF Inv, TypeOK, SelectAgent, connVars, hookVars, fetchVars
<1> QED BY <1>1, StoresInv DEF SelectAgent

LEMMA FetchInv == ASSUME Inv, NEW u \in Servers, Fetch(u) PROVE Inv'
<1> USE DEF Inv
<1>1. fetches' \in [Servers -> 0 .. MaxFetches]
  <2>1. fetches[u] > 0 /\ fetches' = [fetches EXCEPT ![u] = @ - 1]
    BY DEF Fetch, FetchOk, FetchFail
  <2>2. fetches[u] - 1 \in 0 .. MaxFetches
    BY <2>1, FetchAssumption DEF TypeOK
  <2> QED BY <2>1, <2>2 DEF TypeOK
<1>2. CASE FetchOk(u)
  <2>1. PICK list \in SUBSET AgentsOf[u] : SetAgents(list, u)
    BY <1>2 DEF FetchOk
  <2>2. agents' \in SUBSET Agents /\ listFrom' \in Servers /\ selected' \in agents' \cup {NoAgent}
    BY <2>1, SetAgentsType
  <2>3. TypeOK'
    BY <1>1, <1>2, <2>2 DEF TypeOK, FetchOk, connVars, hookVars
  <2> QED BY <1>2, <2>3, StoresInv DEF FetchOk
<1>3. CASE FetchFail(u)
  <2>1. TypeOK'
    BY <1>1, <1>3 DEF TypeOK, FetchFail, connVars, agentVars, hookVars
  <2> QED BY <1>3, <2>1, StoresInv DEF FetchFail
<1> QED BY <1>2, <1>3 DEF Fetch

LEMMA ReloadInv == Inv /\ Reload => Inv'
<1> SUFFICES ASSUME Inv, Reload PROVE Inv'
  OBVIOUS
<1>1. fetches' \in [Servers -> 0 .. MaxFetches]
  BY FetchAssumption DEF Reload
<1>2. TypeOK'
  BY <1>1 DEF Inv, TypeOK, Reload
<1>3. ChartsOfOneAgent' /\ Connection' /\ StatusTruthful'
  BY DEF Reload, ChartsOfOneAgent, Connection, StatusTruthful
<1> QED BY <1>2, <1>3 DEF Inv

LEMMA RenderInv == Inv /\ Render => Inv'
<1> SUFFICES ASSUME Inv, Render PROVE Inv'
  OBVIOUS
<1>1. Deps \in Sources \cup {NoEffect}
  BY DepsType DEF Inv
<1>2. TypeOK'
  <2>1. sockets' \in SUBSET [src : Sources, st : {"opening", "open"}]
    BY <1>1 DEF Render
  <2>2. shown' \in SUBSET Sources
    BY DEF Render, Inv, TypeOK
  <2>3. streamStatus' \in {"idle", "connecting", "open", "reconnecting"}
    BY DEF Render
  <2>4. effect' = Deps /\ timer' = FALSE /\ again' = FALSE
    BY DEF Render
  <2>5. UNCHANGED <<status, baseUrl, probe, agents, listFrom, selected, fetches, refreshFailed>>
    BY DEF Render, connVars, agentVars, fetchVars
  <2> QED BY <1>1, <2>1, <2>2, <2>3, <2>4, <2>5 DEF Inv, TypeOK
<1>3. ChartsOfOneAgent'
  BY DEF Render, ChartsOfOneAgent
<1>4. Connection'
  BY DEF Render, Connection, States
<1>5. StatusTruthful'
  BY DEF Render, StatusTruthful
<1> QED BY <1>2, <1>3, <1>4, <1>5 DEF Inv

LEMMA WsOpenInv == Inv /\ WsOpen => Inv'
<1> SUFFICES ASSUME Inv, WsOpen PROVE Inv'
  OBVIOUS
<1>1. PICK s \in sockets :
        /\ s.st = "opening"
        /\ sockets' = (sockets \ {s}) \cup {[s EXCEPT !.st = "open"]}
        /\ fetches' = [fetches EXCEPT ![s.src.url] = @ + 1]
  BY DEF WsOpen
<1>2. /\ effect # NoEffect /\ ~timer /\ sockets = {s}
      /\ s.src = effect /\ s = [src |-> effect, st |-> s.st]
  BY TheSocket DEF Inv
<1>3. sockets' = {[src |-> effect, st |-> "open"]}
  BY <1>1, <1>2
<1>4. effect \in Sources /\ effect.url \in Servers
  BY <1>2 DEF Inv, TypeOK, Sources
<1>5. fetches' \in [Servers -> 0 .. MaxFetches]
  <2>1. fetches[effect.url] + 1 \in 0 .. MaxFetches
    BY <1>4, FetchAssumption DEF Inv, TypeOK, WsOpen
  <2> QED BY <1>1, <1>2, <1>4, <2>1 DEF Inv, TypeOK
<1>6. TypeOK'
  BY <1>3, <1>4, <1>5 DEF Inv, TypeOK, WsOpen, connVars, agentVars
<1>7. ChartsOfOneAgent' /\ Connection' /\ StatusTruthful'
  BY <1>2, <1>3 DEF Inv, WsOpen, ChartsOfOneAgent, Connection, States, StatusTruthful
<1> QED BY <1>6, <1>7 DEF Inv

LEMMA WsMessageInv == Inv /\ WsMessage => Inv'
<1> SUFFICES ASSUME Inv, WsMessage PROVE Inv'
  OBVIOUS
<1>1. PICK s \in sockets : s.st = "open" /\ shown' = shown \cup {s.src}
  BY DEF WsMessage
<1>2. effect # NoEffect /\ s.src = effect
  BY TheSocket DEF Inv
<1>3. effect \in Sources
  BY <1>2 DEF Inv, TypeOK
<1>4. TypeOK'
  BY <1>1, <1>2, <1>3 DEF Inv, TypeOK, WsMessage, connVars, agentVars, fetchVars
<1>5. ChartsOfOneAgent' /\ Connection' /\ StatusTruthful'
  BY <1>1, <1>2 DEF Inv, WsMessage, ChartsOfOneAgent, Connection, StatusTruthful
<1> QED BY <1>4, <1>5 DEF Inv

LEMMA WsCloseInv == Inv /\ WsClose => Inv'
<1> SUFFICES ASSUME Inv, WsClose PROVE Inv'
  OBVIOUS
<1>1. PICK s \in sockets : sockets' = sockets \ {s}
  BY DEF WsClose
<1>2. effect # NoEffect /\ sockets' = {}
  BY <1>1, TheSocket DEF Inv
<1>3. TypeOK'
  BY <1>2 DEF Inv, TypeOK, WsClose, connVars, agentVars, fetchVars
<1>4. ChartsOfOneAgent' /\ Connection' /\ StatusTruthful'
  BY <1>2 DEF Inv, WsClose, ChartsOfOneAgent, Connection, StatusTruthful
<1> QED BY <1>3, <1>4 DEF Inv

LEMMA TimerFiresInv == Inv /\ TimerFires => Inv'
<1> SUFFICES ASSUME Inv, TimerFires PROVE Inv'
  OBVIOUS
<1>1. effect # NoEffect /\ sockets = {}
  BY DEF Inv, Connection, TimerFires
<1>2. sockets' = {[src |-> effect, st |-> "opening"]} /\ effect \in Sources
  BY <1>1 DEF TimerFires, Inv, TypeOK
<1>3. /\ timer' = FALSE
      /\ streamStatus' \in {"connecting", "reconnecting"}
      /\ UNCHANGED <<connVars, agentVars, effect, again, shown, fetchVars>>
  BY DEF TimerFires
<1>4. TypeOK'
  <2>1. sockets' \in SUBSET [src : Sources, st : {"opening", "open"}]
    BY <1>2
  <2>2. streamStatus' \in {"idle", "connecting", "open", "reconnecting"}
    BY <1>3
  <2> QED BY <1>3, <2>1, <2>2 DEF Inv, TypeOK, connVars, agentVars, fetchVars
<1>5. ChartsOfOneAgent' /\ Connection'
  BY <1>1, <1>2, <1>3 DEF Inv, ChartsOfOneAgent, Connection, States
<1>6. StatusTruthful'
  BY <1>1, <1>2, <1>3 DEF StatusTruthful
<1> QED BY <1>4, <1>5, <1>6 DEF Inv

\* Every step keeps the invariant: each action by its lemma.
LEMMA InvStep == Inv /\ [Next]_vars => Inv'
<1> SUFFICES ASSUME Inv, [Next]_vars PROVE Inv'
  OBVIOUS
<1>1. CASE UNCHANGED vars
  <2>1. TypeOK'
    BY <1>1 DEF Inv, TypeOK, vars, connVars, agentVars, hookVars, fetchVars
  <2> QED BY <1>1, <2>1, StoresInv DEF vars
<1> QED
  BY <1>1, ConnectInv, FetchInv, ProbeOkInv, ProbeFailInv, DisconnectInv, ReloadInv,
     SelectAgentInv, RenderInv, WsOpenInv, WsMessageInv, WsCloseInv, TimerFiresInv DEF Next

\* The invariant of the hook and of the stores.
THEOREM DashboardInvariant == Spec => []Inv
BY InvInit, InvStep, PTL DEF Spec

\* Every variable keeps its type: a selection is always in the list, whichever
\* answer brought the list.
THEOREM DashboardTypeCorrect == Spec => []TypeOK
<1>1. Inv => TypeOK
  BY DEF Inv
<1> QED BY <1>1, DashboardInvariant, PTL

\* Whatever is selected, reconnected or answered late, the charts never mix two
\* agents or two servers.
THEOREM ChartsAlwaysOfOneAgent == Spec => []ChartsOfOneAgent
<1>1. Inv => ChartsOfOneAgent
  BY DEF Inv
<1> QED BY <1>1, DashboardInvariant, PTL

\* connect, scheduleReconnect and the cleanup leave the hook one way forward.
THEOREM AlwaysOneConnection == Spec => []OneConnection
<1>1. Inv => OneConnection
  <2> SUFFICES ASSUME Connection PROVE OneConnection
    BY DEF Inv
  <2>1. CASE effect = NoEffect
    BY <2>1 DEF Connection, OneConnection
  <2>2. CASE effect # NoEffect /\ timer
    BY <2>2, FS_EmptySet DEF Connection, OneConnection
  <2>3. CASE effect # NoEffect /\ ~timer
    <3>1. PICK st \in States : sockets = {[src |-> effect, st |-> st]}
      BY <2>3 DEF Connection
    <3>2. Cardinality(sockets) = 1
      BY <3>1, FS_Singleton
    <3> QED BY <2>3, <3>1, <3>2 DEF OneConnection
  <2> QED BY <2>1, <2>2, <2>3
<1> QED BY <1>1, DashboardInvariant, PTL

\* streamStatus follows the socket through every event.
THEOREM StatusAlwaysTruthful == Spec => []StatusTruthful
<1>1. Inv => StatusTruthful
  BY DEF Inv
<1> QED BY <1>1, DashboardInvariant, PTL

=============================================================================
