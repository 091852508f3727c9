------------------------------ MODULE Dashboard -----------------------------
(***************************************************************************)
(* The dashboard in one browser: the connection, agent and metrics stores  *)
(* and the hook useMetricStream that keeps a WebSocket to the selected     *)
(* agent.  Requests and sockets answer in any order, or not at all, while  *)
(* the user connects, disconnects, selects agents and reloads the page.    *)
(*                                                                         *)
(* React (external) renders a change of a store before the browser handles *)
(* the next event, and runs the hook's cleanup and effect then: no other   *)
(* action is enabled while that is due.  The points of a chart are the     *)
(* source they came from; POST /stream, which the hook sends and forgets,  *)
(* is part of EventBusHub.                                                 *)
(***************************************************************************)
EXTENDS Integers, FiniteSets

CONSTANTS
    Servers,       \* the server URLs
    AgentsOf,      \* AgentsOf[u]: the agents that may be connected to server u
    NoAgent,       \* selectedAgentId is null
    MaxFetches     \* bound: the GET /api/agents of the hook in flight

ASSUME FetchAssumption == MaxFetches \in Nat

\* Two servers may list the same agent: it keeps its id wherever it connects.
ASSUME AgentAssumption == \A u \in Servers : NoAgent \notin AgentsOf[u]

VARIABLES
    status,        \* connection store: idle, connecting, connected, error
    baseUrl,       \* connection store
    probe,         \* the URL connect() is waiting for
    agents,        \* agent store
    listFrom,      \* history: the server that sent this list
    selected,      \* selectedAgentId
    effect,        \* what the running effect streams, or NoEffect
    sockets,       \* the sockets whose handlers are set
    timer,         \* reconnectTimer is running
    again,         \* attempt > 0
    streamStatus,  \* metrics store
    shown,         \* metrics store: the sources of the points in the series
    fetches,       \* how many of the hook's fetchAgents(u) are in flight
    refreshFailed  \* history: the last one for this server failed

connVars   == <<status, baseUrl, probe>>
agentVars  == <<agents, listFrom, selected>>
hookVars   == <<effect, sockets, timer, again, streamStatus, shown>>
fetchVars  == <<fetches, refreshFailed>>
vars == <<connVars, agentVars, hookVars, fetchVars>>

Agents  == UNION {AgentsOf[u] : u \in Servers}
Sources == [url : Servers, agent : Agents]
NoEffect == [url |-> NoAgent, agent |-> NoAgent]

\* The dependencies of the effect.  Without a connection the layout, and the hook
\* with it, is not mounted.
Deps == IF status = "connected" /\ selected # NoAgent
        THEN [url |-> baseUrl, agent |-> selected] ELSE NoEffect

Rendered == Deps = effect

-----------------------------------------------------------------------------
(* The stores                                                              *)

\* Faulty variant: a selection that is not in the list is kept.
SetAgentsKeeps(list, from) ==
    /\ agents' = list
    /\ listFrom' = from
    /\ IF selected # NoAgent \/ list = {} THEN UNCHANGED selected ELSE selected' \in list

\* setAgents keeps the selection if it can, else takes the first agent.
SetAgents(list, from) ==
    /\ agents' = list
    /\ listFrom' = from
    /\ \/ selected \in list /\ UNCHANGED selected
       \/ selected \notin list /\ selected' \in list
       \/ list = {} /\ selected' = NoAgent

\* connect(url); its buttons are disabled while a probe is under way.
Connect(u) ==
    /\ Rendered
    /\ status \in {"idle", "error"}
    /\ status' = "connecting"
    /\ probe' = u
    /\ UNCHANGED <<baseUrl, agentVars, hookVars, fetchVars>>

ProbeOk ==
    /\ Rendered
    /\ status = "connecting"
    /\ \E list \in SUBSET AgentsOf[probe] : SetAgents(list, probe)
    /\ baseUrl' = probe
    /\ status' = "connected"
    /\ refreshFailed' = FALSE
    /\ UNCHANGED <<probe, hookVars, fetches>>

ProbeFail ==
    /\ Rendered
    /\ status = "connecting"
    /\ status' = "error"
    /\ UNCHANGED <<baseUrl, probe, agentVars, hookVars, fetchVars>>

Disconnect ==
    /\ Rendered
    /\ status = "connected"
    /\ status' = "idle"
    /\ UNCHANGED <<baseUrl, probe, agentVars, hookVars, fetchVars>>

SelectAgent(a) ==
    /\ Rendered
    /\ status = "connected"
    /\ a \in agents
    /\ selected' = a
    /\ UNCHANGED <<connVars, agents, listFrom, hookVars, fetchVars>>

\* The page is loaded again: only baseUrl (and the recent URLs) are persisted.
Reload ==
    /\ status' = "idle"
    /\ agents' = {}
    /\ selected' = NoAgent
    /\ effect' = NoEffect
    /\ sockets' = {}
    /\ timer' = FALSE
    /\ again' = FALSE
    /\ streamStatus' = "idle"
    /\ shown' = {}
    /\ fetches' = [u \in Servers |-> 0]
    /\ refreshFailed' = FALSE
    /\ UNCHANGED <<baseUrl, probe, listFrom>>

-----------------------------------------------------------------------------
(* useMetricStream                                                         *)

\* Faulty variant: the points of the previous agent are kept.
RenderNoReset ==
    /\ ~Rendered
    /\ effect' = Deps
    /\ timer' = FALSE
    /\ again' = FALSE
    /\ sockets' = IF Deps = NoEffect THEN {} ELSE {[src |-> Deps, st |-> "opening"]}
    /\ streamStatus' = IF Deps = NoEffect THEN "idle" ELSE "connecting"
    /\ UNCHANGED <<connVars, agentVars, shown, fetchVars>>

\* Faulty variant: the cleanup leaves the status when the hook is unmounted.
RenderKeepsStatus ==
    /\ ~Rendered
    /\ effect' = Deps
    /\ timer' = FALSE
    /\ again' = FALSE
    /\ sockets' = IF Deps = NoEffect THEN {} ELSE {[src |-> Deps, st |-> "opening"]}
    /\ shown' = IF Deps = NoEffect THEN shown ELSE {}
    /\ streamStatus' = CASE status # "connected" -> streamStatus
                         [] Deps = NoEffect -> "idle"
                         [] OTHER -> "connecting"
    /\ UNCHANGED <<connVars, agentVars, fetchVars>>

\* The cleanup of the running effect (timer, socket and its handlers, status),
\* then the new one: reset and connect, or idle.
Render ==
    /\ ~Rendered
    /\ effect' = Deps
    /\ timer' = FALSE
    /\ again' = FALSE
    /\ \/ /\ Deps = NoEffect
          /\ sockets' = {}
          /\ streamStatus' = "idle"
          /\ UNCHANGED shown
       \/ /\ Deps # NoEffect
          /\ sockets' = {[src |-> Deps, st |-> "opening"]}
          /\ streamStatus' = "connecting"
          /\ shown' = {}
    /\ UNCHANGED <<connVars, agentVars, fetchVars>>

\* Faulty variant: only a reconnect refreshes the list, as connect() has just
\* loaded it.
WsOpenLazy ==
    /\ Rendered
    /\ \A u \in Servers : fetches[u] < MaxFetches
    /\ \E s \in sockets :
         /\ s.st = "opening"
         /\ sockets' = (sockets \ {s}) \cup {[s EXCEPT !.st = "open"]}
         /\ fetches' = IF again THEN [fetches EXCEPT ![s.src.url] = @ + 1] ELSE fetches
    /\ again' = FALSE
    /\ streamStatus' = "open"
    /\ refreshFailed' = FALSE
    /\ UNCHANGED <<connVars, agentVars, effect, timer, shown>>

\* onopen: the list of agents is refreshed.
WsOpen ==
    /\ Rendered
    /\ \A u \in Servers : fetches[u] < MaxFetches
    /\ \E s \in sockets :
         /\ s.st = "opening"
         /\ sockets' = (sockets \ {s}) \cup {[s EXCEPT !.st = "open"]}
         /\ fetches' = [fetches EXCEPT ![s.src.url] = @ + 1]
    /\ again' = FALSE
    /\ streamStatus' = "open"
    /\ refreshFailed' = FALSE
    /\ UNCHANGED <<connVars, agentVars, effect, timer, shown>>

\* onmessage: ingest.
WsMessage ==
    /\ Rendered
    /\ \E s \in sockets : s.st = "open" /\ shown' = shown \cup {s.src}
    /\ UNCHANGED <<connVars, agentVars, effect, sockets, timer, again, streamStatus, fetchVars>>

\* Faulty variant: only a socket that was open is replaced.
WsCloseOpenOnly ==
    /\ Rendered
    /\ \E s \in sockets :
         /\ sockets' = sockets \ {s}
         /\ timer' = (s.st = "open")
    /\ streamStatus' = "reconnecting"
    /\ again' = TRUE
    /\ UNCHANGED <<connVars, agentVars, effect, shown, fetchVars>>

\* onerror and onclose: scheduleReconnect.
WsClose ==
    /\ Rendered
    /\ \E s \in sockets : sockets' = sockets \ {s}
    /\ timer' = TRUE
    /\ streamStatus' = "reconnecting"
    /\ again' = TRUE
    /\ UNCHANGED <<connVars, agentVars, effect, shown, fetchVars>>

\* The timer calls connect.
TimerFires ==
    /\ Rendered
    /\ timer
    /\ timer' = FALSE
    /\ sockets' = sockets \cup {[src |-> effect, st |-> "opening"]}
    /\ streamStatus' = IF again THEN "reconnecting" ELSE "connecting"
    /\ UNCHANGED <<connVars, agentVars, effect, again, shown, fetchVars>>

\* fetchAgents(u) of an onopen resolves: nothing asks whether u is still the
\* server, or whether the effect still runs.
FetchOk(u) ==
    /\ Rendered
    /\ fetches[u] > 0
    /\ fetches' = [fetches EXCEPT ![u] = @ - 1]
    /\ \E list \in SUBSET AgentsOf[u] : SetAgents(list, u)
    /\ UNCHANGED <<connVars, hookVars, refreshFailed>>

\* It is rejected, which is ignored.
FetchFail(u) ==
    /\ Rendered
    /\ fetches[u] > 0
    /\ fetches' = [fetches EXCEPT ![u] = @ - 1]
    /\ refreshFailed' = (refreshFailed \/ u = baseUrl)
    /\ UNCHANGED <<connVars, agentVars, hookVars>>

-----------------------------------------------------------------------------
Init ==
    /\ status = "idle"
    /\ baseUrl \in Servers
    /\ probe = baseUrl
    /\ agents = {}
    /\ listFrom = baseUrl
    /\ selected = NoAgent
    /\ effect = NoEffect
    /\ sockets = {}
    /\ timer = FALSE
    /\ again = FALSE
    /\ streamStatus = "idle"
    /\ shown = {}
    /\ fetches = [u \in Servers |-> 0]
    /\ refreshFailed = FALSE

Fetch(u) == FetchOk(u) \/ FetchFail(u)

Next ==
    \/ \E u \in Servers : Connect(u) \/ Fetch(u)
    \/ ProbeOk \/ ProbeFail \/ Disconnect \/ Reload
    \/ \E a \in Agents : SelectAgent(a)
    \/ Render \/ WsOpen \/ WsMessage \/ WsClose \/ TimerFires

Spec == Init /\ [][Next]_vars

\* React renders, timers fire and requests end; a server that is asked for a
\* socket again and again opens one in the end.
FairSpec ==
    /\ Spec
    /\ WF_vars(Render)
    /\ SF_vars(TimerFires)
    /\ SF_vars(WsOpen)
    /\ \A u \in Servers : SF_vars(Fetch(u))

-----------------------------------------------------------------------------
(* Properties                                                              *)

\* Every variable has its type.
TypeOK ==
    /\ status \in {"idle", "connecting", "connected", "error"}
    /\ baseUrl \in Servers
    /\ probe \in Servers
    /\ agents \in SUBSET Agents
    /\ listFrom \in Servers
    /\ selected \in agents \cup {NoAgent}
    /\ effect \in Sources \cup {NoEffect}
    /\ sockets \in SUBSET [src : Sources, st : {"opening", "open"}]
    /\ timer \in BOOLEAN
    /\ again \in BOOLEAN
    /\ streamStatus \in {"idle", "connecting", "open", "reconnecting"}
    /\ shown \in SUBSET Sources
    /\ fetches \in [Servers -> 0 .. MaxFetches]
    /\ refreshFailed \in BOOLEAN

\* While the hook streams, the charts hold points of the agent and the server it
\* streams from and of no other, however often either was changed and whatever
\* still arrived in between.
ChartsOfOneAgent == effect # NoEffect => shown \subseteq {effect}

\* The hook always has one way forward and never two: while it streams either one
\* socket to the right place or the timer exists, and otherwise neither does.
OneConnection ==
    IF effect = NoEffect
    THEN sockets = {} /\ ~timer
    ELSE /\ Cardinality(sockets) = IF timer THEN 0 ELSE 1
         /\ \A s \in sockets : s.src = effect

\* The status line tells the truth: "Streaming" exactly while a socket is open,
\* "Idle" exactly while the hook does nothing.
StatusTruthful ==
    /\ streamStatus = "open" <=> \E s \in sockets : s.st = "open"
    /\ streamStatus = "idle" <=> effect = NoEffect

\* The hook has its socket and waits for no list: nothing will ask for one.
Settled == Rendered /\ fetches[baseUrl] = 0 /\ \E s \in sockets : s.st = "open"

\* An answer of a server the user has left may still replace the list of agents.
\* When that changes the selection the hook opens another socket, and the refresh
\* on open brings the right list back, unless that request fails; so does a
\* refresh or a reconnect that is under way.  Nothing does when the other server
\* lists the selected agent as well and the hook is settled, or when the list is
\* empty and leaves the hook idle.
ListHeals ==
    status = "connected" /\ listFrom # baseUrl /\ selected # NoAgent /\ ~Settled
    ~> listFrom = baseUrl \/ status # "connected" \/ selected = NoAgent \/ refreshFailed

=============================================================================
