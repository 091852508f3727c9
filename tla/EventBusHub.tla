---------------------------- MODULE EventBusHub -----------------------------
(***************************************************************************)
(* The live fan-out of the server: EventBus (internal/eventBus), WSHub     *)
(* (internal/hub) and the browsers' WebSockets, for one agent.  The topics *)
(* of different agents share nothing but the bus's lock.                   *)
(*                                                                         *)
(* StreamMetrics handlers publish batches; Publish copies the slice header *)
(* under the lock and walks the slice after releasing it, so the backing   *)
(* array it reads is shared with Subscribe (append) and Unsubscribe        *)
(* (append over itself, which moves elements).  The model therefore keeps  *)
(* the arrays and the slice headers apart, as Go does.                     *)
(*                                                                         *)
(* The case <-h.remove of WSHub.Run is not an action: a pump returns only  *)
(* when its channel is closed, which Run does last, on shutdown            *)
(* (RemoveUnreachable).                                                    *)
(***************************************************************************)
EXTENDS Integers, Sequences, FiniteSets

CONSTANTS
    Clients,      \* the WebSocket connections ever opened
    Pubs,         \* the StreamMetrics handlers that publish for the agent
    MaxBatches,   \* bound: batches published by each handler
    ChanCap       \* the capacity of a subscriber's channel (16 in the code)

ASSUME BusAssumption == MaxBatches \in Nat /\ ChanCap \in Nat \ {0}

VARIABLES
    streaming,   \* some browser has asked the agent to stream
    opener,      \* history: the browser whose request made it stream
    heap,        \* the backing arrays of subs[agent], oldest first
    len,         \* the length of the slice subs[agent], in the newest array
    pub,         \* each handler: its place in Publish
    sent,        \* how many batches each handler has begun to publish
    chan,        \* sub.ch of each client
    closed,      \* it has been closed
    http,        \* HandleWS: none, upgraded, subscribed, registered
    sock,        \* the WebSocket: none, open, closed
    register,    \* h.register
    clients,     \* h.clients
    hub,         \* WSHub.Run: run, shutdown, close, returned
    victim,      \* the client the shutdown loop is dealing with
    shutdown,    \* h.shutdown is closed
    pump,        \* pumpToClient: off, range, write, ended
    holding,     \* the batch a pump has taken from the channel
    remove,      \* h.remove
    due,         \* history: batches whose Publish found the client subscribed
    lagged,      \* history: batches dropped because the channel was full
    got          \* history: batches written to the WebSocket, in order

busVars    == <<heap, len, chan, closed>>
pubVars    == <<pub, sent, due, lagged>>
hubVars    == <<register, clients, hub, victim, shutdown, remove>>
pumpVars   == <<pump, holding, got>>
clientVars == <<http, sock, streaming, opener>>
vars == <<busVars, pubVars, hubVars, pumpVars, clientVars>>

NoClient == "none"
NoBatch == <<>>
Batch(p, n) == <<p, n>>

Idle == [pc |-> "idle", batch |-> NoBatch, arr |-> 1, len |-> 0, i |-> 0]

\* Subscribe has returned for the client.
Subscribed(c) == http[c] \in {"subscribed", "registered"}

-----------------------------------------------------------------------------
(* HandleWS and the browser                                                *)

\* Upgrade answers the browser, which may act on it at once.
Upgrade(c) ==
    /\ http[c] = "none"
    /\ http' = [http EXCEPT ![c] = "upgraded"]
    /\ sock' = [sock EXCEPT ![c] = "open"]
    /\ UNCHANGED <<busVars, pubVars, hubVars, pumpVars, streaming, opener>>

\* Faulty variant: a new subscriber takes the place of the last one.
SubscribeOverwrites(c) ==
    /\ http[c] = "upgraded"
    /\ http' = [http EXCEPT ![c] = "subscribed"]
    /\ heap' = Append(heap, <<c>>)
    /\ len' = 1
    /\ UNCHANGED <<chan, closed, pubVars, hubVars, pumpVars, sock, streaming, opener>>

\* EventBus.Subscribe: append in place while the array has room, else into a
\* new array of twice the size.
Subscribe(c) ==
    LET arr == heap[Len(heap)]
        grown == [i \in 1 .. (IF Len(arr) = 0 THEN 1 ELSE 2 * Len(arr)) |->
                    IF i <= len THEN arr[i] ELSE IF i = len + 1 THEN c ELSE NoClient]
    IN
    /\ http[c] = "upgraded"
    /\ http' = [http EXCEPT ![c] = "subscribed"]
    /\ heap' = IF len < Len(arr)
               THEN [heap EXCEPT ![Len(heap)][len + 1] = c]
               ELSE Append(heap, grown)
    /\ len' = len + 1
    /\ UNCHANGED <<chan, closed, pubVars, hubVars, pumpVars, sock, streaming, opener>>

\* h.register <- client
Register(c) ==
    /\ http[c] = "subscribed"
    /\ http' = [http EXCEPT ![c] = "registered"]
    /\ register' = Append(register, c)
    /\ UNCHANGED <<busVars, pubVars, clients, hub, victim, shutdown, remove, pumpVars,
                   sock, streaming, opener>>

\* ws.onopen: POST /api/agents/{id}/stream makes the agent stream.
StartStream(c) ==
    /\ sock[c] = "open"
    /\ ~streaming
    /\ streaming' = TRUE
    /\ opener' = c
    /\ UNCHANGED <<busVars, pubVars, hubVars, pumpVars, http, sock>>

\* Faulty variant: the channel is closed while its subscriber is in the slice.
BrowserClosesChannel(c) ==
    /\ sock[c] = "open"
    /\ sock' = [sock EXCEPT ![c] = "closed"]
    /\ closed' = [closed EXCEPT ![c] = TRUE]
    /\ UNCHANGED <<heap, len, chan, pubVars, hubVars, pumpVars, http, streaming, opener>>

\* The browser goes away.  Nothing on the server reads from the socket.
BrowserCloses(c) ==
    /\ sock[c] = "open"
    /\ sock' = [sock EXCEPT ![c] = "closed"]
    /\ UNCHANGED <<busVars, pubVars, hubVars, pumpVars, http, streaming, opener>>

-----------------------------------------------------------------------------
(* EventBus.Publish, called by the StreamMetrics handler p                 *)

\* The slice header is copied under the read lock.
PublishStart(p) ==
    /\ pub[p].pc = "idle"
    /\ streaming
    /\ sent[p] < MaxBatches
    /\ sent' = [sent EXCEPT ![p] = @ + 1]
    /\ pub' = [pub EXCEPT ![p] = [pc |-> "loop", batch |-> Batch(p, sent[p] + 1),
                                  arr |-> Len(heap), len |-> len, i |-> 1]]
    /\ due' = [c \in Clients |->
                 IF Subscribed(c) THEN due[c] \cup {Batch(p, sent[p] + 1)} ELSE due[c]]
    /\ UNCHANGED <<busVars, lagged, hubVars, pumpVars, clientVars>>

\* Faulty variant: the channel's capacity is ignored.
PublishStepUnbounded(p) ==
    LET c == heap[pub[p].arr][pub[p].i] IN
    /\ pub[p].pc = "loop"
    /\ pub[p].i <= pub[p].len
    /\ ~closed[c]
    /\ chan' = [chan EXCEPT ![c] = Append(@, pub[p].batch)]
    /\ pub' = [pub EXCEPT ![p].i = @ + 1]
    /\ UNCHANGED <<heap, len, closed, sent, due, lagged, hubVars, pumpVars, clientVars>>

\* Faulty variant: the send waits for room in the channel.
PublishStepBlocks(p) ==
    LET c == heap[pub[p].arr][pub[p].i] IN
    /\ pub[p].pc = "loop"
    /\ pub[p].i <= pub[p].len
    /\ ~closed[c] /\ Len(chan[c]) < ChanCap
    /\ chan' = [chan EXCEPT ![c] = Append(@, pub[p].batch)]
    /\ pub' = [pub EXCEPT ![p].i = @ + 1]
    /\ UNCHANGED <<heap, len, closed, sent, due, lagged, hubVars, pumpVars, clientVars>>

\* One turn of the loop: the element is read from the shared array now.  A full
\* channel drops the batch; a closed one panics, which ends the handler
\* (recoveryInterceptor).
PublishStep(p) ==
    LET c == heap[pub[p].arr][pub[p].i] IN
    /\ pub[p].pc = "loop"
    /\ pub[p].i <= pub[p].len
    /\ \/ /\ closed[c]
          /\ pub' = [pub EXCEPT ![p] = [@ EXCEPT !.pc = "panicked"]]
          /\ UNCHANGED <<chan, lagged>>
       \/ /\ ~closed[c] /\ Len(chan[c]) < ChanCap
          /\ chan' = [chan EXCEPT ![c] = Append(@, pub[p].batch)]
          /\ pub' = [pub EXCEPT ![p].i = @ + 1]
          /\ UNCHANGED lagged
       \/ /\ ~closed[c] /\ Len(chan[c]) = ChanCap
          /\ lagged' = [lagged EXCEPT ![c] = @ \cup {pub[p].batch}]
          /\ pub' = [pub EXCEPT ![p].i = @ + 1]
          /\ UNCHANGED chan
    /\ UNCHANGED <<heap, len, closed, sent, due, hubVars, pumpVars, clientVars>>

\* Faulty variant: a batch is published again from the start of the slice.
PublishReturnAgain(p) ==
    /\ pub[p].pc = "loop"
    /\ pub[p].i > pub[p].len
    /\ \/ pub' = [pub EXCEPT ![p] = Idle]
       \/ pub' = [pub EXCEPT ![p].i = 1]
    /\ UNCHANGED <<busVars, sent, due, lagged, hubVars, pumpVars, clientVars>>

\* The loop is over.
PublishReturn(p) ==
    /\ pub[p].pc = "loop"
    /\ pub[p].i > pub[p].len
    /\ pub' = [pub EXCEPT ![p] = Idle]
    /\ UNCHANGED <<busVars, sent, due, lagged, hubVars, pumpVars, clientVars>>

-----------------------------------------------------------------------------
(* WSHub.Run                                                               *)

HubRegister ==
    /\ hub = "run"
    /\ register # <<>>
    /\ register' = Tail(register)
    /\ clients' = clients \cup {Head(register)}
    /\ pump' = [pump EXCEPT ![Head(register)] = "range"]
    /\ UNCHANGED <<busVars, pubVars, hub, victim, shutdown, remove, holding, got, clientVars>>

\* main: hub.Close(), after the gRPC server was stopped.
Close ==
    /\ ~shutdown
    /\ shutdown' = TRUE
    /\ UNCHANGED <<busVars, pubVars, register, clients, hub, victim, remove, pumpVars, clientVars>>

\* Run sees h.shutdown closed.
HubShutdown ==
    /\ hub = "run"
    /\ shutdown
    /\ hub' = "shutdown"
    /\ UNCHANGED <<busVars, pubVars, register, clients, victim, shutdown, remove, pumpVars, clientVars>>

\* Unsubscribe under the lock: the elements after the client move down one
\* place in the array that publishers may be walking.
HubUnsubscribe(c) ==
    LET n == Len(heap)
        at == {i \in 1 .. len : heap[n][i] = c}
    IN
    /\ hub = "shutdown"
    /\ c \in clients
    /\ hub' = "close"
    /\ victim' = c
    /\ heap' = [heap EXCEPT ![n] =
                  [i \in DOMAIN @ |->
                     IF i < len /\ \E j \in at : j <= i THEN @[i + 1] ELSE @[i]]]
    /\ len' = len - Cardinality(at)
    /\ UNCHANGED <<chan, closed, pubVars, register, clients, shutdown, remove, pumpVars, clientVars>>

\* close(sub.ch) after the unlock, conn.Close, delete.
HubClose ==
    /\ hub = "close"
    /\ closed' = [closed EXCEPT ![victim] = TRUE]
    /\ sock' = [sock EXCEPT ![victim] = "closed"]
    /\ clients' = clients \ {victim}
    /\ hub' = "shutdown"
    /\ victim' = NoClient
    /\ UNCHANGED <<heap, len, chan, pubVars, register, shutdown, remove, pumpVars,
                   http, streaming, opener>>

HubReturn ==
    /\ hub = "shutdown"
    /\ clients = {}
    /\ hub' = "returned"
    /\ UNCHANGED <<busVars, pubVars, register, clients, victim, shutdown, remove, pumpVars, clientVars>>

-----------------------------------------------------------------------------
(* pumpToClient                                                            *)

PumpTake(c) ==
    /\ pump[c] = "range"
    /\ chan[c] # <<>>
    /\ holding' = [holding EXCEPT ![c] = Head(chan[c])]
    /\ chan' = [chan EXCEPT ![c] = Tail(@)]
    /\ pump' = [pump EXCEPT ![c] = "write"]
    /\ UNCHANGED <<heap, len, closed, pubVars, hubVars, got, clientVars>>

\* Faulty variant: a failed write ends the pump.
PumpWriteStops(c) ==
    /\ pump[c] = "write"
    /\ holding' = [holding EXCEPT ![c] = NoBatch]
    /\ \/ /\ sock[c] = "open"
          /\ got' = [got EXCEPT ![c] = Append(@, holding[c])]
          /\ pump' = [pump EXCEPT ![c] = "range"]
          /\ UNCHANGED remove
       \/ /\ sock[c] = "closed"
          /\ pump' = [pump EXCEPT ![c] = "ended"]
          /\ remove' = Append(remove, c)
          /\ UNCHANGED got
    /\ UNCHANGED <<busVars, pubVars, register, clients, hub, victim, shutdown, clientVars>>

\* WriteMessage: its error is ignored.
PumpWrite(c) ==
    /\ pump[c] = "write"
    /\ holding' = [holding EXCEPT ![c] = NoBatch]
    /\ got' = IF sock[c] = "open" THEN [got EXCEPT ![c] = Append(@, holding[c])] ELSE got
    /\ pump' = [pump EXCEPT ![c] = "range"]
    /\ UNCHANGED <<busVars, pubVars, hubVars, clientVars>>

\* The channel is closed and empty: the deferred h.remove <- c.
PumpEnd(c) ==
    /\ pump[c] = "range"
    /\ closed[c] /\ chan[c] = <<>>
    /\ pump' = [pump EXCEPT ![c] = "ended"]
    /\ remove' = Append(remove, c)
    /\ UNCHANGED <<busVars, pubVars, register, clients, hub, victim, shutdown, holding, got, clientVars>>

-----------------------------------------------------------------------------
Init ==
    /\ streaming = FALSE
    /\ opener = NoClient
    /\ heap = << <<>> >>
    /\ len = 0
    /\ pub = [p \in Pubs |-> Idle]
    /\ sent = [p \in Pubs |-> 0]
    /\ chan = [c \in Clients |-> <<>>]
    /\ closed = [c \in Clients |-> FALSE]
    /\ http = [c \in Clients |-> "none"]
    /\ sock = [c \in Clients |-> "none"]
    /\ register = <<>>
    /\ clients = {}
    /\ hub = "run"
    /\ victim = NoClient
    /\ shutdown = FALSE
    /\ pump = [c \in Clients |-> "off"]
    /\ holding = [c \in Clients |-> NoBatch]
    /\ remove = <<>>
    /\ due = [c \in Clients |-> {}]
    /\ lagged = [c \in Clients |-> {}]
    /\ got = [c \in Clients |-> <<>>]

Browser(c) == Upgrade(c) \/ Subscribe(c) \/ Register(c) \/ StartStream(c) \/ BrowserCloses(c)

Publish(p) == PublishStart(p) \/ PublishStep(p) \/ PublishReturn(p)

Run == HubRegister \/ HubShutdown \/ HubClose \/ HubReturn \/ \E c \in Clients : HubUnsubscribe(c)

Pump(c) == PumpTake(c) \/ PumpWrite(c) \/ PumpEnd(c)

Next ==
    \/ \E c \in Clients : Browser(c) \/ Pump(c)
    \/ \E p \in Pubs : Publish(p)
    \/ Run
    \/ Close

Spec == Init /\ [][Next]_vars

\* A StreamMetrics handler that is inside Publish keeps running.  Nothing is
\* assumed of the pumps: WriteMessage has no deadline and may wait for ever on a
\* browser that does not read.
FairSpec == Spec /\ \A p \in Pubs : WF_vars(PublishStep(p) \/ PublishReturn(p))

-----------------------------------------------------------------------------
(* Properties                                                              *)

Batches == Pubs \X (1 .. MaxBatches)
Elements == Clients \cup {NoClient}

\* Every variable has its type.
TypeOK ==
    /\ streaming \in BOOLEAN
    /\ opener \in Elements
    /\ heap \in Seq(Seq(Elements))
    /\ len \in 0 .. Len(heap[Len(heap)])
    /\ pub \in [Pubs -> [pc : {"idle", "loop", "panicked"}, batch : Batches \cup {NoBatch},
                         arr : 1 .. Len(heap), len : Nat, i : Nat]]
    /\ sent \in [Pubs -> 0 .. MaxBatches]
    /\ chan \in [Clients -> Seq(Batches)]
    /\ \A c \in Clients : Len(chan[c]) <= ChanCap
    /\ closed \in [Clients -> BOOLEAN]
    /\ http \in [Clients -> {"none", "upgraded", "subscribed", "registered"}]
    /\ sock \in [Clients -> {"none", "open", "closed"}]
    /\ register \in Seq(Clients)
    /\ clients \in SUBSET Clients
    /\ hub \in {"run", "shutdown", "close", "returned"}
    /\ victim \in Elements
    /\ shutdown \in BOOLEAN
    /\ pump \in [Clients -> {"off", "range", "write", "ended"}]
    /\ holding \in [Clients -> Batches \cup {NoBatch}]
    /\ remove \in Seq(Clients)
    /\ due \in [Clients -> SUBSET Batches]
    /\ lagged \in [Clients -> SUBSET Batches]
    /\ got \in [Clients -> Seq(Batches)]

\* What a client has been given and will be given, in order.
Path(c) == got[c] \o (IF holding[c] = NoBatch THEN <<>> ELSE <<holding[c]>>) \o chan[c]

\* Until the server shuts down, a browser sees each handler's batches in the
\* order they were published and none twice, although Publish walks a slice
\* that others append to.
InOrderOnce ==
    ~shutdown => \A c \in Clients : \A i, j \in DOMAIN Path(c) :
        i < j /\ Path(c)[i][1] = Path(c)[j][1] => Path(c)[i][2] < Path(c)[j][2]

\* Until the server shuts down, a batch published after a browser was subscribed
\* reaches it unless its channel was full or its socket closed.
NoGapOnceSubscribed ==
    ~shutdown => \A c \in Clients : sock[c] # "closed" => \A b \in due[c] :
        \/ b \in lagged[c]
        \/ \E i \in DOMAIN Path(c) : Path(c)[i] = b
        \/ \E p \in Pubs : pub[p].pc = "loop" /\ pub[p].batch = b

\* Publish meets a closed channel only when the server is shutting down.
NoPanicBeforeShutdown == (\E p \in Pubs : pub[p].pc = "panicked") => shutdown

\* While Run can still receive from h.remove nothing is sent to it.  Its case
\* would unsubscribe a channel that is closed already, and close it again.
RemoveUnreachable == hub = "run" => remove = <<>>

\* Publish returns, however slow or dead the browsers are.
PublishReturns == \A p \in Pubs : pub[p].pc = "loop" ~> pub[p].pc # "loop"

\* The dashboard opens /ws before it asks the agent to stream "so no opening
\* batches are missed": the browser that starts the stream is subscribed when
\* the first batch is published.
OpeningBatchSeen ==
    \A p \in Pubs : sent[p] > 0 /\ opener # NoClient => Batch(p, 1) \in due[opener]

=============================================================================
