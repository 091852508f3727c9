# A TLA+ verification of Volta

Volta collects hardware metrics on machines (the *agent*, C++), ships them to a
*server* (Go) over gRPC, and shows them live in a *dashboard* (TypeScript) over
a WebSocket.  This directory models the parts of it that are hard to test — the
threads, callbacks, goroutines, queues and connections between a sensor reading
and a browser, and the failures of the hardware underneath — checks them with
TLC, and proves every safety property with TLAPS for all values of the
parameters: the data path for every set of series and every buffer size, down to
its refinement of an abstract stream; the control plane for any number of
connections; the bus for any number of publishers and browsers; the command
queue for any number of threads; the agent's rounds for every configuration file
and hardware; the dashboard for any servers and agents.

Paths below are relative to the repository root; `agent/` stands for
`sources/agent/src/`, `server/` for `sources/server/`, `dashboard/` for
`sources/dashboard/src/`.

## The system

```
 agent process                                server process              browser
 -------------                                --------------              -------
 Collectors (RAPL, /proc, NVML)
    | Collect                                                             useMetricStream
    v                                                                     and the stores
 Scheduler --AddMetrics--> MetricsBuffer                                       ^
    |                          ^ | snapshots
    | Dump                 acks| v
    v                 StreamMetricsReactor --MetricBatch--> StreamMetrics --> EventBus
 Exporter                      (gRPC)      <--BatchAck---   handler            |
    ^                                                                     WSHub pump
    | handler         ConnectReactor ---------------------- Connect,           |
 MessageQueue         (MESSAGE_ID, STREAM_DATA)             AgentSession       v
    ^                                                       AgentRegistry   WebSocket
 volta export ...                                           CommandRouter <-- POST /stream
```

| Component | State | Operations | What makes it correct |
|---|---|---|---|
| `SeriesBuffer`, `MetricsBuffer` (`agent/buffer.*`) | ring, `head_`, `tail_` per series | `Push`, `Latest`, `GetSnapshot`, `AckSnapshot`, `AddMetrics` | a ring never exposes an overwritten slot; a settled sample was published or knowingly dropped |
| `StreamMetricsReactor` (`agent/client/stream_metrics_reactor.*`) | write queue, `writing_`, `pending_snapshots_`, batch ids | poll thread, `Write`, `OnReadDone`, `OnWriteDone`, `OnDone` | no lost wakeup, bounded queue, every acknowledgement known, every sample settled |
| `Client`, `ConnectReactor` (`agent/client/`) | UUID file, `id_`, control queue, `stream_data_reactor_` | `Connect`, `OnMessage`, `SaveUUID`, `StreamData` | the agent acts under the id it is registered with |
| `GRPCServer`, `AgentSession`, `AgentRegistry`, `CommandRouter` (`server/internal/`) | registry, session goroutines, `sendCh` | handshake, `Add`, `Remove`, `send`, `recv`, `Send`, `StreamData` | the registry names live sessions, `Send` never hangs, a 202 has its effect |
| `EventBus`, `WSHub` (`server/internal/`) | subscriber slices, channels, clients, pumps | `Publish`, `Subscribe`, `Unsubscribe`, `HandleWS`, `Run`, `Close` | order, no duplicate, gaps only by a full channel, no panic, `Publish` returns |
| `MessageQueue`, `Exporter`, `Scheduler` (`agent/`) | POSIX queue, notification, export flag and file | `send`, `listen`, `drain_and_rearm`, `StartDump`, `EndDump`, `Dump` | commands are handled one at a time, none is lost, flag and file agree, the rows of a collection stay together |
| `ConfigLoader` (`agent/config/`) | the configuration, the process's CPU mask | one loader per key, in a fixed order | a bad entry leaves the old value whole; a window from the file holds a sample |
| `CollectorRegistry` and the collectors (`agent/collectors/`, `agent/platform/nvml_loader.cc`) | last readings, NVML's reference count | `Resolve`, `Init`, `Collect`, destructors | NVML is initialised exactly while it is needed; a round is complete; differences of counters are right |
| `useMetricStream` and the stores (`dashboard/`) | connection, agent list, selection, socket, timer, points | `connect`, `disconnect`, `setAgents`, `selectAgent`, the hook's effect and its callbacks | the charts show the selected agent, one socket or one timer, a true status |
| Server configuration, loggers, views, generated code | | | not modelled: see below |

What is hard here: four threads share the reactor under two locks that are
released between steps; connections break at any point and the server may not
notice for a long time; handlers of two connections of the same agent overlap;
`Publish` walks a slice that others mutate; a one-shot notification races the
messages it announces; a driver call fails between two others that belong
together; a socket, a timer or an answer of yesterday's agent arrives today.
`PROJECT.json` lists these hazards line by line with
the properties that cover each.

## Modules

| Module | Models |
|---|---|
| `SeriesBuffer` | the ring of one series as operators on a record; every method of the class holds the object's mutex throughout, so an operator is one atomic step |
| `StreamMetrics` | the data path: scheduler, poll thread, gRPC callbacks, one RPC, the server's handler |
| `SampleStream` | the abstract specification of the data path: per series, the bus sees runs of consecutive samples, in order, none twice or invented |
| `ControlPlane` | identity, handshake, registry, sessions and the stream command, for one machine whose agent is started several times |
| `EventBusHub` | publishers, subscriber slices, channels, the hub, its pumps and the browsers of one agent |
| `CommandQueue` | the local command queue, its notification threads, the exporter and the scheduler thread that writes to it |
| `AgentConfig` | the agent's configuration as operators on a parsed file |
| `Collectors` | the agent's main thread: configuration, `Resolve`, `Init`, rounds of `Collect`, exit; EXTENDS `AgentConfig` |
| `Dashboard` | the stores and the streaming hook of one browser |
| `MC*` | model values, symmetry sets and bounds for TLC |
| `SeriesBufferProofs`, `StreamMetricsProofs`, `StreamDeliveryProofs` | lemmas and theorems about the rings, about the pipeline of batches, and about what is in the batches |
| `ControlPlaneProofs`, `EventBusHubProofs`, `CommandQueueProofs`, `CollectorsProofs`, `DashboardProofs` | lemmas and theorems about the module of that name |

The components meet where the code's do: the batches `StreamMetrics` publishes
are the ones `EventBusHub` distributes, the command `ControlPlane` delivers
starts the RPC `StreamMetrics` is about, `CapacityPerSeries` of `AgentConfig` is
the `Cap` the theorems quantify over, and the socket `Dashboard` opens is a
browser of `EventBusHub`.  `StreamMetrics` composes the rings, the agent's
reactor and the server's handler; `Collectors` composes configuration, registry,
collectors and scheduler.

How state and actions correspond to code:

- **`StreamMetrics`.** `series` is `series_`; a sample is its number in its
  series, because no decision depends on value or time.  An action is a critical
  section: `PollCheck` and `PollRecheck` are the two looks at
  `pending_snapshots_`, `PollSnapshot`/`PollRegister`/`PollPush` are
  `EnqueueMetrics(key)` split where it takes and releases locks, `OnWriteDone`
  and `OnWriteDoneWrite` are the two halves of that callback, which takes
  `write_mu_` twice.  `received` and `dropped` are history variables.  The agent
  opens one `StreamMetrics` RPC in its life, so there is one, which may break at
  any moment.  `StartWrite` on a finished RPC is undefined in gRPC; the model
  lets the operation never complete.
- **`ControlPlane`.** Each start of the process opens connection `conn`.  The
  agent may stop (the RPC is cancelled) or crash (the server is not told).  A
  connection's handler goes through handshake, `Add`, `Run`, `Remove`; the session
  is listed from `Add` on, its two loops start with `Run` and end separately.
  `SaveUUID` does not check its write: on a full disk it leaves an empty file and
  keeps the id in memory.  A rename that throws ends the process, which is
  `AgentCrash`.  Handing a message to `sendCh` and sending it on the
  stream are separate steps.  Requests are numbered in the order of their
  look-ups.
- **`EventBusHub`.** Backing arrays (`heap`) and the slice header (`len`) are
  kept apart, as in Go: `Publish` remembers the header and reads the elements
  later, `append` writes in place while there is room, and removal moves the
  elements down.
- **`CommandQueue`.** `armed` is the kernel's one-shot registration.  Reading
  the empty `std::optional` in the command handler is undefined: the process
  dies or goes on.  `Dump` looks at the flag, `DumpRow` writes to the file of
  that moment; where the handler touches the file at the same time the process
  may also die (`Race`), since nothing is locked.
- **`AgentConfig`.** One operator per loader, and `LoadConfigFile` composes them
  in the order of the calls.  Values are abstracted to what the loaders compare;
  `time_window` counts half milliseconds so that the truncation can be seen, and
  its conversion to `uint32_t` is taken modulo `UintMod`.
  The list of all metric types is cut to those a collector satisfies and one
  that none does.
- **`Collectors`.** The three loops of the start (`Resolve`, `Init`, a round) are
  `phase` with `todo`, the collectors still to visit; the model visits them in
  any order, the code in that of static initialisation, which C++ leaves open.
  `NvmlCollector` is modelled call by call, `call` being the library call it
  makes next; `refs` is the library's count of initialisations, as `nvml.h`
  documents it.  `hw` is what the hardware counted; `got` holds the
  vectors `Collect` has returned in the round, as one sequence; `reported` and
  `failed` are history.  Ratios are pairs of numerator and denominator; a metric
  NVML reads has no value of interest.
- **`Dashboard`.** `effect` is what the running effect of the hook streams, and
  `Deps` what the stores ask for; while they differ only `Render` (cleanup and
  new effect) may happen, because React flushes the effect of a store change
  before the next socket event or timer is handled (an assumption about React).
  `sockets` holds the sockets whose handlers are still set: the cleanup sets
  them to null, so that nothing of them can be heard.  `fetches` counts requests
  that nothing cancels.

Definitions named with a suffix and introduced as "Faulty variant" are plausible
bugs; replacing the original by its variant makes TLC report the property the
variant is listed with in `PROJECT.json`.

## What the runs check

| Run | Instance | Shows |
|---|---|---|
| `stream_safety` | 2 series, rings of 2, 4 and 2 samples | `RingsIntact`, `AckKnown`, `NothingLostSilently`, `NoLostWrite`, `BoundedQueue`, that `IndInv` of the proofs holds, and `StreamSpec`: the data path implements `SampleStream` |
| `stream_live` | 2 series, rings of 1, 2 samples each, fair | `EverySampleSettled`: published or dropped, while the RPC lives |
| `control` | 2 starts of the agent, 2 requests, UUID file absent or present at first, saved or left empty by `SaveUUID`, fair | `RegistryLive`, `HiddenOnlyByTwin`, `StreamUnderOwnId`, `SendReturns`, `AcceptedStarts` |
| `bus` | 2 browsers, 1 publisher, 3 batches, channels of 1, fair publishers | `InOrderOnce`, `NoGapOnceSubscribed`, `NoPanicBeforeShutdown`, `RemoveUnreachable`, and `PublishReturns`, with no assumption about browsers |
| `queue` | 2 possible threads, queue of 2, 5 commands, fair threads | `HandlerAlone`, `ExportConsistent`, `RowsStayTogether`, `DrainEmpties` |
| `agent` | 3787 configuration files, 2 GPUs, energy register of 2 bits, 3 rounds | `WindowHoldsASample`, `AffinityAllOrNothing`, `NvmlBalanced`, `RoundComplete`, `EnergyCounted`, `UtilizationInRange`, `DeviceSurvives` |
| `dashboard` | 2 servers with 2 agents each, one of them at both, 3 requests in flight, fair | `ChartsOfOneAgent`, `OneConnection`, `StatusTruthful`, `ListHeals` |

Five runs end in a violation on purpose: each states what a comment, a message
or a document says of the program, and TLC shows an execution of the code that
does otherwise.

| Run | Claim | What happens |
|---|---|---|
| `control_listed` | `server/README.md:90` "List currently connected agents." | check and `Add` in the handshake are not atomic; the older of two handlers removes the entry of the live session |
| `control_refused` | `agent/client/volta_collector_client.cc:155` "StreamData RPC already active" | the reactor is never reset, so a stream that ended is refused for ever |
| `bus_opening` | `dashboard/api/client.ts:43` "Subscribe to /ws first so no opening batches are missed." | the upgrade answers before the server subscribes |
| `queue_rearm` | `agent/message_queue.cc:61` drain "or we will miss messages added while we were in this callback" | the registration is renewed after the last `mq_receive`; a message in between is not announced |
| `rapl_wrap` | `docs/pl/METRICS.md:7` package power in watts, "Całkowita moc procesora" | the difference of two readings of a 32-bit register is delivered as it is, and is negative after a wrap |

Some properties carry a condition that is worth knowing, because the code does
not meet it everywhere:

- `AcceptedStarts` excepts what makes the agent refuse the command (a stream that
  has ended, see `control_refused`, or an empty UUID file), the loss of the agent
  or of its connection, and a session whose entry in the registry went to another
  connection of its id (see `control_listed`).
- `StreamUnderOwnId` allows the empty id when the UUID file is empty, which the
  TODO in `Client::Connect` leaves open; the server then refuses the stream.
- `InOrderOnce`, `NoGapOnceSubscribed` and `NoPanicBeforeShutdown` are claimed until
  the server shuts down.  Only the shutdown unsubscribes, so what `Unsubscribe` does
  to a slice that a `Publish` still walks is in the model and under no claim.
- `ExportConsistent` takes a file that could not be opened for an outcome of a start,
  as the code does.  `RowsStayTogether` excepts a stop: `EndDump` closes the file
  before it clears the flag.
- `WindowHoldsASample` is about a window the file sets and that fits 32 bits:
  `LoadTimeWindow` compares the number of milliseconds before it narrows it, so a
  window of 2^32 ms (49 days) or more is accepted and may end below the interval.
  The model takes such files and the property excepts them.  An interval above
  2 s, with no window in the file, exceeds the default window and gives rings of
  no slots; an interval of 0 ends the process by a division by zero.
- `UtilizationInRange` needs counters that did not go backwards.  `iowait` may,
  and an unreadable `/proc/stat` counts as zero; the next value then wraps.
- `DeviceSurvives` excepts PCI domains above 65535, which `BufferKey` truncates.
- `ListHeals` is about a stale list that selects an agent while the hook is not
  *settled*: it is about to open a socket, or waits for a list.  Agents keep their id
  on disk and every server accepts it, so two servers may list one agent; if the stale
  list holds the selected agent, `setAgents` keeps the selection, no dependency of the
  effect changes, and a settled hook keeps the stale list until its socket closes.
  The same goes for one server under two base URLs (only `client.ts` trims a trailing
  slash).  A stale list that is empty leaves the hook idle and nothing asks again; a
  refresh that fails is not repeated until the next reconnect.
- `ChartsOfOneAgent` is about a hook that streams.  Without a selection the
  points of the last agent stay in the store.

### Bounds

A ring of two slots and four samples overflows, is snapshotted while it
overflows, and is acknowledged late, when the ring has turned over completely;
two series put two batches in the queue, so that one is being written while
another waits.  Two connections are what the races between
handlers of one id need; a third repeats them.  The UUID file is never empty at
first: `SaveUUID` makes it so, and the second start finds it.  Two browsers make the slice grow
once in place and once into a new array, and a channel of one batch is full
after one.  A queue of two messages fills with five commands.  The real
capacities (16 batches, 10 messages) only make these cases rarer.  `h.register`
(16) never fills with two browsers; its limit is not modelled.  The energy
register counts modulo 4 and the rounds use up to 3 units each, so that it wraps
in one run and not in another; `uint64_t` counts modulo 64.  `Sleep` lets the
ticks of `/proc/stat` add up to less than that, as the real counters stay below
2^64, so the word wraps only where the real one does, below zero.
Two rounds after the first make a failed reading lie between two good ones.
Configuration files combine boundary values of each key (an interval of 0,
one equal to the window, a window one half millisecond above the interval, a
range that ends one CPU too far, a window that narrows to zero or to less than
the interval; `UintMod` is 4096 there).  Two servers and two agents give a change of
each kind; three requests are two that are stale and one that is not.

All runs but `dashboard` switch TLC's deadlock check off: with bounded samples,
starts, requests, commands and rounds a model comes to rest when its bound is
reached.  That nothing waits for
ever is what the liveness properties say.

### Fairness

- `StreamMetrics`: `poll_thread_` loops with finite sleeps; gRPC completes the
  operations of an open RPC and runs the callbacks; the handler receives and
  acknowledges.  No fairness for samples, breaks, or anything after a break.
- `ControlPlane`: delivery of messages on an open connection, the session's send
  loop, `Send`.  Starts, crashes, breaks, requests and time-outs are free.
- `EventBusHub`: only that a handler inside `Publish` keeps running.  Nothing is
  assumed of pumps: `WriteMessage` has no deadline.
- `CommandQueue`: a notification thread that was started runs.
- `Dashboard`: React renders (weak); timers fire, requests end and a server that
  is asked for a socket again and again opens one in the end (strong, because
  another event may come first and make a render due each time, and because
  sockets fail and are retried with a delay of at most 30 s for ever).  Nothing
  is assumed of the user or of a request's outcome.

## What is proved

`SeriesBufferProofs` proves, for every capacity: two samples less than a
capacity apart use different slots; `Push` and `AckSnapshot` keep a ring
intact; a snapshot of an intact ring is the run of consecutive samples
`tail + 1 .. head`.

`StreamMetricsProofs` proves `Spec => []IndInv` for every set of series, every
capacity (zero included, which a long collection interval gives) and any number
of samples, with one lemma per action.  From it follow

- `TypeCorrect` — `Spec => []TypeOK`;
- `RingsAlwaysIntact` — `Spec => []RingsIntact`;
- `AckAlwaysKnown` — `Spec => []AckKnown`: the branch of `OnReadDone` for an
  unknown batch is dead code, contrary to the comment in it;
- `WriteNeverLost` — `Spec => []NoLostWrite`.

None of these is inductive alone.  That an acknowledgement is known needs to
follow a batch backwards from the acknowledgement through the server, the
connection and the queue to its registration, and to know that forgetting one
snapshot does not forget another's.  `PipelineOK` says so: ids ascend along the
pipeline, every batch is in one place only, and every batch between queue and
acknowledgement is registered; `WriterOK` says that the batch being written is
the head of the queue, so the *unsent* batches are the queue without it.
`NoLostWrite` needs `PipelineOK` in the one step where the poll thread goes back
to sleep: if nothing is pending, nothing can be queued.  `SnapshotsOK` keeps an
acknowledgement from settling samples that do not exist.

`StreamDeliveryProofs` proves what the pipeline carries: `Spec => []Delivery`, and
from it and `IndInv`

- `NeverLostSilently` — `Spec => []NothingLostSilently`;
- `ImplementsSampleStream` — `Spec => StreamSpec`: initial states map to initial
  states, `AddMetrics` to `Produce`, `ServerRecv` to `Publish`, and every other
  step to a stutter;
- `QueueAlwaysBounded` — `Spec => []BoundedQueue`.

`IndInv` knows batches by their ids only.  `Delivery` adds that a series has at
most one snapshot pending and at most one batch in flight (`OneEach`,
`Registered`), because a round begins with nothing pending and visits a key once
(`ToVisit`); that the batch is the run of samples up to the end its snapshot will
acknowledge, starting no later than the first unsettled one (`Runs`: the ring may
have dropped samples since, so it may start earlier); that what was published of
the series lies before the batch (`Fresh`) and below the settled samples or a
pending snapshot (`Covered`), so that the next snapshot starts after it; and that
once a batch was published, what its acknowledgement will settle has been
published (`Arrived`).  The bound of the queue follows by counting: the unsent
batches have different keys.

`ControlPlaneProofs` proves `ControlTypeCorrect`, `RegistryAlwaysLive`,
`AlwaysHiddenOnlyByTwin` and `StreamAlwaysUnderOwnId` for any number of starts
and requests.  The two on the registry need `Sessions`: a connection not yet in
its handshake is untouched and has no id, and the send loop works only while the
handler runs, so that a session which ends can only delete an entry, never leave
one behind.  The one on the id needs `Identity`: either the agent has an id, and
it is the one of its session (or the one in the metadata of the handshake under
way), or it has none, and MESSAGE_ID is still to be sent or travels ahead of
every command, or the file is empty and refuses it.

`EventBusHubProofs` proves `BusTypeCorrect`, `NeverPanicBeforeShutdown`,
`RemoveAlwaysUnreachable`, `AlwaysInOrderOnce` and `NeverGapOnceSubscribed` for
any number of handlers, browsers and batches and any channel size.  Types need
`Slices`: the header a `Publish` copied never covers an unused place of its array,
whatever was appended to or removed from it since, and `Pumps`: a client is
registered once and its pump started once.  `Orderly` says that channels are
closed by the shutdown only.  The two on delivery need `Fan`, which is claimed
until the shutdown: the slice lists each subscriber once (`Listed`), so does the
prefix that a `Publish` in progress walks (`Views`), what is on the way to a
client was published and is not what a `Publish` still has to bring it
(`Counted`), the way itself is in order (`Ordered`), and what is due and neither
dropped nor on its way is about to be sent by a `Publish` that has not yet come
to the client (`Owed`).

`CommandQueueProofs` proves `Spec => []Inv` for any set of threads, queue length
and number of commands, and from it `HandlerAlwaysAlone`,
`ExportAlwaysConsistent`, `RowsAlwaysTogether` and `CommandTypeCorrect`.  `Alone` is inductive with the
types.  The consistency of flag and file is not: while a thread is between the
opening and the flag (`flag`), or between the closing and the flag (`unflag`),
they disagree, so `ExportInv` says what each place of the one running thread
allows, and the scheduler's own `EndDump` ends the claim.  `RowsInv` adds that
during a `Dump` which nobody stopped the flag is set, hence a start changes
nothing, and the rows so far went to the file that is open now.

`CollectorsProofs` proves, for every set of configuration files, number of CPUs
and GPUs, range of the registers and number of rounds:

- `NvmlAlwaysBalanced`.  It needs to know which calls a phase can be in
  (`NvmlInv`): the PCI query is made during `Init` only, the queries of `Collect`
  in the rounds only, a call is under way only while the loop has the collector
  still to visit, and the collector is not initialised before the loop over
  `Init` has visited it.
- `WindowAlwaysHoldsASample`, for every range of the 32-bit type, and `AffinityAlwaysWhole`, from lemmas about the
  operators of `AgentConfig` alone (`ConfigInv`: the configuration is the default
  before the load and `LoadConfig(tbl)` ever after).
- `CollectorsTypeCorrect`.
- `RoundsAlwaysComplete`.  `RoundInv` says it of a round that is under way, for the
  collectors visited so far and for the queries NVML has answered so far, and
  that each collector's request is its part of the configured metrics.  `got` is a
  sequence: that no type comes twice rests on the collectors' parts, and on the parts
  the four NVML queries serve, being disjoint.
- `EnergyAlwaysCounted`.  The differences telescope (`EnergyInv`): what was
  delivered is the last reading less the first, and a failed reading changes
  neither.
- `DeviceAlwaysSurvives`: a metric names a device of its type's kind (`ShapeInv`),
  and on those shapes the encoding in `BufferKey` is undone but for wide domains.
- `UtilizationAlwaysInRange`, an action property: the busy part of the last
  reading never exceeds the busy time that has passed (`StatInv`), so the
  difference of the totals is at least the difference of the idle times, also
  across a reading that failed.

`DashboardProofs` proves `Spec => []Inv`, and from it `DashboardTypeCorrect`,
`ChartsAlwaysOfOneAgent`, `AlwaysOneConnection` and `StatusAlwaysTruthful`.
`Connection` says which socket there is, not only how many; every event of a
socket is then an event of what the hook streams.

Assumptions: `CapAssumption` (the capacity is a natural number, an unwritten
slot is not a sample) and `KeysAssumption` (the unspecified metric type is not a
series, and a machine has finitely many series); `ControlAssumption` (ids are
told from "none" and from an empty file); `BusAssumption` (a channel has room for
a batch); `GpuAssumption` (PCI bus and device fit a byte, as `nvml.h` documents;
the function is 0); `AgentAssumption` (an agent's id is told from "no selection"; servers may share
agents);
`QueueAssumption`, `CpuAssumption`, `UintAssumption`, `TableAssumption`, `CounterAssumption` and
`FetchAssumption` say that bounds and counters are natural numbers and files are
tables; `WordMod` is above 3, the ticks that have passed when the agent starts.
TLC evaluates them all in the runs.

Checked by TLC only: liveness (`EverySampleSettled`, `SendReturns`,
`AcceptedStarts`, `PublishReturns`, `DrainEmpties`, `ListHeals`), which needs
`ENABLED` and so is out of the prover's reach, and the five claims that the code
does not meet.  No safety property of a passing run is without a theorem.

## Not modelled

- `agent/platform/platform_detector.cc`: nothing calls it.  The same goes for
  `GenerateUUIDv4`, `send_nonblocking`, `pending_count` and `unlink`.
- Output: `Scheduler::PrintDashboard` and `DescribeKey`, `Exporter::DescribeDevice`,
  `ConfigLoader::CheckKeys`, the loggers, the dashboard's views, `ui-store`,
  `recentUrls` and `lastError`.
- Parsing and encoding by libraries: TOML, protobuf, JSON; HTTP routing and CORS;
  the server's configuration, which is read once and changes nothing after.
- The control messages PING and SEND_DATA: the agent handles them, the server
  never sends them.
- The steps of the server's shutdown before `hub.Close` (one step, `Close`), the
  limit of `h.register`, the truncation of a series to `MAX_POINTS`.
- The order of the server's shutdown: it stops gRPC before `hub.Close`, but the
  forced `Stop` after 30 s does not wait for handlers, so a `Publish` may begin after
  `Close`.  The model lets handlers and requests go on without limit then, which is
  more than the code does; nothing is claimed of that time but the types and that
  `Publish` returns.
- Errors of `mq_receive` other than EAGAIN: the descriptor is open and non-blocking
  and the buffer has `mq_msgsize` bytes, so there is none to expect.
- `new URL` in the socket's address (`dashboard/api/client.ts:15`) throws for a base
  URL such as `/prefix`, which `fetch` accepts: base URLs are absolute here.

Of the agent's C and C++ lines four fifths are
`sources/agent/libs/include/nvidia/nvml.h`, NVIDIA's header of declarations and
their documentation.  The agent calls a handful of its functions, and the
contract of those is modelled; there is nothing in the rest that the program
does.  A share of lines that counts the header therefore stays low; of the
agent's own sources most files with behaviour are mapped, the exceptions being
the ones listed above.

## Plan

1. The server's shutdown sequence and the limit of `h.register`, with the proofs
   of `EventBusHub` extended to the shutdown.
2. The way of a device from the batch header to the dashboard's series key.
3. Safety halves of the liveness properties: for `SendReturns` and
   `PublishReturns`, that some step of the waiting thread is always possible or
   some other thread's step is owed, stated as an invariant.
