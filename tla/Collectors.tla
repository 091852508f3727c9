----------------------------- MODULE Collectors -----------------------------
(***************************************************************************)
(* The agent's main thread from start to exit: agent_mode loads the        *)
(* configuration and resolves the collectors, Scheduler::Run initialises   *)
(* them and collects in rounds, and the registry's destructor releases     *)
(* them.  The thread is sequential; what is nondeterministic is the        *)
(* configuration file, the hardware (a probe, a read or a driver call may  *)
(* fail at any time, counters wrap) and when the agent is stopped.         *)
(*                                                                         *)
(* NvmlCollector holds a reference on the NVML library, which is taken and *)
(* given back on eight paths: its methods are modelled call by call.  The  *)
(* other collectors' methods are one step each.                            *)
(***************************************************************************)
EXTENDS AgentConfig, Sequences

CONSTANTS
    Tables,       \* the configuration files considered
    GpuIds,       \* <<domain, bus, device, function>> of the GPUs considered
    EnergyMod,    \* the RAPL energy register counts modulo this (2^32)
    EnergyStart,  \* what it showed when the agent started
    WordMod,      \* uint64_t counts modulo this (2^64)
    MemInfos,     \* what /proc/meminfo may say: [total, available]
    Ticks,        \* what may happen between two rounds: [energy, busy, idle, iowait]
    MaxRounds     \* bound: rounds of collection

ASSUME TableAssumption == Tables \subseteq Table
ASSUME CounterAssumption ==
    /\ EnergyMod \in Nat \ {0} /\ EnergyStart \in Nat
    /\ WordMod \in Nat /\ WordMod > 3 /\ MaxRounds \in Nat
    /\ Ticks \subseteq [energy : Nat, busy : Nat, idle : Nat, iowait : Int]

\* nvml.h: bus and device fit a byte, the domain has 32 bits; the function is 0.
ASSUME GpuAssumption ==
    \A id \in GpuIds :
      id \in Nat \X Nat \X Nat \X {0} /\ id[2] < 256 /\ id[3] < 256

VARIABLES
    tbl,         \* agent.conf as parsed
    config,      \* config
    mask,        \* the CPUs the process may run on
    phase,       \* load, resolve, init, round, ended; crashed
    rounds,      \* rounds completed
    todo,        \* the collectors the current loop has still to visit
    active,      \* collectors_: what Resolve returned
    requested,   \* requested_metrics_ of each collector
    initialized, \* initialized_ of each collector
    loaded,      \* g_nvml_handle is set
    refs,        \* the NVML library's count of initialisations
    call,        \* the library call NvmlCollector makes next, or none
    result,      \* what IsSupported or Init will return after the Shutdown
    gpu,         \* gpu_id_
    last,        \* RaplCollector: last_value, in energy units
    prev,        \* ProcStatCollector: prev_total_ and prev_idle_
    hw,          \* the hardware: energy ever used, busy, idle and iowait time
    reported,    \* history: the sum of all energy values delivered
    got,         \* history: the metrics collected in this round, in their order
    failed       \* history: the types whose reading failed in this round

startVars == <<tbl, config, mask>>
nvmlVars  == <<loaded, refs, call, result, gpu>>
rateVars  == <<last, prev, reported>>
roundVars == <<got, failed>>
vars == <<startVars, phase, rounds, todo, active, requested, initialized, nvmlVars,
          rateVars, hw, roundVars>>

Names == {"rapl", "stat", "ram", "nvml"}

GpuTypes == {GPU_VRAM_USED, GPU_UTILIZATION, GPU_SHARED_MEMORY_UTILIZATION, GPU_TEMPERATURE, GPU_POWER}

Satisfiable(c) ==
    CASE c = "rapl" -> {CPU_POWER_PACKAGE}
      [] c = "stat" -> {CPU_UTILIZATION}
      [] c = "ram"  -> {RAM_TOTAL, RAM_USED}
      [] c = "nvml" -> GpuTypes

NoDevice == [kind |-> "none", id |-> <<>>]
Device(kind, id) == [kind |-> kind, id |-> id]
Metric(t, dev, value) == [type |-> t, dev |-> dev, value |-> value]

\* if (needs(t)) metrics.push_back(...), for a collector that was asked for types.
PushNeeded(types, t, dev, value) == IF t \in types THEN <<Metric(t, dev, value)>> ELSE <<>>

\* Subtraction of uint64_t.
Minus(a, b) == (a - b) % WordMod

-----------------------------------------------------------------------------
(* ConfigLoader::LoadConfig.  sched_setaffinity may be refused (an empty   *)
(* mask always is), and the configuration keeps the mask all the same.     *)

LoadConfigStep ==
    /\ phase = "load"
    /\ config' = LoadConfig(tbl)
    /\ mask' \in {mask} \cup (IF tbl.affinity.kind = "list" /\ config'.affinity # {}
                                 /\ \A e \in tbl.affinity.items : AddRange(e)
                              THEN {config'.affinity} ELSE {})
    /\ phase' = "resolve"
    /\ todo' = Names
    /\ UNCHANGED <<tbl, rounds, active, requested, initialized, nvmlVars, rateVars, hw, roundVars>>

-----------------------------------------------------------------------------
(* CollectorRegistry::Resolve.                                             *)

\* The rest of the loop's body once IsSupported has answered.
Activate(c, supported) ==
    LET types == Satisfiable(c) \cap config.metrics IN
    \/ /\ supported /\ types # {}
       /\ active' = active \cup {c}
       /\ requested' = [requested EXCEPT ![c] = types]
    \/ /\ ~supported \/ types = {}
       /\ UNCHANGED <<active, requested>>

\* IsSupported of the collectors that only look at files.
Resolve(c) ==
    /\ phase = "resolve"
    /\ call = "none"
    /\ c \in todo \ {"nvml"}
    /\ todo' = todo \ {c}
    /\ \E supported \in BOOLEAN : Activate(c, supported)
    /\ UNCHANGED <<startVars, phase, rounds, initialized, nvmlVars, rateVars, hw, roundVars>>

-----------------------------------------------------------------------------
(* RaplCollector, ProcStatCollector, RamCollector                          *)

\* What the ENERGY_STATUS register shows.
ReadMSR == (EnergyStart + hw.energy) % EnergyMod

\* OpenMSR or ReadMSR may throw, and Run ignores the result of Init.
InitRapl ==
    \/ /\ initialized' = [initialized EXCEPT !["rapl"] = TRUE]
       /\ last' = ReadMSR
       /\ UNCHANGED <<prev, reported>>
    \/ UNCHANGED <<initialized, rateVars>>

InitCollector(c) ==
    /\ phase = "init"
    /\ call = "none"
    /\ c \in todo \ {"nvml"}
    /\ todo' = todo \ {c}
    /\ \/ c = "rapl" /\ InitRapl
       \/ /\ c # "rapl"
          /\ initialized' = [initialized EXCEPT ![c] = TRUE]
          /\ UNCHANGED rateVars
    /\ UNCHANGED <<startVars, phase, rounds, active, requested, nvmlVars, hw, roundVars>>

\* Faulty variant: last_value is not advanced.
CollectRaplKeeps ==
    \/ /\ initialized["rapl"]
       /\ got' = Append(got, Metric(CPU_POWER_PACKAGE, Device("cpu", <<0, 0>>), <<ReadMSR - last, 1>>))
       /\ reported' = reported + ReadMSR - last
       /\ UNCHANGED <<failed, last, prev>>
    \/ /\ failed' = failed \cup {CPU_POWER_PACKAGE}
       /\ UNCHANGED <<got, rateVars>>

\* The difference of two readings of the register, as it is.
CollectRapl ==
    \/ /\ initialized["rapl"]
       /\ got' = Append(got, Metric(CPU_POWER_PACKAGE, Device("cpu", <<0, 0>>), <<ReadMSR - last, 1>>))
       /\ last' = ReadMSR
       /\ reported' = reported + ReadMSR - last
       /\ UNCHANGED <<failed, prev>>
    \/ /\ failed' = failed \cup {CPU_POWER_PACKAGE}
       /\ UNCHANGED <<got, rateVars>>

\* Faulty variant: the total leaves iowait out.
ReadCpuStatsNoWait == [total |-> hw.busy + hw.idle, idle |-> hw.idle + hw.iowait]

\* The first line of /proc/stat: iowait counts as idle time.
ReadCpuStats == [total |-> hw.busy + hw.idle + hw.iowait, idle |-> hw.idle + hw.iowait]

\* A file that cannot be read leaves both counters zero.
CollectStat ==
    \E now \in {ReadCpuStats, [total |-> 0, idle |-> 0]} :
      LET total == Minus(now.total, prev.total)
          idle == Minus(now.idle, prev.idle)
          usage == IF total > 0 THEN <<Minus(total, idle), total>> ELSE <<0, 1>> IN
      /\ got' = Append(got, Metric(CPU_UTILIZATION, NoDevice, usage))
      /\ prev' = now
      /\ UNCHANGED <<failed, last, reported>>

\* ReadStats and the two metrics it gives.
CollectRam ==
    /\ initialized["ram"]
    /\ \E m \in MemInfos :
         got' = got \o PushNeeded(requested["ram"], RAM_TOTAL, NoDevice, <<m.total, 1>>)
                    \o PushNeeded(requested["ram"], RAM_USED, NoDevice, <<Minus(m.total, m.available), 1>>)
    /\ UNCHANGED <<failed, rateVars>>

Collect(c) ==
    /\ phase = "round"
    /\ call = "none"
    /\ c \in todo \ {"nvml"}
    /\ todo' = todo \ {c}
    /\ \/ c = "rapl" /\ CollectRapl
       \/ c = "stat" /\ CollectStat
       \/ c = "ram" /\ CollectRam
    /\ UNCHANGED <<startVars, phase, rounds, active, requested, initialized, nvmlVars, hw>>

-----------------------------------------------------------------------------
(* NvmlCollector and the NVML library.  A call of the library (external,   *)
(* documented in nvml.h) may fail at any time, and a query always fails    *)
(* while the library is not initialised.                                   *)

nvmlInit(ok) == refs' = IF ok THEN refs + 1 ELSE refs

\* "no error is reported if nvmlShutdown() is called more times than nvmlInit()"
nvmlShutdown == refs' = IF refs > 0 THEN refs - 1 ELSE 0

nvmlDeviceGet(ok) == (ok => refs > 0) /\ refs' = refs

\* The method returns to the loop that called it.
Return(r) ==
    /\ call' = "none"
    /\ todo' = todo \ {"nvml"}
    /\ IF phase = "resolve" THEN Activate("nvml", r) ELSE UNCHANGED <<active, requested>>

Continue(next) == call' = next /\ UNCHANGED <<todo, active, requested>>

\* Resolve, Run or a round calls IsSupported, Init or Collect.
NvmlBegin ==
    /\ phase \in {"resolve", "init", "round"}
    /\ "nvml" \in todo
    /\ call = "none"
    /\ \/ /\ phase # "round"
          /\ Continue("load")
          /\ UNCHANGED failed
       \/ /\ phase = "round" /\ initialized["nvml"]
          /\ Continue("power")
          /\ UNCHANGED failed
       \/ /\ phase = "round" /\ ~initialized["nvml"]
          /\ Return(FALSE)
          /\ failed' = failed \cup requested["nvml"]
    /\ UNCHANGED <<startVars, phase, rounds, initialized, loaded, refs, result, gpu,
                   rateVars, hw, got>>

\* TryLoadNvml: what was loaded once stays; otherwise dlopen or dlsym may fail.
TryLoadNvml ==
    /\ call = "load"
    /\ \/ loaded' = TRUE /\ Continue("init")
       \/ ~loaded /\ loaded' = FALSE /\ Return(FALSE)
    /\ UNCHANGED <<startVars, phase, rounds, initialized, refs, result, gpu, rateVars, hw, roundVars>>

NvmlInit ==
    /\ call = "init"
    /\ \E ok \in BOOLEAN :
         /\ nvmlInit(ok)
         /\ IF ok THEN Continue(IF phase = "resolve" THEN "count" ELSE "handle") ELSE Return(FALSE)
    /\ UNCHANGED <<startVars, phase, rounds, initialized, loaded, result, gpu, rateVars, hw, roundVars>>

\* DeviceGetCount (of IsSupported only): an error or no device.
NvmlCount ==
    /\ call = "count"
    /\ \E ok \in BOOLEAN : nvmlDeviceGet(ok) /\ Continue(IF ok THEN "handle" ELSE "shutdown")
    /\ result' = FALSE
    /\ UNCHANGED <<startVars, phase, rounds, initialized, loaded, gpu, rateVars, hw, roundVars>>

\* DeviceGetHandleByIndex(0): IsSupported always shuts down and answers with the
\* outcome, Init shuts down only on an error.
NvmlHandle ==
    /\ call = "handle"
    /\ \E ok \in BOOLEAN :
         /\ nvmlDeviceGet(ok)
         /\ Continue(IF ok /\ phase = "init" THEN "pci" ELSE "shutdown")
         /\ result' = (ok /\ phase = "resolve")
    /\ UNCHANGED <<startVars, phase, rounds, initialized, loaded, gpu, rateVars, hw, roundVars>>

\* Faulty variant: Init gives up without a Shutdown.
NvmlPciKeeps ==
    /\ call = "pci"
    /\ \/ /\ nvmlDeviceGet(TRUE)
          /\ gpu' \in GpuIds
          /\ initialized' = [initialized EXCEPT !["nvml"] = TRUE]
          /\ Return(TRUE)
       \/ /\ nvmlDeviceGet(FALSE)
          /\ Return(FALSE)
          /\ UNCHANGED <<gpu, initialized>>
    /\ UNCHANGED <<startVars, phase, rounds, loaded, result, rateVars, hw, roundVars>>

\* DeviceGetPciInfo, the last call of Init.
NvmlPci ==
    /\ call = "pci"
    /\ \/ /\ nvmlDeviceGet(TRUE)
          /\ gpu' \in GpuIds
          /\ initialized' = [initialized EXCEPT !["nvml"] = TRUE]
          /\ Return(TRUE)
       \/ /\ nvmlDeviceGet(FALSE)
          /\ Continue("shutdown")
          /\ UNCHANGED <<gpu, initialized>>
    /\ UNCHANGED <<startVars, phase, rounds, loaded, result, rateVars, hw, roundVars>>

NvmlShutdown ==
    /\ call = "shutdown"
    /\ nvmlShutdown
    /\ Return(result)
    /\ UNCHANGED <<startVars, phase, rounds, initialized, loaded, result, gpu, rateVars, hw, roundVars>>

\* The four queries of Collect, in their order, and the types each one serves.
Queries == [power |-> {GPU_POWER}, temperature |-> {GPU_TEMPERATURE},
            utilization |-> {GPU_UTILIZATION, GPU_SHARED_MEMORY_UTILIZATION},
            memory |-> {GPU_VRAM_USED}]
After == [power |-> "temperature", temperature |-> "utilization", utilization |-> "memory",
          memory |-> "none"]

\* Faulty variant: the GPU's rate is pushed again with the memory's.
QueryMetricsTwice(q) ==
    LET push(t) == PushNeeded(requested["nvml"], t, Device("gpu", gpu), <<0, 1>>) IN
    CASE q = "power" -> push(GPU_POWER)
      [] q = "temperature" -> push(GPU_TEMPERATURE)
      [] q = "utilization" -> push(GPU_UTILIZATION) \o push(GPU_UTILIZATION)
                                \o push(GPU_SHARED_MEMORY_UTILIZATION)
      [] q = "memory" -> push(GPU_VRAM_USED)

\* What a query that succeeds adds to the vector; its values are not modelled.
QueryMetrics(q) ==
    LET push(t) == PushNeeded(requested["nvml"], t, Device("gpu", gpu), <<0, 1>>) IN
    CASE q = "power" -> push(GPU_POWER)
      [] q = "temperature" -> push(GPU_TEMPERATURE)
      [] q = "utilization" -> push(GPU_UTILIZATION) \o push(GPU_SHARED_MEMORY_UTILIZATION)
      [] q = "memory" -> push(GPU_VRAM_USED)

\* Collect: a query is made when a type it serves was requested, and its types
\* are left out of the round when it fails.
NvmlCollect ==
    /\ call \in DOMAIN Queries
    /\ LET types == Queries[call] \cap requested["nvml"] IN
       \/ /\ types = {}
          /\ UNCHANGED <<refs, roundVars>>
       \/ /\ types # {}
          /\ nvmlDeviceGet(TRUE)
          /\ got' = got \o QueryMetrics(call)
          /\ UNCHANGED failed
       \/ /\ types # {}
          /\ nvmlDeviceGet(FALSE)
          /\ failed' = failed \cup types
          /\ UNCHANGED got
    /\ IF call = "memory" THEN Return(TRUE) ELSE Continue(After[call])
    /\ UNCHANGED <<startVars, phase, rounds, initialized, loaded, result, gpu, rateVars, hw>>

Nvml == \/ NvmlBegin \/ TryLoadNvml \/ NvmlInit \/ NvmlCount \/ NvmlHandle \/ NvmlPci
        \/ NvmlShutdown \/ NvmlCollect

-----------------------------------------------------------------------------
(* The way of a metric's device into the header of its batch.  No collector *)
(* delivers a metric of a disk or a network interface.                     *)

\* Faulty variant: the fields of the PCI address change places.
MakeBufferKeySwapped(m) ==
    [type |-> m.type,
     gpu  |-> IF m.dev.kind = "gpu"
              THEN <<m.dev.id[1] % 65536, m.dev.id[3] % 256, m.dev.id[2] % 256, m.dev.id[4] % 256>>
              ELSE <<0, 0, 0, 0>>,
     cpu  |-> IF m.dev.kind = "cpu" THEN <<m.dev.id[1] % 256, m.dev.id[2] % 65536>> ELSE <<0, 0>>]

\* The casts to the narrower fields of BufferKey.
MakeBufferKey(m) ==
    [type |-> m.type,
     gpu  |-> IF m.dev.kind = "gpu"
              THEN <<m.dev.id[1] % 65536, m.dev.id[2] % 256, m.dev.id[3] % 256, m.dev.id[4] % 256>>
              ELSE <<0, 0, 0, 0>>,
     cpu  |-> IF m.dev.kind = "cpu" THEN <<m.dev.id[1] % 256, m.dev.id[2] % 65536>> ELSE <<0, 0>>]

\* EnqueueMetrics(key) chooses the kind of device by the number of the type.
BatchDevice(key) ==
    CASE key.type \in 100 .. 199 -> Device("cpu", key.cpu)
      [] key.type \in 200 .. 299 -> Device("gpu", key.gpu)
      [] OTHER -> NoDevice

-----------------------------------------------------------------------------
(* agent_mode and Scheduler::Run                                           *)

LoopDone(p) == phase = p /\ todo = {} /\ call = "none"

\* The MetricsBuffer is built with window / interval slots per series; the
\* division by an interval of zero ends the process.
MakeBuffer ==
    /\ LoopDone("resolve")
    /\ phase' = IF config.interval = 0 THEN "crashed" ELSE "init"
    /\ todo' = active
    /\ UNCHANGED <<startVars, rounds, active, requested, initialized, nvmlVars, rateVars, hw, roundVars>>

FirstRound ==
    /\ LoopDone("init")
    /\ phase' = "round"
    /\ todo' = active
    /\ UNCHANGED <<startVars, rounds, active, requested, initialized, nvmlVars, rateVars, hw, roundVars>>

\* The sleep between two rounds, in which the hardware goes on.  iowait is the
\* one counter of /proc/stat that may also decrease, and all of them together
\* stay within 64 bits for longer than a machine lasts.
Sleep ==
    /\ LoopDone("round")
    /\ rounds < MaxRounds
    /\ rounds' = rounds + 1
    /\ \E t \in Ticks :
         /\ hw.iowait + t.iowait >= 0
         /\ hw' = [f \in DOMAIN hw |-> hw[f] + t[f]]
         /\ hw'.busy + hw'.idle + hw'.iowait < WordMod
    /\ todo' = active
    /\ got' = <<>>
    /\ failed' = {}
    /\ UNCHANGED <<startVars, phase, active, requested, initialized, nvmlVars, rateVars>>

\* The destructors of the registry's collectors, at the end of the process.
Destroy ==
    /\ phase' = "ended"
    /\ IF initialized["nvml"] THEN nvmlShutdown ELSE UNCHANGED refs
    /\ initialized' = [c \in Names |-> FALSE]
    /\ UNCHANGED <<startVars, rounds, todo, active, requested, loaded, call, result, gpu,
                   rateVars, hw, roundVars>>

\* g_running is cleared.
Exit == (LoopDone("init") \/ LoopDone("round")) /\ Destroy

\* The scan of /dev/cpu by IsSupported or OpenMSR throws, and agent_mode reports
\* a critical error.
Throw == phase \in {"resolve", "init"} /\ "rapl" \in todo /\ call = "none" /\ Destroy

-----------------------------------------------------------------------------
Init ==
    /\ tbl \in Tables
    /\ config = LoadDefaultConfig
    /\ mask = Cpus
    /\ phase = "load"
    /\ rounds = 0
    /\ todo = {}
    /\ active = {}
    /\ requested = [c \in Names |-> {}]
    /\ initialized = [c \in Names |-> FALSE]
    /\ loaded = FALSE
    /\ refs = 0
    /\ call = "none"
    /\ result = FALSE
    /\ gpu = <<0, 0, 0, 0>>
    /\ last = 0
    /\ prev = [total |-> 0, idle |-> 0]
    /\ hw = [energy |-> 0, busy |-> 1, idle |-> 1, iowait |-> 1]
    /\ reported = 0
    /\ got = <<>>
    /\ failed = {}

Next ==
    \/ LoadConfigStep
    \/ \E c \in Names : Resolve(c) \/ InitCollector(c) \/ Collect(c)
    \/ Nvml
    \/ MakeBuffer \/ FirstRound \/ Sleep \/ Exit \/ Throw

Spec == Init /\ [][Next]_vars

-----------------------------------------------------------------------------
(* Properties                                                              *)

\* Every variable has its type.
TypeOK ==
    /\ tbl \in Tables
    /\ config \in Config
    /\ mask \in SUBSET Cpus
    /\ phase \in {"load", "resolve", "init", "round", "ended", "crashed"}
    /\ rounds \in 0 .. MaxRounds
    /\ todo \in SUBSET Names
    /\ active \in SUBSET Names
    /\ requested \in [Names -> SUBSET MetricTypes]
    /\ initialized \in [Names -> BOOLEAN]
    /\ loaded \in BOOLEAN
    /\ refs \in Nat
    /\ call \in {"none", "load", "init", "count", "handle", "pci", "shutdown"} \cup DOMAIN Queries
    /\ result \in BOOLEAN
    /\ gpu \in GpuIds \cup {<<0, 0, 0, 0>>}
    /\ last \in 0 .. EnergyMod - 1
    /\ failed \in SUBSET MetricTypes

\* A time_window the loader took from the file holds at least one sample at the
\* interval in force in the end, in whatever order the file gives the two: the
\* loaders run in the order that makes the comparison in LoadTimeWindow mean that.
\* A window of 2^32 ms (49 days) or more is the exception, see LoadTimeWindow.
WindowHoldsASample ==
    /\ phase # "load" /\ config.interval > 0 /\ config.window # LoadDefaultConfig.window
    /\ tbl.window \div 2 < UintMod
    => CapacityPerSeries(config) >= 1

\* LoadCoreAffinity is all or nothing: when it changes the CPUs, every entry of
\* the list is honoured, and the process runs on these CPUs or, where the kernel
\* refused, on the ones it had.
AffinityAllOrNothing ==
    /\ config.affinity # Cpus =>
         \A e \in tbl.affinity.items : e.from <= e.to /\ e.from .. e.to \subseteq config.affinity
    /\ mask \in {Cpus, config.affinity}

\* Every path through IsSupported, Init and the destructor of NvmlCollector gives
\* back the reference it took on NVML, and none gives back what Collect needs:
\* the library is initialised exactly while the collector is, or is trying to be.
NvmlBalanced ==
    /\ refs = IF initialized["nvml"] \/ call \in {"count", "handle", "pci", "shutdown"}
              THEN 1 ELSE 0
    /\ call \in {"load", "init", "count", "handle", "pci", "shutdown"} => ~initialized["nvml"]
    /\ call \in DOMAIN Queries => initialized["nvml"]

\* The metrics of the round so far, without their order.
Delivered == {got[i] : i \in DOMAIN got}

\* A round delivers each metric that was asked for and whose reading did not
\* fail, once, and no other: Resolve splits the request over the collectors and
\* Collect serves two types from one query.
RoundComplete ==
    LoopDone("round") =>
      /\ {m.type : m \in Delivered} = (config.metrics \cap UNION {Satisfiable(c) : c \in active}) \ failed
      /\ \A i, j \in DOMAIN got : got[i].type = got[j].type => i = j

\* The energy values delivered add up to the energy used, but for multiples of
\* the register's range: a reading that fails loses nothing, as last_value stays
\* and the next value covers both rounds.
EnergyCounted ==
    (\E m \in Delivered : m.type = CPU_POWER_PACKAGE) => (hw.energy - reported) % EnergyMod = 0

\* The package power of a processor (METRICS.md) is never negative.
PowerNeverNegative ==
    \A m \in Delivered : m.type = CPU_POWER_PACKAGE => m.value[1] >= 0

\* As long as the counters of /proc/stat do not go backwards, the utilization is
\* a percentage: the unsigned differences of Collect do not wrap.
UtilizationInRange ==
    [][\A i \in DOMAIN got' \ DOMAIN got :
         got'[i].type = CPU_UTILIZATION /\ prev'.total >= prev.total /\ prev'.idle >= prev.idle
         => got'[i].value[1] \in 0 .. got'[i].value[2]]_vars

\* The header of a batch names the device the metric was measured on: the detour
\* over BufferKey loses only PCI domains of more than 16 bits, and gives the CPU
\* metrics of the whole system the device 0/0.
DeviceSurvives ==
    \A m \in Delivered :
      LET d == BatchDevice(MakeBufferKey(m)) IN
      \/ d = m.dev
      \/ m.dev = NoDevice /\ d = Device("cpu", <<0, 0>>)
      \/ m.dev.kind = "gpu" /\ m.dev.id[1] >= 65536

=============================================================================
