----------------------------- MODULE AgentConfig ----------------------------
(***************************************************************************)
(* ConfigLoader of the agent (sources/agent/src/config) as operators: what *)
(* a TOML table makes of the default configuration.  Each loader keeps the *)
(* value it finds when its own key is absent or unusable, and nothing      *)
(* tells the caller; the order of the loaders is part of the behaviour,    *)
(* because time_window is compared with the interval in force by then.     *)
(*                                                                         *)
(* A table has one field per key.  A negative number stands for a key that *)
(* is absent or does not fit its type; time_window counts half             *)
(* milliseconds, so that its truncation shows.  A list is a set: each      *)
(* loader gives the same result for every order of the entries.            *)
(***************************************************************************)
EXTENDS Integers

CONSTANTS
    NumCpus,          \* sysconf(_SC_NPROCESSORS_ONLN)
    UintMod,          \* uint32_t counts modulo this (2^32)
    GoodAddresses     \* the server addresses that are an IP or resolve

ASSUME CpuAssumption == NumCpus \in Nat \ {0}
ASSUME UintAssumption == UintMod \in Nat \ {0}

\* Metric types, by their numbers in metric.proto: those a collector satisfies,
\* and DISK_BUSY_TIME for the rest.
UNSPECIFIED == 0
CPU_POWER_PACKAGE == 100
CPU_UTILIZATION == 103
GPU_POWER == 200
GPU_UTILIZATION == 202
GPU_TEMPERATURE == 203
GPU_VRAM_USED == 204
GPU_SHARED_MEMORY_UTILIZATION == 207
RAM_TOTAL == 301
RAM_USED == 303
DISK_BUSY_TIME == 404
MetricTypes ==
    {CPU_POWER_PACKAGE, CPU_UTILIZATION, GPU_POWER, GPU_UTILIZATION, GPU_TEMPERATURE,
     GPU_VRAM_USED, GPU_SHARED_MEMORY_UTILIZATION, RAM_TOTAL, RAM_USED, DISK_BUSY_TIME}

Missing == -1
Cpus == 0 .. NumCpus - 1
MaxPort == 65535

Config == [interval : Nat, window : Nat, address : {"localhost"} \cup GoodAddresses, port : 1 .. MaxPort,
           affinity : SUBSET Cpus, metrics : SUBSET (MetricTypes \cup {UNSPECIFIED})]

LoadDefaultConfig ==
    [interval |-> 500, window |-> 2000, address |-> "localhost", port |-> 5000,
     affinity |-> Cpus, metrics |-> MetricTypes \cup {UNSPECIFIED}]

\* What a file may parse to.
Table == [interval : Int, window : Int, address : STRING, port : Int,
          affinity : [kind : {"none", "all", "list"}, items : SUBSET [from : Nat, to : Nat]],
          metrics : SUBSET Int]

\* A table without a usable key: also what a missing file or one that does not
\* parse comes to, as LoadConfigFile returns before it touches the defaults.
EmptyTable == [interval |-> Missing, window |-> Missing, address |-> "", port |-> Missing,
               affinity |-> [kind |-> "none", items |-> {}], metrics |-> {}]

-----------------------------------------------------------------------------
\* AddCpu and AddRange: a CPU n is the range n-n, an entry that is neither a
\* number nor a range the range 1-0.
AddRange(e) == e.from <= e.to /\ e.to < NumCpus

\* Faulty variant: an entry that is out of range is skipped.
LoadCoreAffinitySkips(tbl, c) ==
    IF tbl.affinity.kind = "list"
    THEN [c EXCEPT !.affinity = UNION {e.from .. e.to : e \in {x \in tbl.affinity.items : AddRange(x)}}]
    ELSE c

\* "all", or a list whose entries must all be good.
LoadCoreAffinity(tbl, c) ==
    CASE tbl.affinity.kind = "all" -> [c EXCEPT !.affinity = Cpus]
      [] tbl.affinity.kind = "list" /\ \A e \in tbl.affinity.items : AddRange(e) ->
           [c EXCEPT !.affinity = UNION {e.from .. e.to : e \in tbl.affinity.items}]
      [] OTHER -> c

LoadInterval(tbl, c) ==
    IF tbl.interval >= 0 THEN [c EXCEPT !.interval = tbl.interval] ELSE c

\* The number is compared as it stands and narrowed to uint32_t afterwards: out of
\* range, which C++ leaves undefined, an x86-64 build keeps the low 32 bits.  Of
\* inf they are zero, so any multiple of UintMod stands for it.
LoadTimeWindow(tbl, c) ==
    IF tbl.window > 2 * c.interval
    THEN [c EXCEPT !.window = (tbl.window \div 2) % UintMod] ELSE c

LoadServerAddress(tbl, c) ==
    IF tbl.address \in GoodAddresses THEN [c EXCEPT !.address = tbl.address] ELSE c

\* Faulty variant: zero passes for a port.
LoadServerPortZero(tbl, c) ==
    IF tbl.port \in 0 .. MaxPort THEN [c EXCEPT !.port = tbl.port] ELSE c

LoadServerPort(tbl, c) ==
    IF tbl.port \in 1 .. MaxPort THEN [c EXCEPT !.port = tbl.port] ELSE c

\* Entries that name no type, and UNSPECIFIED, are skipped; when nothing is left
\* the list stays as it was.
LoadMetrics(tbl, c) ==
    LET metrics == tbl.metrics \cap MetricTypes IN
    IF metrics = {} THEN c ELSE [c EXCEPT !.metrics = metrics]

\* Faulty variant: the window is read before the interval.
LoadConfigFileWindowFirst(tbl, c) ==
    LoadMetrics(tbl, LoadServerPort(tbl, LoadServerAddress(tbl,
      LoadInterval(tbl, LoadTimeWindow(tbl, LoadCoreAffinity(tbl, c))))))

\* The loaders in the order LoadConfigFile calls them.
LoadConfigFile(tbl, c) ==
    LoadMetrics(tbl, LoadServerPort(tbl, LoadServerAddress(tbl,
      LoadTimeWindow(tbl, LoadInterval(tbl, LoadCoreAffinity(tbl, c))))))

LoadConfig(tbl) == LoadConfigFile(tbl, LoadDefaultConfig)

\* MetricsBuffer::MetricsBuffer; an interval of zero divides by zero.
CapacityPerSeries(c) == c.window \div c.interval

=============================================================================
