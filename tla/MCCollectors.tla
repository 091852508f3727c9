---------------------------- MODULE MCCollectors ----------------------------
(* Values for the runs of Collectors.                                      *)
EXTENDS Collectors

List(items) == [kind |-> "list", items |-> items]
Entry(a, b) == [from |-> a, to |-> b]

\* Files with any interval, window and affinity, and a metric nobody collects.  Two
\* of the windows (inf is one) do not fit 32 bits.
MCStartTables ==
    {[EmptyTable EXCEPT !.interval = i, !.window = w, !.affinity = a, !.port = p, !.address = s,
                        !.metrics = {DISK_BUSY_TIME}] :
       i \in {Missing, 0, 1, 500, 2000, 3000},
       w \in {Missing, 1, 2, 3, 1000, 1001, 2400, 6001, 2 * UintMod, 2 * UintMod + 600},
       a \in {[kind |-> "none", items |-> {}], [kind |-> "all", items |-> {}], List({}),
              List({Entry(0, 1)}), List({Entry(1, 1), Entry(2, 3)}),
              List({Entry(1, 1), Entry(3, 4)}), List({Entry(0, 0), Entry(1, 0)})},
       p \in {Missing, 0, 8080},
       s \in {"", "nowhere", "10.0.0.1"}}

\* Files that name metrics: none that is usable (so all of them), those of one collector, a mixture.
MCMetricTables ==
    {[EmptyTable EXCEPT !.metrics = m] :
       m \in {{UNSPECIFIED}, {CPU_POWER_PACKAGE}, {CPU_UTILIZATION, UNSPECIFIED}, {RAM_USED},
              GpuTypes, {GPU_SHARED_MEMORY_UTILIZATION}, {GPU_UTILIZATION, GPU_POWER, -7}}}

MCTables == MCStartTables \cup MCMetricTables

\* One GPU whose PCI domain fits BufferKey and one whose domain does not.
MCGpuIds == {<<1, 2, 3, 0>>, <<65536, 2, 3, 0>>}

\* MemAvailable may be missing from the file, and the file may be unreadable.
MCMemInfos == {[total |-> 3, available |-> 1], [total |-> 3, available |-> 0], [total |-> 0, available |-> 0]}

MCTicks == {[energy |-> 1, busy |-> 1, idle |-> 1, iowait |-> 2],
            [energy |-> 3, busy |-> 0, idle |-> 0, iowait |-> -1],
            [energy |-> 0, busy |-> 0, idle |-> 0, iowait |-> 0]}

=============================================================================
