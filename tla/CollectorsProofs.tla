-------------------------- MODULE CollectorsProofs --------------------------
(***************************************************************************)
(* For every configuration file, every hardware and any number of rounds:  *)
(* the collector of NVIDIA GPUs gives back each reference it takes on the  *)
(* NVML library, the configuration the agent runs with is sound, a round   *)
(* delivers each requested metric once or reports its failure, the energy  *)
(* delivered adds up to what the register counted, a metric keeps the      *)
(* device it was read from, and a utilization stays between 0 and 1 while  *)
(* the counters it is computed from go forward.                            *)
(***************************************************************************)
EXTENDS Collectors, SequenceTheorems, TLAPS

\* The calls made before the collector is initialised, and those made after.
Opening == {"load", "init", "count", "handle", "pci", "shutdown"}
Holding == {"count", "handle", "pci", "shutdown"}
Asking  == {"power", "temperature", "utilization", "memory"}

LEMMA QueryNames == DOMAIN Queries = Asking
BY DEF Queries, Asking

\* NvmlBalanced is not inductive: Init must only ever run on a collector that is
\* not initialised, which is so because the loop of Run visits it once.
NvmlInv ==
    /\ initialized \in [Names -> BOOLEAN]
    /\ call \in {"none"} \cup Opening \cup Asking
    /\ refs = IF initialized["nvml"] \/ call \in Holding THEN 1 ELSE 0
    /\ call # "none" => "nvml" \in todo
    /\ call \in Opening => phase \in {"resolve", "init"} /\ ~initialized["nvml"]
    /\ call = "pci" => phase = "init"
    /\ call \in Asking => phase = "round" /\ initialized["nvml"]
    /\ phase \in {"load", "resolve"} => ~initialized["nvml"]
    /\ phase = "init" /\ "nvml" \in todo => ~initialized["nvml"]

\* What every step but those of the library calls leaves alone.
LEMMA NvmlFrame ==
  ASSUME NvmlInv, initialized' \in [Names -> BOOLEAN],
         initialized'["nvml"] = initialized["nvml"],
         UNCHANGED <<refs, call, phase>>,
         "nvml" \in todo' <=> "nvml" \in todo
  PROVE  NvmlInv'
BY DEF NvmlInv

LEMMA NvmlInit0 == Init => NvmlInv
BY DEF Init, NvmlInv, Names, Opening, Holding, Asking

LEMMA NvmlStep == NvmlInv /\ [Next]_vars => NvmlInv'
<1> SUFFICES ASSUME NvmlInv, [Next]_vars PROVE NvmlInv'
  OBVIOUS
<1>1. CASE LoadConfigStep
  <2>1. /\ phase = "load" /\ phase' = "resolve" /\ todo' = Names
        /\ UNCHANGED <<initialized, refs, call>>
    BY <1>1 DEF LoadConfigStep, nvmlVars
  <2> QED BY <2>1 DEF NvmlInv, Names, Opening, Asking
<1>2. ASSUME NEW c \in Names, Resolve(c) PROVE NvmlInv'
  <2>1. /\ todo' = todo \ {c} /\ c # "nvml"
        /\ UNCHANGED <<initialized, refs, call, phase>>
    BY <1>2 DEF Resolve, nvmlVars
  <2> QED BY <2>1, NvmlFrame DEF NvmlInv
<1>3. ASSUME NEW c \in Names, InitCollector(c) PROVE NvmlInv'
  <2>1. /\ todo' = todo \ {c} /\ c # "nvml" /\ "rapl" \in Names
        /\ UNCHANGED <<refs, call, phase>>
        /\ \/ initialized' = initialized
           \/ initialized' = [initialized EXCEPT ![c] = TRUE]
    BY <1>3 DEF InitCollector, InitRapl, nvmlVars, rateVars, Names
  <2> QED BY <2>1, NvmlFrame DEF NvmlInv, Names
<1>4. ASSUME NEW c \in Names, Collect(c) PROVE NvmlInv'
  <2>1. /\ todo' = todo \ {c} /\ c # "nvml"
        /\ UNCHANGED <<initialized, refs, call, phase>>
    BY <1>4 DEF Collect, nvmlVars
  <2> QED BY <2>1, NvmlFrame DEF NvmlInv
<1>5. CASE NvmlBegin
  BY <1>5 DEF NvmlBegin, NvmlInv, Return, Continue, Opening, Holding, Asking
<1>6. CASE TryLoadNvml
  BY <1>6 DEF TryLoadNvml, NvmlInv, Return, Continue, Opening, Holding, Asking
<1>7. CASE NvmlInit
  <2>1. call = "init" /\ UNCHANGED <<initialized, phase>>
    BY <1>7 DEF NvmlInit
  <2>2. \/ refs' = refs + 1 /\ call' \in {"count", "handle"} /\ todo' = todo
        \/ refs' = refs /\ call' = "none"
    BY <1>7 DEF NvmlInit, nvmlInit, Return, Continue
  <2> QED BY <2>1, <2>2 DEF NvmlInv, Opening, Holding, Asking
<1>8. CASE NvmlCount
  BY <1>8 DEF NvmlCount, nvmlDeviceGet, NvmlInv, Continue, Opening, Holding, Asking
<1>9. CASE NvmlHandle
  BY <1>9 DEF NvmlHandle, nvmlDeviceGet, NvmlInv, Continue, Opening, Holding, Asking
<1>10. CASE NvmlPci
  <2>1. call = "pci" /\ UNCHANGED <<refs, phase>>
    BY <1>10 DEF NvmlPci, nvmlDeviceGet
  <2>2. \/ /\ initialized' = [initialized EXCEPT !["nvml"] = TRUE]
           /\ call' = "none" /\ todo' = todo \ {"nvml"}
        \/ initialized' = initialized /\ call' = "shutdown" /\ todo' = todo
    BY <1>10 DEF NvmlPci, Return, Continue
  <2>3. initialized' \in [Names -> BOOLEAN]
    BY <2>2 DEF NvmlInv
  <2>4. call' = "none" => initialized'["nvml"]
    BY <2>2 DEF NvmlInv, Names
  <2>5. /\ call' = "none" => "nvml" \notin todo'
        /\ call' = "shutdown" => initialized' = initialized /\ todo' = todo
        /\ call' \in {"none", "shutdown"}
    BY <2>2
  <2>6. refs = 1 /\ phase = "init"
    BY <2>1 DEF NvmlInv, Opening, Holding
  <2>7. CASE call' = "none"
    BY <2>1, <2>3, <2>4, <2>5, <2>6, <2>7 DEF NvmlInv, Opening, Holding, Asking
  <2>8. CASE call' = "shutdown"
    BY <2>1, <2>5, <2>6, <2>8 DEF NvmlInv, Opening, Holding, Asking
  <2> QED BY <2>5, <2>7, <2>8
<1>11. CASE NvmlShutdown
  BY <1>11 DEF NvmlShutdown, nvmlShutdown, NvmlInv, Return, Opening, Holding, Asking
<1>12. CASE NvmlCollect
  <2>1. call \in Asking
    BY <1>12, QueryNames DEF NvmlCollect
  <2>2. UNCHANGED <<refs, phase, initialized>>
    BY <1>12 DEF NvmlCollect, nvmlDeviceGet
  <2>3. \/ call = "memory" /\ call' = "none"
        \/ call # "memory" /\ call' = After[call] /\ todo' = todo
    BY <1>12 DEF NvmlCollect, Return, Continue
  <2>4. call # "memory" => After[call] \in Asking
    BY <2>1 DEF After, Asking
  <2> QED BY <2>1, <2>2, <2>3, <2>4 DEF NvmlInv, Opening, Holding, Asking
<1>13. CASE MakeBuffer
  BY <1>13 DEF MakeBuffer, LoopDone, NvmlInv, nvmlVars, Opening, Holding, Asking
<1>14. CASE FirstRound
  BY <1>14 DEF FirstRound, LoopDone, NvmlInv, nvmlVars, Opening, Holding, Asking
<1>15. CASE Sleep
  BY <1>15 DEF Sleep, LoopDone, NvmlInv, nvmlVars, Opening, Holding, Asking
<1>16. ASSUME Destroy, call = "none" PROVE NvmlInv'
  BY <1>16 DEF Destroy, nvmlShutdown, NvmlInv, Names, Opening, Holding, Asking
<1>17. CASE Exit
  BY <1>16, <1>17 DEF Exit, LoopDone
<1>18. CASE Throw
  BY <1>16, <1>18 DEF Throw
<1>19. CASE UNCHANGED vars
  BY <1>19, NvmlFrame DEF NvmlInv, vars, nvmlVars
<1> QED
  BY <1>1, <1>2, <1>3, <1>4, <1>5, <1>6, <1>7, <1>8, <1>9, <1>10, <1>11, <1>12, <1>13,
     <1>14, <1>15, <1>17, <1>18, <1>19 DEF Next, Nvml

\* However the driver fails, on whichever of the paths through IsSupported, Init
\* and the destructor of NvmlCollector, each nvmlInit is followed by exactly one
\* nvmlShutdown, and Collect only asks while the library is initialised.
THEOREM NvmlAlwaysBalanced == Spec => []NvmlBalanced
<1>1. NvmlInv => NvmlBalanced
  BY QueryNames DEF NvmlInv, NvmlBalanced, Opening, Holding, Asking
<1> QED BY <1>1, NvmlInit0, NvmlStep, PTL DEF Spec

-----------------------------------------------------------------------------
(* The configuration.  Each loader returns a configuration and leaves the  *)
(* fields of the others alone.                                             *)

LEMMA DivPositive == \A w, i \in Nat : i > 0 /\ w >= i => w \div i >= 1
OBVIOUS

LEMMA HalfAtLeast == \A w \in Int : \A i \in Nat : w > 2 * i => w \div 2 \in Nat /\ w \div 2 >= i
OBVIOUS

\* Two configurations that agree on what the properties look at.
Same(c, d) == d.interval = c.interval /\ d.window = c.window /\ d.affinity = c.affinity

\* The assignment of one field.
LEMMA Update ==
  ASSUME NEW c \in Config
  PROVE  /\ \A x \in Nat : LET d == [c EXCEPT !.interval = x] IN
              d \in Config /\ d.window = c.window /\ d.affinity = c.affinity
         /\ \A x \in Nat : LET d == [c EXCEPT !.window = x] IN
              d \in Config /\ d.interval = c.interval /\ d.window = x /\ d.affinity = c.affinity
         /\ \A x \in SUBSET Cpus : LET d == [c EXCEPT !.affinity = x] IN
              d \in Config /\ d.interval = c.interval /\ d.window = c.window /\ d.affinity = x
         /\ \A x \in GoodAddresses : LET d == [c EXCEPT !.address = x] IN d \in Config /\ Same(c, d)
         /\ \A x \in 1 .. MaxPort : LET d == [c EXCEPT !.port = x] IN d \in Config /\ Same(c, d)
         /\ \A x \in SUBSET MetricTypes : LET d == [c EXCEPT !.metrics = x] IN
              d \in Config /\ Same(c, d)
<1> DEFINE N == Nat
           S == {"localhost"} \cup GoodAddresses
           P == 1 .. MaxPort
           F == SUBSET Cpus
           M == SUBSET (MetricTypes \cup {UNSPECIFIED})
<1>1. Config = [interval : N, window : N, address : S, port : P, affinity : F, metrics : M]
  BY DEF Config
<1>2. SUBSET MetricTypes \subseteq M /\ GoodAddresses \subseteq S
  OBVIOUS
<1> HIDE DEF N, S, P, F, M
<1>3. \A x \in N : LET d == [c EXCEPT !.interval = x] IN
        d \in Config /\ d.window = c.window /\ d.affinity = c.affinity
  BY <1>1
<1>4. \A x \in N : LET d == [c EXCEPT !.window = x] IN
        d \in Config /\ d.interval = c.interval /\ d.window = x /\ d.affinity = c.affinity
  BY <1>1
<1>5. \A x \in F : LET d == [c EXCEPT !.affinity = x] IN
        d \in Config /\ d.interval = c.interval /\ d.window = c.window /\ d.affinity = x
  BY <1>1
<1>6. \A x \in S : LET d == [c EXCEPT !.address = x] IN d \in Config /\ Same(c, d)
  BY <1>1 DEF Same
<1>7. \A x \in P : LET d == [c EXCEPT !.port = x] IN d \in Config /\ Same(c, d)
  BY <1>1 DEF Same
<1>8. \A x \in M : LET d == [c EXCEPT !.metrics = x] IN d \in Config /\ Same(c, d)
  BY <1>1 DEF Same
<1> QED BY <1>2, <1>3, <1>4, <1>5, <1>6, <1>7, <1>8 DEF N, S, P, F

LEMMA AffinityLoader ==
  ASSUME NEW t \in Table, NEW c \in Config
  PROVE  /\ LoadCoreAffinity(t, c) \in Config
         /\ LoadCoreAffinity(t, c).interval = c.interval
         /\ LoadCoreAffinity(t, c).window = c.window
         /\ \/ LoadCoreAffinity(t, c).affinity = c.affinity
            \/ LoadCoreAffinity(t, c).affinity = Cpus
            \/ /\ t.affinity.kind = "list"
               /\ \A e \in t.affinity.items :
                    /\ e.from <= e.to
                    /\ e.from .. e.to \subseteq LoadCoreAffinity(t, c).affinity
<1> DEFINE good == t.affinity.kind = "list" /\ \A e \in t.affinity.items : AddRange(e)
           cpus == UNION {e.from .. e.to : e \in t.affinity.items}
<1>1. t.affinity.items \subseteq [from : Nat, to : Nat]
  BY DEF Table
<1>2. good => cpus \subseteq Cpus
  <2> SUFFICES ASSUME good, NEW e \in t.affinity.items, NEW i \in e.from .. e.to
               PROVE  i \in Cpus
    OBVIOUS
  <2>1. e.from \in Nat /\ e.to \in Nat /\ e.to < NumCpus
    BY <1>1 DEF AddRange
  <2> QED BY <2>1, CpuAssumption DEF Cpus
<1>3. \/ LoadCoreAffinity(t, c) = c
      \/ LoadCoreAffinity(t, c) = [c EXCEPT !.affinity = Cpus]
      \/ good /\ LoadCoreAffinity(t, c) = [c EXCEPT !.affinity = cpus]
  BY DEF LoadCoreAffinity
<1>4. \A e \in t.affinity.items : e.from .. e.to \subseteq cpus
  OBVIOUS
<1>5. good => \A e \in t.affinity.items : e.from <= e.to
  BY DEF AddRange
<1> HIDE DEF cpus, good
<1>6. CASE LoadCoreAffinity(t, c) = c
  BY <1>6
<1>7. CASE LoadCoreAffinity(t, c) = [c EXCEPT !.affinity = Cpus]
  BY <1>7, Update
<1>8. CASE good /\ LoadCoreAffinity(t, c) = [c EXCEPT !.affinity = cpus]
  <2>1. cpus \in SUBSET Cpus
    BY <1>2, <1>8
  <2>2. t.affinity.kind = "list"
    BY <1>8 DEF good
  <2>3. /\ [c EXCEPT !.affinity = cpus] \in Config
        /\ [c EXCEPT !.affinity = cpus].interval = c.interval
        /\ [c EXCEPT !.affinity = cpus].window = c.window
        /\ [c EXCEPT !.affinity = cpus].affinity = cpus
    BY <2>1, Update
  <2> QED BY <1>4, <1>5, <1>8, <2>2, <2>3
<1> QED BY <1>3, <1>6, <1>7, <1>8

LEMMA IntervalLoader ==
  ASSUME NEW t \in Table, NEW c \in Config
  PROVE  /\ LoadInterval(t, c) \in Config
         /\ LoadInterval(t, c).window = c.window
         /\ LoadInterval(t, c).affinity = c.affinity
<1>1. t.interval \in Int
  BY DEF Table
<1> QED BY <1>1, Update DEF LoadInterval

LEMMA WindowLoader ==
  ASSUME NEW t \in Table, NEW c \in Config
  PROVE  /\ LoadTimeWindow(t, c) \in Config
         /\ LoadTimeWindow(t, c).interval = c.interval
         /\ LoadTimeWindow(t, c).affinity = c.affinity
         /\ \/ LoadTimeWindow(t, c).window = c.window
            \/ LoadTimeWindow(t, c).window >= c.interval
            \/ t.window \div 2 >= UintMod
<1>1. c.interval \in Nat
  BY DEF Config
<1>2. t.window \in Int
  BY DEF Table
<1>3. t.window > 2 * c.interval => t.window \div 2 \in Nat /\ t.window \div 2 >= c.interval
  BY <1>1, <1>2, HalfAtLeast
<1> DEFINE w == t.window \div 2
<1>4. w \in Nat => w % UintMod \in Nat /\ (w < UintMod => w % UintMod = w)
  BY UintAssumption
<1>5. w \in Nat => w < UintMod \/ w >= UintMod
  BY UintAssumption
<1> HIDE DEF w
<1>6. CASE t.window > 2 * c.interval
  <2>1. w \in Nat /\ w >= c.interval
    BY <1>3, <1>6 DEF w
  <2>2. LoadTimeWindow(t, c) = [c EXCEPT !.window = w % UintMod]
    BY <1>6 DEF LoadTimeWindow, w
  <2>3. /\ LoadTimeWindow(t, c) \in Config
        /\ LoadTimeWindow(t, c).interval = c.interval
        /\ LoadTimeWindow(t, c).affinity = c.affinity
        /\ LoadTimeWindow(t, c).window = w % UintMod
    BY <1>4, <2>1, <2>2, Update
  <2> QED BY <1>4, <1>5, <2>1, <2>3 DEF w
<1>7. CASE ~(t.window > 2 * c.interval)
  BY <1>7 DEF LoadTimeWindow
<1> QED BY <1>6, <1>7

LEMMA OtherLoaders ==
  ASSUME NEW t \in Table, NEW c \in Config
  PROVE  LET d == LoadMetrics(t, LoadServerPort(t, LoadServerAddress(t, c))) IN
         d \in Config /\ Same(c, d)
<1> DEFINE a == LoadServerAddress(t, c)
           b == LoadServerPort(t, a)
           d == LoadMetrics(t, b)
<1>1. a \in Config /\ Same(c, a)
  BY Update DEF LoadServerAddress, Same
<1> HIDE DEF a
<1>2. b \in Config /\ Same(a, b)
  BY <1>1, Update DEF LoadServerPort, Same
<1> HIDE DEF b
<1>3. d \in Config /\ Same(b, d)
  <2>1. t.metrics \cap MetricTypes \in SUBSET MetricTypes
    OBVIOUS
  <2> QED BY <1>2, <2>1, Update DEF LoadMetrics, Same
<1> QED BY <1>1, <1>2, <1>3 DEF a, b, Same

LEMMA DefaultConfig == LoadDefaultConfig \in Config
<1>1. MaxPort \in Int /\ MaxPort >= 5000
  BY DEF MaxPort
<1>2. 5000 \in 1 .. MaxPort
  BY <1>1
<1> DEFINE N == Nat
           S == {"localhost"} \cup GoodAddresses
           P == 1 .. MaxPort
           F == SUBSET Cpus
           m == MetricTypes \cup {UNSPECIFIED}
           M == SUBSET m
<1>3. 500 \in N /\ 2000 \in N /\ 5000 \in P /\ Cpus \in F /\ m \in M
  BY <1>2
<1>4. "localhost" \in S
  OBVIOUS
<1> HIDE DEF N, S, P, F, M
<1>5. LoadDefaultConfig \in [interval : N, window : N, address : S, port : P,
                            affinity : F, metrics : M]
  <2> HIDE DEF m
  <2>1. LoadDefaultConfig =
          [interval |-> 500, window |-> 2000, address |-> "localhost", port |-> 5000,
           affinity |-> Cpus, metrics |-> m]
    BY DEF LoadDefaultConfig, m
  <2> QED BY <1>3, <1>4, <2>1
<1> QED BY <1>5 DEF Config, N, S, P, F, M

\* What LoadConfig makes of any file.
LEMMA Loaded ==
  ASSUME NEW t \in Table
  PROVE  /\ LoadConfig(t) \in Config
         /\ \/ LoadConfig(t).window = LoadDefaultConfig.window
            \/ LoadConfig(t).window >= LoadConfig(t).interval
            \/ t.window \div 2 >= UintMod
         /\ LoadConfig(t).affinity = Cpus
              \/ \A e \in t.affinity.items :
                   e.from <= e.to /\ e.from .. e.to \subseteq LoadConfig(t).affinity
<1> DEFINE c0 == LoadDefaultConfig
           c1 == LoadCoreAffinity(t, c0)
           c2 == LoadInterval(t, c1)
           c3 == LoadTimeWindow(t, c2)
           c4 == LoadMetrics(t, LoadServerPort(t, LoadServerAddress(t, c3)))
<1>1. c0 \in Config /\ c0.affinity = Cpus
  BY DefaultConfig DEF LoadDefaultConfig
<1> HIDE DEF c0
<1>2. /\ c1 \in Config /\ c1.window = c0.window
      /\ \/ c1.affinity = Cpus
         \/ \A e \in t.affinity.items : e.from <= e.to /\ e.from .. e.to \subseteq c1.affinity
  BY <1>1, AffinityLoader
<1> HIDE DEF c1
<1>3. c2 \in Config /\ c2.window = c1.window /\ c2.affinity = c1.affinity
  BY <1>2, IntervalLoader
<1> HIDE DEF c2
<1>4. /\ c3 \in Config /\ c3.interval = c2.interval /\ c3.affinity = c2.affinity
      /\ c3.window = c2.window \/ c3.window >= c2.interval \/ t.window \div 2 >= UintMod
  BY <1>3, WindowLoader
<1> HIDE DEF c3
<1>5. c4 \in Config /\ Same(c3, c4)
  BY <1>4, OtherLoaders
<1>6. LoadConfig(t) = c4
  BY DEF LoadConfig, LoadConfigFile, c0, c1, c2, c3
<1> HIDE DEF c4
<1> QED BY <1>2, <1>3, <1>4, <1>5, <1>6 DEF c0, Same

\* The table and, once loaded, the configuration stay what they are.
ConfigInv ==
    /\ tbl \in Tables
    /\ config = IF phase = "load" THEN LoadDefaultConfig ELSE LoadConfig(tbl)
    /\ mask \in {Cpus, config.affinity}

LEMMA ConfigStep == ConfigInv /\ [Next]_vars => ConfigInv'
<1> SUFFICES ASSUME ConfigInv, [Next]_vars PROVE ConfigInv'
  OBVIOUS
<1>1. CASE LoadConfigStep
  <2>1. /\ phase = "load" /\ phase' = "resolve" /\ tbl' = tbl
        /\ config' = LoadConfig(tbl)
        /\ mask' \in {mask, config'.affinity}
    BY <1>1 DEF LoadConfigStep
  <2>2. mask = Cpus
    BY <2>1 DEF ConfigInv, LoadDefaultConfig
  <2> QED BY <2>1, <2>2 DEF ConfigInv
<1>2. CASE ~LoadConfigStep
  <2>1. UNCHANGED startVars /\ (phase' = "load" <=> phase = "load")
    BY <1>2 DEF Next, vars, Resolve, InitCollector, Collect, Nvml, NvmlBegin, TryLoadNvml, NvmlInit,
         NvmlCount, NvmlHandle, NvmlPci, NvmlShutdown, NvmlCollect, MakeBuffer, FirstRound, Sleep,
         Exit, Throw, Destroy, LoopDone
  <2> QED BY <2>1 DEF ConfigInv, startVars
<1> QED BY <1>1, <1>2

LEMMA ConfigAlways == Spec => []ConfigInv
<1>1. Init => ConfigInv
  BY DEF Init, ConfigInv
<1> QED BY <1>1, ConfigStep, PTL DEF Spec

\* Whatever else the file says, a time_window that fits 32 bits and that the agent
\* took from it gives each series a ring of at least one slot at the interval it
\* collects with.
THEOREM WindowAlwaysHoldsASample == Spec => []WindowHoldsASample
<1>1. ConfigInv => WindowHoldsASample
  <2> SUFFICES ASSUME ConfigInv, phase # "load", config.interval > 0,
                      config.window # LoadDefaultConfig.window, tbl.window \div 2 < UintMod
               PROVE  config.window \div config.interval >= 1
    BY DEF WindowHoldsASample, CapacityPerSeries
  <2>0. tbl \in Table /\ ~(tbl.window \div 2 >= UintMod)
    <3>1. tbl \in Table /\ tbl.window \in Int
      BY TableAssumption DEF ConfigInv, Table
    <3>2. tbl.window \div 2 \in Int
      BY <3>1
    <3> QED BY <3>1, <3>2, UintAssumption
  <2>1. config \in Config /\ config.window >= config.interval
    BY <2>0, Loaded DEF ConfigInv
  <2>2. config.window \in Nat /\ config.interval \in Nat
    BY <2>1 DEF Config
  <2> QED BY <2>1, <2>2, DivPositive
<1> QED BY <1>1, ConfigAlways, PTL

\* For every list of CPUs: LoadCoreAffinity takes it whole or not at all, and the
\* process runs on the CPUs it had or on those of the configuration.
THEOREM AffinityAlwaysWhole == Spec => []AffinityAllOrNothing
<1>1. ConfigInv => AffinityAllOrNothing
  <2> SUFFICES ASSUME ConfigInv, config.affinity # Cpus
               PROVE  \A e \in tbl.affinity.items :
                        e.from <= e.to /\ e.from .. e.to \subseteq config.affinity
    BY DEF AffinityAllOrNothing, ConfigInv
  <2>1. phase # "load"
    BY DEF ConfigInv, LoadDefaultConfig
  <2> QED BY <2>1, Loaded, TableAssumption DEF ConfigInv
<1> QED BY <1>1, ConfigAlways, PTL

-----------------------------------------------------------------------------
(* The types                                                               *)

Hardware == [energy : Nat, busy : Nat, idle : Nat, iowait : Nat]
NoGpu == <<0, 0, 0, 0>>

\* What TypeOK says beyond NvmlInv and ConfigInv, and the types of the hardware
\* and of the counters kept from it.
Kinds ==
    /\ phase \in {"load", "resolve", "init", "round", "ended", "crashed"}
    /\ rounds \in 0 .. MaxRounds
    /\ todo \in SUBSET Names
    /\ active \in SUBSET Names
    /\ requested \in [Names -> SUBSET MetricTypes]
    /\ loaded \in BOOLEAN
    /\ result \in BOOLEAN
    /\ gpu \in GpuIds \cup {NoGpu}
    /\ last \in 0 .. EnergyMod - 1
    /\ failed \in SUBSET MetricTypes
    /\ hw \in Hardware
    /\ reported \in Int

\* A collector satisfies types of its own.
LEMMA SatisfiableTypes == \A c \in Names : Satisfiable(c) \in SUBSET MetricTypes
BY DEF Names, Satisfiable, GpuTypes, MetricTypes

\* A remainder is one.
LEMMA ModType == \A a \in Int : a % EnergyMod \in 0 .. EnergyMod - 1
BY CounterAssumption

\* What a sleep does to each counter of the hardware.
LEMMA Slept ==
  ASSUME hw \in Hardware, NEW t \in Ticks, hw.iowait + t.iowait >= 0,
         hw' = [f \in DOMAIN hw |-> hw[f] + t[f]]
  PROVE  /\ hw' \in Hardware
         /\ hw'.energy = hw.energy + t.energy
         /\ hw'.busy = hw.busy + t.busy /\ t.busy \in Nat
         /\ hw'.idle = hw.idle + t.idle
         /\ hw'.iowait = hw.iowait + t.iowait
<1>1. t \in [energy : Nat, busy : Nat, idle : Nat, iowait : Int]
  BY CounterAssumption
<1>2. DOMAIN hw = {"energy", "busy", "idle", "iowait"}
  BY DEF Hardware
<1>3. hw' = [energy |-> hw.energy + t.energy, busy |-> hw.busy + t.busy,
             idle |-> hw.idle + t.idle, iowait |-> hw.iowait + t.iowait]
  BY <1>2
<1>4. /\ hw.energy \in Nat /\ hw.busy \in Nat /\ hw.idle \in Nat /\ hw.iowait \in Nat
      /\ t.energy \in Nat /\ t.busy \in Nat /\ t.idle \in Nat /\ t.iowait \in Int
  BY <1>1 DEF Hardware
<1> QED BY <1>3, <1>4 DEF Hardware

\* The loop of Resolve takes a collector with the types it is asked for, or not.
LEMMA ActivateEffect ==
  ASSUME NEW c \in Names, NEW supported, Activate(c, supported)
  PROVE  \/ UNCHANGED <<active, requested>>
         \/ /\ Satisfiable(c) \cap config.metrics # {}
            /\ active' = active \cup {c}
            /\ requested' = [requested EXCEPT ![c] = Satisfiable(c) \cap config.metrics]
BY DEF Activate

\* So do the library calls, which leave the rest to the loops.
LEMMA NvmlEffect ==
  ASSUME Nvml
  PROVE  /\ todo' \in {todo, todo \ {"nvml"}}
         /\ UNCHANGED <<startVars, phase, rounds, rateVars, hw>>
         /\ \/ UNCHANGED <<active, requested>>
            \/ phase = "resolve" /\ \E r : Activate("nvml", r)
BY DEF Nvml, NvmlBegin, TryLoadNvml, NvmlInit, NvmlCount, NvmlHandle, NvmlPci, NvmlShutdown,
       NvmlCollect, Return, Continue

LEMMA KindsInit == Init => Kinds
<1> SUFFICES ASSUME Init PROVE Kinds
  OBVIOUS
<1>1. hw \in Hardware
  BY DEF Init, Hardware
<1>2. rounds \in 0 .. MaxRounds /\ last \in 0 .. EnergyMod - 1 /\ reported \in Int
  BY CounterAssumption DEF Init
<1>3. requested \in [Names -> SUBSET MetricTypes]
  BY DEF Init
<1> QED BY <1>1, <1>2, <1>3 DEF Init, Kinds, NoGpu

\* What the loop of Resolve makes of the collectors has the right type.
LEMMA ActivateKinds ==
  ASSUME Kinds, NEW c \in Names, NEW r, Activate(c, r) \/ UNCHANGED <<active, requested>>
  PROVE  active' \in SUBSET Names /\ requested' \in [Names -> SUBSET MetricTypes]
<1>1. CASE UNCHANGED <<active, requested>>
  BY <1>1 DEF Kinds
<1>2. CASE /\ active' = active \cup {c}
           /\ requested' = [requested EXCEPT ![c] = Satisfiable(c) \cap config.metrics]
  <2>1. Satisfiable(c) \cap config.metrics \in SUBSET MetricTypes
    BY SatisfiableTypes
  <2> HIDE DEF Names, MetricTypes, Satisfiable
  <2> QED BY <1>2, <2>1 DEF Kinds
<1> QED BY <1>1, <1>2, ActivateEffect

\* A reading of the register, and what Collect of RaplCollector adds up.
LEMMA ReadType ==
  ASSUME Kinds
  PROVE  ReadMSR \in 0 .. EnergyMod - 1 /\ reported + ReadMSR - last \in Int
<1>1. hw.energy \in Nat /\ EnergyStart \in Nat
  BY CounterAssumption DEF Kinds, Hardware
<1>2. ReadMSR \in 0 .. EnergyMod - 1
  BY <1>1, ModType DEF ReadMSR
<1> HIDE DEF ReadMSR
<1> QED BY <1>2, CounterAssumption DEF Kinds

LEMMA KindsStep == Kinds /\ [Next]_vars => Kinds'
<1> SUFFICES ASSUME Kinds, [Next]_vars PROVE Kinds'
  OBVIOUS
<1> HIDE DEF Names, MetricTypes, NoGpu, Hardware
<1>1. CASE LoadConfigStep
  BY <1>1 DEF LoadConfigStep, Kinds, nvmlVars, rateVars, roundVars
<1>2. ASSUME NEW c \in Names, Resolve(c) PROVE Kinds'
  <2>1. active' \in SUBSET Names /\ requested' \in [Names -> SUBSET MetricTypes]
    BY <1>2, ActivateKinds DEF Resolve
  <2> QED BY <1>2, <2>1 DEF Resolve, Kinds, nvmlVars, rateVars, roundVars
<1>3. ASSUME NEW c \in Names, InitCollector(c) PROVE Kinds'
  <2>1. last' \in {last, ReadMSR} /\ reported' = reported
    BY <1>3 DEF InitCollector, InitRapl, rateVars
  <2>2. last' \in 0 .. EnergyMod - 1
    BY <2>1, ReadType DEF Kinds
  <2> QED BY <1>3, <2>1, <2>2 DEF InitCollector, Kinds, nvmlVars, roundVars
<1>4. ASSUME NEW c \in Names, Collect(c) PROVE Kinds'
  <2>1. \/ last' = last /\ reported' = reported
        \/ last' = ReadMSR /\ reported' = reported + ReadMSR - last
    BY <1>4 DEF Collect, CollectRapl, CollectStat, CollectRam, rateVars
  <2>2. last' \in 0 .. EnergyMod - 1 /\ reported' \in Int
    BY <2>1, ReadType DEF Kinds
  <2>3. failed' \in {failed, failed \cup {CPU_POWER_PACKAGE}}
    BY <1>4 DEF Collect, CollectRapl, CollectStat, CollectRam
  <2>4. failed' \in SUBSET MetricTypes
    BY <2>3 DEF Kinds, MetricTypes
  <2> QED BY <1>4, <2>2, <2>4 DEF Collect, Kinds, nvmlVars
<1>5. CASE Nvml
  <2>1. /\ todo' \in {todo, todo \ {"nvml"}}
        /\ UNCHANGED <<startVars, phase, rounds, rateVars, hw>>
    BY <1>5, NvmlEffect
  <2>2. "nvml" \in Names
    BY DEF Names
  <2>3. active' \in SUBSET Names /\ requested' \in [Names -> SUBSET MetricTypes]
    BY <1>5, <2>2, NvmlEffect, ActivateKinds
  <2>4. loaded' \in BOOLEAN
    BY <1>5 DEF Kinds, Nvml, NvmlBegin, TryLoadNvml, NvmlInit, NvmlCount, NvmlHandle, NvmlPci,
         NvmlShutdown, NvmlCollect
  <2>5. result' \in BOOLEAN
    BY <1>5 DEF Kinds, Nvml, NvmlBegin, TryLoadNvml, NvmlInit, NvmlCount, NvmlHandle, NvmlPci,
         NvmlShutdown, NvmlCollect
  <2>6. gpu' \in GpuIds \cup {NoGpu}
    BY <1>5 DEF Kinds, Nvml, NvmlBegin, TryLoadNvml, NvmlInit, NvmlCount, NvmlHandle, NvmlPci,
         NvmlShutdown, NvmlCollect
  <2>7. \/ failed' = failed
        \/ failed' = failed \cup requested["nvml"]
        \/ failed' = failed \cup (Queries[call] \cap requested["nvml"])
    BY <1>5 DEF Nvml, NvmlBegin, TryLoadNvml, NvmlInit, NvmlCount, NvmlHandle, NvmlPci,
         NvmlShutdown, NvmlCollect, roundVars
  <2>8. failed' \in SUBSET MetricTypes
    BY <2>2, <2>7 DEF Kinds
  <2> QED BY <2>1, <2>3, <2>4, <2>5, <2>6, <2>8 DEF Kinds, rateVars
<1>6. CASE MakeBuffer \/ FirstRound
  BY <1>6 DEF MakeBuffer, FirstRound, Kinds, nvmlVars, rateVars, roundVars
<1>7. CASE Sleep
  <2>1. PICK t \in Ticks : hw.iowait + t.iowait >= 0 /\ hw' = [f \in DOMAIN hw |-> hw[f] + t[f]]
    BY <1>7 DEF Sleep
  <2>2. hw' \in Hardware
    BY <2>1, Slept DEF Kinds
  <2>3. rounds' \in 0 .. MaxRounds
    BY <1>7, CounterAssumption DEF Sleep, Kinds
  <2> QED BY <1>7, <2>2, <2>3 DEF Sleep, Kinds, nvmlVars, rateVars
<1>8. CASE Exit \/ Throw
  BY <1>8 DEF Exit, Throw, Destroy, Kinds, rateVars, roundVars
<1>9. CASE UNCHANGED vars
  BY <1>9 DEF Kinds, vars, nvmlVars, rateVars, roundVars
<1> QED BY <1>1, <1>2, <1>3, <1>4, <1>5, <1>6, <1>7, <1>8, <1>9 DEF Next

LEMMA KindsAlways == Spec => []Kinds
BY KindsInit, KindsStep, PTL DEF Spec

LEMMA NvmlAlways == Spec => []NvmlInv
BY NvmlInit0, NvmlStep, PTL DEF Spec

\* Every variable of the agent's main thread keeps its type: whatever the file
\* says, the configuration in force is a legal one.
THEOREM CollectorsTypeCorrect == Spec => []TypeOK
<1>1. NvmlInv /\ ConfigInv /\ Kinds => TypeOK
  <2> SUFFICES ASSUME NvmlInv, ConfigInv, Kinds PROVE TypeOK
    OBVIOUS
  <2>1. tbl \in Table
    BY TableAssumption DEF ConfigInv
  <2>2. config \in Config
    BY <2>1, Loaded, DefaultConfig DEF ConfigInv
  <2>3. mask \in SUBSET Cpus
    BY <2>2 DEF ConfigInv, Config
  <2>4. refs \in Nat
    BY DEF NvmlInv
  <2>5. call \in {"none", "load", "init", "count", "handle", "pci", "shutdown"} \cup DOMAIN Queries
    BY QueryNames DEF NvmlInv, Opening, Asking
  <2> QED BY <2>2, <2>3, <2>4, <2>5 DEF TypeOK, NvmlInv, ConfigInv, Kinds, NoGpu
<1> QED BY <1>1, NvmlAlways, ConfigAlways, KindsAlways, PTL

-----------------------------------------------------------------------------
(* The energy                                                              *)

\* A multiple of the register's range leaves no remainder.
LEMMA ModMultiple == \A k \in Int : (k * EnergyMod) % EnergyMod = 0
BY CounterAssumption

\* The difference of what the register shows before and after e units, in either
\* direction, is e but for multiples of its range.
LEMMA Telescope ==
  ASSUME NEW s \in Nat, NEW e \in Nat
  PROVE  (e - (((s + e) % EnergyMod) - (s % EnergyMod))) % EnergyMod = 0
<1> DEFINE M == EnergyMod
           p == (s + e) \div M
           q == s \div M
<1>1. M \in Nat /\ M > 0
  BY CounterAssumption
<1>2. p \in Int /\ q \in Int
  BY <1>1
<1>3. s + e = p * M + ((s + e) % M)
  BY <1>1
<1>4. s = q * M + (s % M)
  BY <1>1
<1>5. (s + e) % M \in Int /\ s % M \in Int
  BY <1>1
<1>6. ((s + e) % M) - (s % M) = e - (p - q) * M
  <2> HIDE DEF p, q, M
  <2> QED BY <1>1, <1>2, <1>3, <1>4, <1>5
<1>7. e - (((s + e) % M) - (s % M)) = (p - q) * M
  <2> HIDE DEF p, q, M
  <2> QED BY <1>1, <1>2, <1>5, <1>6
<1> QED BY <1>2, <1>7, ModMultiple

-----------------------------------------------------------------------------
(* A round                                                                 *)

\* The types of the queries that come before a query of NvmlCollector::Collect.
Before == [power |-> {}, temperature |-> {GPU_POWER}, utilization |-> {GPU_POWER, GPU_TEMPERATURE},
           memory |-> {GPU_POWER, GPU_TEMPERATURE, GPU_UTILIZATION, GPU_SHARED_MEMORY_UTILIZATION}]

\* What the round has dealt with so far, a collector that is in the middle of its
\* queries included.
Served == IF call \in Asking THEN Before[call] \cap requested["nvml"] ELSE {}
Visited == UNION {requested[c] : c \in active \ todo}
Done == Visited \cup Served
IsSeq(s) == \E S : s \in Seq(S)
TypesOf(s) == {s[i].type : i \in DOMAIN s}
OnePerType(s) == \A i, j \in DOMAIN s : s[i].type = s[j].type => i = j

\* A vector that holds one metric of each of the given types, all of one device.
Vector(s, types, dev) ==
    /\ IsSeq(s)
    /\ TypesOf(s) = types
    /\ OnePerType(s)
    /\ \A i \in DOMAIN s : s[i].dev = dev

\* RoundComplete while the round is still going on, and why the request of each
\* collector is what the configuration asks of it.
RoundInv ==
    /\ \A c \in active : requested[c] = Satisfiable(c) \cap config.metrics /\ requested[c] # {}
    /\ phase = "load" => active = {}
    /\ phase \in {"init", "round"} => todo \subseteq active
    /\ phase \in {"load", "resolve", "init"} => got = <<>> /\ failed = {}
    /\ IsSeq(got)
    /\ phase = "round" => TypesOf(got) \cup failed = Done /\ TypesOf(got) \cap failed = {}
    /\ OnePerType(got)

\* No type is satisfied by two collectors.
LEMMA Disjoint == \A c, d \in Names : c # d => Satisfiable(c) \cap Satisfiable(d) = {}
BY DEF Names, Satisfiable, GpuTypes, CPU_POWER_PACKAGE, CPU_UTILIZATION, RAM_TOTAL, RAM_USED,
       GPU_VRAM_USED, GPU_UTILIZATION, GPU_SHARED_MEMORY_UTILIZATION, GPU_TEMPERATURE, GPU_POWER

\* Where the elements of a concatenation come from.
LEMMA Concat ==
  ASSUME NEW s, NEW r, IsSeq(s), IsSeq(r)
  PROVE  /\ IsSeq(s \o r)
         /\ DOMAIN s \subseteq DOMAIN (s \o r)
         /\ \A i \in DOMAIN s : (s \o r)[i] = s[i]
         /\ \A i \in DOMAIN (s \o r) \ DOMAIN s :
              i - Len(s) \in DOMAIN r /\ (s \o r)[i] = r[i - Len(s)]
         /\ \A i \in DOMAIN r :
              i + Len(s) \in DOMAIN (s \o r) /\ (s \o r)[i + Len(s)] = r[i]
         /\ Len(s) \in Nat /\ DOMAIN (s \o r) \subseteq Int
<1>1. PICK S : s \in Seq(S)
  BY DEF IsSeq
<1>2. PICK R : r \in Seq(R)
  BY DEF IsSeq
<1> DEFINE U == S \cup R
<1>3. s \in Seq(U) /\ r \in Seq(U)
  BY <1>1, <1>2
<1> HIDE DEF U
<1>4. /\ s \o r \in Seq(U) /\ Len(s \o r) = Len(s) + Len(r)
      /\ Len(s) \in Nat /\ Len(r) \in Nat
      /\ DOMAIN s = 1 .. Len(s) /\ DOMAIN r = 1 .. Len(r)
      /\ DOMAIN (s \o r) = 1 .. Len(s) + Len(r)
  BY <1>3
<1>5. IsSeq(s \o r)
  BY <1>4 DEF IsSeq
<1>6. \A i \in 1 .. Len(s) + Len(r) :
        (s \o r)[i] = IF i <= Len(s) THEN s[i] ELSE r[i - Len(s)]
  BY <1>3
<1>7. \A i \in DOMAIN (s \o r) \ DOMAIN s :
        i - Len(s) \in DOMAIN r /\ (s \o r)[i] = r[i - Len(s)]
  BY <1>4, <1>6
<1>8. \A i \in DOMAIN r :
        i + Len(s) \in DOMAIN (s \o r) /\ (s \o r)[i + Len(s)] = r[i]
  BY <1>4, <1>6
<1> QED BY <1>4, <1>5, <1>6, <1>7, <1>8

\* Vectors of different types one behind the other.
LEMMA ConcatTypes ==
  ASSUME NEW s, NEW r, IsSeq(s), IsSeq(r)
  PROVE  /\ TypesOf(s \o r) = TypesOf(s) \cup TypesOf(r)
         /\ OnePerType(s) /\ OnePerType(r) /\ TypesOf(s) \cap TypesOf(r) = {}
              => OnePerType(s \o r)
<1> DEFINE c == s \o r
           n == Len(s)
<1>1. /\ DOMAIN s \subseteq DOMAIN c /\ n \in Nat /\ DOMAIN c \subseteq Int
      /\ \A i \in DOMAIN s : c[i] = s[i]
      /\ \A i \in DOMAIN c \ DOMAIN s : i - n \in DOMAIN r /\ c[i] = r[i - n]
      /\ \A i \in DOMAIN r : i + n \in DOMAIN c /\ c[i + n] = r[i]
  <2>1. DOMAIN s \subseteq DOMAIN c /\ n \in Nat /\ DOMAIN c \subseteq Int
    BY Concat
  <2>2. \A i \in DOMAIN s : c[i] = s[i]
    BY Concat
  <2>3. \A i \in DOMAIN c \ DOMAIN s : i - n \in DOMAIN r /\ c[i] = r[i - n]
    BY Concat
  <2>4. \A i \in DOMAIN r : i + n \in DOMAIN c /\ c[i + n] = r[i]
    BY Concat
  <2> QED BY <2>1, <2>2, <2>3, <2>4
<1> HIDE DEF c, n
<1>2. \A t : t \in TypesOf(c) <=> t \in TypesOf(s) \/ t \in TypesOf(r)
  <2> TAKE t
  <2>1. ASSUME NEW i \in DOMAIN c, t = c[i].type PROVE t \in TypesOf(s) \/ t \in TypesOf(r)
    BY <1>1, <2>1 DEF TypesOf
  <2>2. ASSUME NEW i \in DOMAIN s, t = s[i].type PROVE t \in TypesOf(c)
    <3>1. i \in DOMAIN c /\ c[i].type = t
      BY <1>1, <2>2
    <3> QED BY <3>1 DEF TypesOf
  <2>3. ASSUME NEW i \in DOMAIN r, t = r[i].type PROVE t \in TypesOf(c)
    <3>1. i + n \in DOMAIN c /\ c[i + n].type = t
      BY <1>1, <2>3
    <3> QED BY <3>1 DEF TypesOf
  <2>4. /\ t \in TypesOf(c) => \E i \in DOMAIN c : t = c[i].type
        /\ t \in TypesOf(s) => \E i \in DOMAIN s : t = s[i].type
        /\ t \in TypesOf(r) => \E i \in DOMAIN r : t = r[i].type
    BY DEF TypesOf
  <2> QED BY <2>1, <2>2, <2>3, <2>4
<1>3. ASSUME OnePerType(s), OnePerType(r), TypesOf(s) \cap TypesOf(r) = {},
             NEW i \in DOMAIN c, NEW j \in DOMAIN c, c[i].type = c[j].type
      PROVE  i = j
  <2>1. \A k \in DOMAIN s : c[k].type \in TypesOf(s)
    BY <1>1 DEF TypesOf
  <2>2. \A k \in DOMAIN c \ DOMAIN s : c[k].type \in TypesOf(r)
    BY <1>1 DEF TypesOf
  <2>3. CASE i \in DOMAIN s /\ j \in DOMAIN s
    BY <1>1, <1>3, <2>3 DEF OnePerType
  <2>4. CASE i \notin DOMAIN s /\ j \notin DOMAIN s
    <3>1. /\ i - n \in DOMAIN r /\ j - n \in DOMAIN r
          /\ r[i - n].type = r[j - n].type
      BY <1>1, <1>3, <2>4
    <3>2. i - n = j - n
      BY <1>3, <3>1 DEF OnePerType
    <3>3. i \in Int /\ j \in Int /\ n \in Int
      BY <1>1
    <3> QED BY <3>2, <3>3
  <2> QED BY <1>3, <2>1, <2>2, <2>3, <2>4
<1>4. /\ TypesOf(c) = TypesOf(s) \cup TypesOf(r)
      /\ OnePerType(s) /\ OnePerType(r) /\ TypesOf(s) \cap TypesOf(r) = {} => OnePerType(c)
  BY <1>2, <1>3 DEF OnePerType
<1> QED BY <1>4 DEF c

\* Append adds a vector of one metric.
LEMMA AppendConcat ==
  ASSUME NEW s, NEW m, IsSeq(s)
  PROVE  Append(s, m) = s \o <<m>>
<1>1. PICK S : s \in Seq(S)
  BY DEF IsSeq
<1> DEFINE U == S \cup {m}
<1>2. s \in Seq(U) /\ m \in U
  BY <1>1
<1> HIDE DEF U
<1> QED BY <1>2

LEMMA Assoc ==
  ASSUME NEW s, NEW r, NEW q, IsSeq(s), IsSeq(r), IsSeq(q)
  PROVE  (s \o r) \o q = s \o (r \o q)
<1>1. PICK S : s \in Seq(S)
  BY DEF IsSeq
<1>2. PICK R : r \in Seq(R)
  BY DEF IsSeq
<1>3. PICK Q : q \in Seq(Q)
  BY DEF IsSeq
<1> DEFINE U == S \cup R \cup Q
<1>4. s \in Seq(U) /\ r \in Seq(U) /\ q \in Seq(U)
  BY <1>1, <1>2, <1>3
<1> HIDE DEF U
<1> QED BY <1>4, ConcatAssociative

\* What one push_back adds.
LEMMA One ==
  ASSUME NEW t, NEW dev, NEW v
  PROVE  Vector(<<Metric(t, dev, v)>>, {t}, dev)
<1> DEFINE m == Metric(t, dev, v)
           s == <<m>>
<1>1. m.type = t /\ m.dev = dev
  BY DEF Metric
<1> HIDE DEF m
<1>2. s \in Seq({m}) /\ DOMAIN s = {1} /\ s[1] = m
  BY DEF s
<1> HIDE DEF s
<1>3. TypesOf(s) = {t} /\ OnePerType(s) /\ \A i \in DOMAIN s : s[i].dev = dev
  BY <1>1, <1>2 DEF TypesOf, OnePerType
<1> QED BY <1>2, <1>3 DEF Vector, IsSeq, s, m

LEMMA Nothing == \A dev : Vector(<<>>, {}, dev)
<1>1. <<>> \in Seq({}) /\ DOMAIN <<>> = {}
  OBVIOUS
<1> QED BY <1>1 DEF Vector, IsSeq, TypesOf, OnePerType

LEMMA Pushed ==
  ASSUME NEW types, NEW t, NEW dev, NEW v
  PROVE  Vector(PushNeeded(types, t, dev, v), {t} \cap types, dev)
<1>1. CASE t \in types
  <2>1. PushNeeded(types, t, dev, v) = <<Metric(t, dev, v)>> /\ {t} \cap types = {t}
    BY <1>1 DEF PushNeeded
  <2> QED BY <2>1, One
<1>2. CASE t \notin types
  <2>1. PushNeeded(types, t, dev, v) = <<>> /\ {t} \cap types = {}
    BY <1>2 DEF PushNeeded
  <2> QED BY <2>1, Nothing
<1> QED BY <1>1, <1>2

LEMMA PushedTwo ==
  ASSUME NEW dev, NEW s, NEW r, NEW A, NEW B,
         Vector(s, A, dev), Vector(r, B, dev), A \cap B = {}
  PROVE  Vector(s \o r, A \cup B, dev)
<1>1. IsSeq(s) /\ IsSeq(r)
  BY DEF Vector
<1>2. IsSeq(s \o r) /\ TypesOf(s \o r) = A \cup B /\ OnePerType(s \o r)
  BY <1>1, Concat, ConcatTypes DEF Vector
<1>3. \A i \in DOMAIN (s \o r) : (s \o r)[i].dev = dev
  BY <1>1, Concat DEF Vector
<1> QED BY <1>2, <1>3 DEF Vector

\* A round deals with some more types, each for the first time, and delivers or
\* fails each of them.
LEMMA Deliver ==
  ASSUME RoundInv, phase = "round", UNCHANGED <<phase, config, active, requested>>,
         todo' \subseteq todo, NEW new, NEW lost, IsSeq(new),
         got' = got \o new, failed' = failed \cup lost,
         TypesOf(new) \cap lost = {}, OnePerType(new),
         Done' = Done \cup (TypesOf(new) \cup lost),
         Done \cap (TypesOf(new) \cup lost) = {}
  PROVE  RoundInv'
<1>0. IsSeq(got)
  BY DEF RoundInv
<1>1. TypesOf(got') = TypesOf(got) \cup TypesOf(new) /\ IsSeq(got')
  BY <1>0, Concat, ConcatTypes
<1>2. TypesOf(got) \cup failed = Done /\ TypesOf(got) \cap failed = {}
  BY DEF RoundInv
<1>3. TypesOf(got') \cup failed' = Done'
  BY <1>1, <1>2
<1>4. TypesOf(got') \cap failed' = {}
  BY <1>1, <1>2
<1>5. OnePerType(got')
  <2>1. TypesOf(got) \cap TypesOf(new) = {}
    BY <1>2
  <2> QED BY <1>0, <2>1, ConcatTypes DEF RoundInv
<1> QED BY <1>1, <1>3, <1>4, <1>5 DEF RoundInv

\* The same with nothing delivered.
LEMMA Lose ==
  ASSUME RoundInv, phase = "round", UNCHANGED <<phase, config, active, requested>>,
         todo' \subseteq todo, NEW lost, got' = got, failed' = failed \cup lost,
         Done' = Done \cup lost, Done \cap lost = {}
  PROVE  RoundInv'
<1>1. TypesOf(got) \cup failed = Done /\ TypesOf(got) \cap failed = {}
  BY DEF RoundInv
<1>2. TypesOf(got') \cup failed' = Done' /\ TypesOf(got') \cap failed' = {}
  BY <1>1
<1>3. OnePerType(got') /\ IsSeq(got')
  BY DEF RoundInv
<1> QED BY <1>2, <1>3 DEF RoundInv

\* A type that was visited belongs to a collector that was.
LEMMA VisitedDef ==
  /\ \A t : t \in Visited <=> \E c \in active \ todo : t \in requested[c]
  /\ \A t : t \in Visited' <=> \E c \in active' \ todo' : t \in requested'[c]
BY DEF Visited

\* The types of a collector that the round has still to visit are new to it.
LEMMA Untouched ==
  ASSUME RoundInv, Kinds, NvmlInv, phase = "round", NEW c \in todo
  PROVE  /\ Visited \cap requested[c] = {}
         /\ c # "nvml" \/ call = "none" => Served \cap requested[c] = {}
<1>1. \A d \in active : requested[d] \subseteq Satisfiable(d) /\ d \in Names
  BY DEF RoundInv, Kinds
<1>2. c \in active
  BY DEF RoundInv
<1>3. \A d \in active : d # c => requested[d] \cap requested[c] = {}
  BY <1>1, <1>2, Disjoint
<1>4. Visited \cap requested[c] = {}
  BY <1>3, VisitedDef
<1>5. ASSUME c # "nvml", call \in Asking PROVE Served \cap requested[c] = {}
  <2>1. "nvml" \in active
    BY <1>5 DEF NvmlInv, RoundInv, Asking
  <2>2. Served \subseteq requested["nvml"]
    BY DEF Served
  <2> QED BY <1>3, <1>5, <2>1, <2>2
<1>6. call \notin Asking => Served = {}
  BY DEF Served
<1>7. "none" \notin Asking
  BY DEF Asking
<1> QED BY <1>4, <1>5, <1>6, <1>7

\* The round visits a collector in one step.
LEMMA Visit ==
  ASSUME RoundInv, Kinds, NvmlInv, phase = "round", NEW c \in todo, todo' = todo \ {c},
         c = "nvml" => call = "none", UNCHANGED <<active, requested, call>>
  PROVE  Done' = Done \cup requested[c] /\ Done \cap requested[c] = {}
<1>1. c \in active /\ active' \ todo' = (active \ todo) \cup {c}
  BY DEF RoundInv
<1>2. Served' = Served
  BY DEF Served
<1>3. Visited' = Visited \cup requested[c]
  <2> SUFFICES ASSUME NEW t PROVE t \in Visited' <=> t \in Visited \/ t \in requested[c]
    OBVIOUS
  <2> QED BY <1>1, VisitedDef
<1>4. Done' = Visited' \cup Served' /\ Done = Visited \cup Served
  BY DEF Done
<1>5. Visited \cap requested[c] = {} /\ Served \cap requested[c] = {}
  BY Untouched
<1> QED BY <1>2, <1>3, <1>4, <1>5

\* The queries of NvmlCollector::Collect serve the types of GPUs, one after the other.
LEMMA QueryTypes ==
  /\ \A q \in Asking : /\ Queries[q] \subseteq GpuTypes
                       /\ Before[q] \cap Queries[q] = {}
                       /\ q # "memory" => /\ After[q] \in Asking
                                          /\ Before[After[q]] = Before[q] \cup Queries[q]
  /\ Before["power"] = {}
  /\ Before["memory"] \cup Queries["memory"] = GpuTypes
  /\ Satisfiable("nvml") = GpuTypes
BY DEF Asking, Queries, Before, After, GpuTypes, Satisfiable, GPU_VRAM_USED, GPU_UTILIZATION,
       GPU_SHARED_MEMORY_UTILIZATION, GPU_TEMPERATURE, GPU_POWER

\* A loop that is not a round keeps its share of the invariant.
LEMMA BeforeRounds ==
  ASSUME RoundInv, phase \in {"resolve", "init"}, UNCHANGED <<phase, config, got, failed>>,
         todo' \subseteq todo,
         \/ UNCHANGED <<active, requested>>
         \/ /\ phase = "resolve"
            /\ \E c \in Names : \E r : Activate(c, r),
         Kinds
  PROVE  RoundInv'
<1>1. ASSUME phase = "resolve", NEW c \in Names,
             Satisfiable(c) \cap config.metrics # {}, active' = active \cup {c},
             requested' = [requested EXCEPT ![c] = Satisfiable(c) \cap config.metrics]
      PROVE  RoundInv'
  <2>1. \A d \in active' : /\ requested'[d] = Satisfiable(d) \cap config'.metrics
                           /\ requested'[d] # {}
    BY <1>1 DEF RoundInv, Kinds
  <2> QED BY <1>1, <2>1 DEF RoundInv
<1>2. CASE UNCHANGED <<active, requested>>
  BY <1>2 DEF RoundInv
<1> QED BY <1>1, <1>2, ActivateEffect

\* The two metrics of RamCollector, as far as they were asked for.
LEMMA RamVector ==
  ASSUME CollectRam, IsSeq(got), requested["ram"] \subseteq Satisfiable("ram")
  PROVE  \E new : got' = got \o new /\ Vector(new, requested["ram"], NoDevice)
<1>1. PICK m \in MemInfos :
        got' = got \o PushNeeded(requested["ram"], RAM_TOTAL, NoDevice, <<m.total, 1>>)
                   \o PushNeeded(requested["ram"], RAM_USED, NoDevice, <<Minus(m.total, m.available), 1>>)
  BY DEF CollectRam
<1> DEFINE a == PushNeeded(requested["ram"], RAM_TOTAL, NoDevice, <<m.total, 1>>)
           b == PushNeeded(requested["ram"], RAM_USED, NoDevice, <<Minus(m.total, m.available), 1>>)
<1>2. /\ Vector(a, {RAM_TOTAL} \cap requested["ram"], NoDevice)
      /\ Vector(b, {RAM_USED} \cap requested["ram"], NoDevice)
  BY Pushed
<1>3. got' = (got \o a) \o b
  BY <1>1
<1> HIDE DEF a, b
<1>4. ({RAM_TOTAL} \cap requested["ram"]) \cap ({RAM_USED} \cap requested["ram"]) = {}
  BY DEF RAM_TOTAL, RAM_USED
<1>5. ({RAM_TOTAL} \cap requested["ram"]) \cup ({RAM_USED} \cap requested["ram"]) = requested["ram"]
  BY DEF Satisfiable
<1>6. Vector(a \o b, requested["ram"], NoDevice)
  BY <1>2, <1>4, <1>5, PushedTwo
<1>7. got' = got \o (a \o b)
  BY <1>2, <1>3, Assoc DEF Vector
<1> QED BY <1>6, <1>7

\* A query that succeeds delivers the types it serves and that were asked for.
LEMMA QueryVector ==
  ASSUME NEW q \in Asking
  PROVE  Vector(QueryMetrics(q), Queries[q] \cap requested["nvml"], Device("gpu", gpu))
<1> DEFINE dev == Device("gpu", gpu)
           types == requested["nvml"]
           push(t) == PushNeeded(types, t, dev, <<0, 1>>)
<1>1. \A t : Vector(push(t), {t} \cap types, dev)
  BY Pushed
<1>2. /\ QueryMetrics("power") = push(GPU_POWER)
      /\ QueryMetrics("temperature") = push(GPU_TEMPERATURE)
      /\ QueryMetrics("utilization") = push(GPU_UTILIZATION) \o push(GPU_SHARED_MEMORY_UTILIZATION)
      /\ QueryMetrics("memory") = push(GPU_VRAM_USED)
  BY DEF QueryMetrics
<1>3. /\ Queries["power"] = {GPU_POWER} /\ Queries["temperature"] = {GPU_TEMPERATURE}
      /\ Queries["utilization"] = {GPU_UTILIZATION, GPU_SHARED_MEMORY_UTILIZATION}
      /\ Queries["memory"] = {GPU_VRAM_USED}
  BY DEF Queries
<1>4. GPU_UTILIZATION # GPU_SHARED_MEMORY_UTILIZATION
  BY DEF GPU_UTILIZATION, GPU_SHARED_MEMORY_UTILIZATION
<1> HIDE DEF dev, types, push
<1>5. CASE q = "utilization"
  <2> DEFINE A == {GPU_UTILIZATION} \cap types
             B == {GPU_SHARED_MEMORY_UTILIZATION} \cap types
  <2>1. A \cap B = {} /\ A \cup B = Queries["utilization"] \cap types
    BY <1>3, <1>4
  <2>2. Vector(push(GPU_UTILIZATION), A, dev) /\ Vector(push(GPU_SHARED_MEMORY_UTILIZATION), B, dev)
    BY <1>1
  <2> HIDE DEF A, B
  <2>3. Vector(QueryMetrics("utilization"), A \cup B, dev)
    BY <1>2, <2>1, <2>2, PushedTwo
  <2> QED BY <1>5, <2>1, <2>3 DEF dev, types
<1>6. CASE q # "utilization"
  <2>1. Vector(QueryMetrics(q), Queries[q] \cap types, dev)
    BY <1>1, <1>2, <1>3, <1>6 DEF Asking
  <2> QED BY <2>1 DEF dev, types
<1> QED BY <1>5, <1>6

\* Collect of the collectors that are one step each.
LEMMA CollectRound ==
  ASSUME RoundInv, Kinds, NvmlInv, NEW c \in Names, Collect(c)
  PROVE  RoundInv'
<1>1. /\ phase = "round" /\ c \in todo /\ c # "nvml" /\ todo' = todo \ {c}
      /\ UNCHANGED <<phase, config, active, requested, call>>
  BY DEF Collect, startVars, nvmlVars
<1>2. Done' = Done \cup requested[c] /\ Done \cap requested[c] = {}
  BY <1>1, Visit
<1>3. c \in active /\ requested[c] # {} /\ requested[c] \subseteq Satisfiable(c)
  BY <1>1 DEF RoundInv
<1>4. ASSUME NEW new, NEW dev, got' = got \o new, failed' = failed,
             Vector(new, requested[c], dev)
      PROVE  RoundInv'
  <2>1. IsSeq(new) /\ TypesOf(new) = requested[c] /\ OnePerType(new)
    BY <1>4 DEF Vector
  <2> QED BY <1>1, <1>2, <1>4, <2>1, Deliver
<1>s. IsSeq(got)
  BY DEF RoundInv
<1>5. CASE c = "rapl" /\ CollectRapl
  <2>1. requested[c] = {CPU_POWER_PACKAGE}
    BY <1>3, <1>5 DEF Satisfiable
  <2>2. ASSUME NEW v, got' = Append(got, Metric(CPU_POWER_PACKAGE, Device("cpu", <<0, 0>>), v)),
               failed' = failed
        PROVE  RoundInv'
    <3>1. got' = got \o <<Metric(CPU_POWER_PACKAGE, Device("cpu", <<0, 0>>), v)>>
      BY <1>s, <2>2, AppendConcat
    <3>2. Vector(<<Metric(CPU_POWER_PACKAGE, Device("cpu", <<0, 0>>), v)>>, requested[c],
                 Device("cpu", <<0, 0>>))
      BY <2>1, One
    <3> QED BY <1>4, <2>2, <3>1, <3>2
  <2>3. ASSUME failed' = failed \cup {CPU_POWER_PACKAGE}, got' = got PROVE RoundInv'
    BY <1>1, <1>2, <2>1, <2>3, Lose
  <2> QED BY <1>5, <2>2, <2>3 DEF CollectRapl
<1>6. CASE c = "stat" /\ CollectStat
  <2>1. requested[c] = {CPU_UTILIZATION}
    BY <1>3, <1>6 DEF Satisfiable
  <2>2. PICK v : got' = Append(got, Metric(CPU_UTILIZATION, NoDevice, v)) /\ failed' = failed
    BY <1>6 DEF CollectStat
  <2>3. got' = got \o <<Metric(CPU_UTILIZATION, NoDevice, v)>>
    BY <1>s, <2>2, AppendConcat
  <2>4. Vector(<<Metric(CPU_UTILIZATION, NoDevice, v)>>, requested[c], NoDevice)
    BY <2>1, One
  <2> QED BY <1>4, <2>2, <2>3, <2>4
<1>7. CASE c = "ram" /\ CollectRam
  <2>1. PICK new : got' = got \o new /\ Vector(new, requested["ram"], NoDevice)
    BY <1>s, <1>3, <1>7, RamVector
  <2>2. failed' = failed
    BY <1>7 DEF CollectRam
  <2> QED BY <1>4, <1>7, <2>1, <2>2
<1> QED BY <1>5, <1>6, <1>7 DEF Collect

\* One query of NvmlCollector::Collect.
LEMMA NvmlCollectRound ==
  ASSUME RoundInv, Kinds, NvmlInv, NvmlCollect
  PROVE  RoundInv'
<1> DEFINE types == Queries[call] \cap requested["nvml"]
           new == QueryMetrics(call)
<1>1. call \in Asking /\ phase = "round" /\ "nvml" \in todo /\ "none" \notin Asking
  BY QueryNames DEF NvmlCollect, NvmlInv, Asking
<1>2. UNCHANGED <<phase, config>>
  BY DEF NvmlCollect, startVars
<1>3. \/ call = "memory" /\ call' = "none" /\ todo' = todo \ {"nvml"}
      \/ call # "memory" /\ call' = After[call] /\ todo' = todo
  BY DEF NvmlCollect, Return, Continue
<1>4. UNCHANGED <<active, requested>>
  BY <1>1 DEF NvmlCollect, Return, Continue
<1>5. "nvml" \in active /\ requested["nvml"] \subseteq GpuTypes
  BY <1>1, QueryTypes DEF RoundInv
<1>6. Served = Before[call] \cap requested["nvml"]
  BY <1>1 DEF Served
<1>7. Done \cap types = {}
  <2>1. Visited \cap types = {}
    BY <1>1, Untouched
  <2>2. Served \cap types = {}
    BY <1>1, <1>6, QueryTypes
  <2> QED BY <2>1, <2>2 DEF Done
<1>8. Done' = Done \cup types
  <2>1. CASE call # "memory"
    <3>1. call' \in Asking /\ Before[call'] = Before[call] \cup Queries[call]
      BY <1>1, <1>3, <2>1, QueryTypes
    <3>2. Served' = Served \cup types
      BY <1>4, <1>6, <3>1 DEF Served
    <3>3. Visited' = Visited
      BY <1>3, <1>4, <2>1 DEF Visited
    <3> QED BY <3>2, <3>3 DEF Done
  <2>2. CASE call = "memory"
    <3>1. Served' = {}
      BY <1>1, <1>3, <2>2 DEF Served
    <3>2. active' \ todo' = (active \ todo) \cup {"nvml"}
      BY <1>3, <1>4, <1>5, <2>2
    <3>3. Visited' = Visited \cup requested["nvml"]
      <4> SUFFICES ASSUME NEW t PROVE t \in Visited' <=> t \in Visited \/ t \in requested["nvml"]
        OBVIOUS
      <4> QED BY <1>4, <3>2, VisitedDef
    <3>4. Served \cup types = requested["nvml"]
      BY <1>5, <1>6, <2>2, QueryTypes
    <3> HIDE DEF types
    <3>5. Done' = Visited' \cup Served' /\ Done = Visited \cup Served
      BY DEF Done
    <3> QED BY <3>1, <3>3, <3>4, <3>5
  <2> QED BY <2>1, <2>2
<1>9. IsSeq(new) /\ TypesOf(new) = types /\ OnePerType(new)
  BY <1>1, QueryVector DEF Vector
<1>10. todo' \subseteq todo
  BY <1>3
<1>12. \/ types = {} /\ UNCHANGED <<got, failed>>
       \/ got' = got \o new /\ failed' = failed
       \/ got' = got /\ failed' = failed \cup types
  BY DEF NvmlCollect, roundVars
<1> HIDE DEF types, new
<1>13. CASE types = {} /\ UNCHANGED <<got, failed>>
  BY <1>1, <1>2, <1>4, <1>7, <1>8, <1>10, <1>13, Lose
<1>14. CASE got' = got \o new /\ failed' = failed
  <2>1. failed' = failed \cup {} /\ TypesOf(new) \cap {} = {} /\ TypesOf(new) \cup {} = types
    BY <1>9, <1>14
  <2> QED BY <1>1, <1>2, <1>4, <1>7, <1>8, <1>9, <1>10, <1>14, <2>1, Deliver
<1>15. CASE got' = got /\ failed' = failed \cup types
  BY <1>1, <1>2, <1>4, <1>7, <1>8, <1>10, <1>15, Lose
<1> QED BY <1>12, <1>13, <1>14, <1>15

\* The other calls.  Only Collect runs in a round, and it gives up at once when
\* Init had failed.
LEMMA NvmlRound ==
  ASSUME RoundInv, Kinds, NvmlInv, Nvml
  PROVE  RoundInv'
<1>1. CASE phase = "round" /\ NvmlBegin /\ initialized["nvml"]
  <2>1. /\ call = "none" /\ call' = "power"
        /\ UNCHANGED <<todo, active, requested, phase, config, got, failed>>
    BY <1>1 DEF NvmlBegin, Continue, startVars
  <2>2. Served = {} /\ Served' = {}
    BY <2>1, QueryTypes DEF Served, Asking
  <2>3. Visited' = Visited
    BY <2>1 DEF Visited
  <2>4. Done' = Done
    BY <2>2, <2>3 DEF Done
  <2> QED BY <2>1, <2>4 DEF RoundInv
<1>2. CASE phase = "round" /\ NvmlBegin /\ ~initialized["nvml"]
  <2>1. /\ "nvml" \in todo /\ call = "none" /\ todo' = todo \ {"nvml"}
        /\ UNCHANGED <<active, requested, phase, config, got, call>>
        /\ failed' = failed \cup requested["nvml"]
    BY <1>2 DEF NvmlBegin, Return, startVars
  <2>2. Done' = Done \cup requested["nvml"] /\ Done \cap requested["nvml"] = {}
    BY <1>2, <2>1, Visit
  <2> QED BY <1>2, <2>1, <2>2, Lose
<1>3. CASE NvmlCollect
  BY <1>3, NvmlCollectRound
<1>4. CASE phase # "round" \/ (~NvmlBegin /\ ~NvmlCollect)
  <2>1. ~NvmlCollect
    BY <1>4, QueryNames DEF NvmlInv, NvmlCollect, Asking
  <2>2. phase \in {"resolve", "init"}
    BY <1>4, <2>1 DEF Nvml, NvmlBegin, TryLoadNvml, NvmlInit, NvmlCount, NvmlHandle, NvmlPci,
         NvmlShutdown, NvmlInv, Opening
  <2>3. UNCHANGED <<got, failed>>
    BY <2>1, <2>2 DEF Nvml, NvmlBegin, TryLoadNvml, NvmlInit, NvmlCount, NvmlHandle, NvmlPci,
         NvmlShutdown, roundVars
  <2>4. UNCHANGED <<phase, config>> /\ todo' \subseteq todo
    BY NvmlEffect DEF startVars
  <2>5. "nvml" \in Names
    BY DEF Names
  <2>6. \/ UNCHANGED <<active, requested>>
        \/ phase = "resolve" /\ \E c \in Names : \E r : Activate(c, r)
    BY <2>5, NvmlEffect
  <2> QED BY <2>2, <2>3, <2>4, <2>6, BeforeRounds
<1> QED BY <1>1, <1>2, <1>3, <1>4

LEMMA RoundStep == Kinds /\ NvmlInv /\ RoundInv /\ [Next]_vars => RoundInv'
<1> SUFFICES ASSUME Kinds, NvmlInv, RoundInv, [Next]_vars PROVE RoundInv'
  OBVIOUS
<1>1. CASE LoadConfigStep
  BY <1>1 DEF LoadConfigStep, RoundInv, roundVars
<1>2. ASSUME NEW c \in Names, Resolve(c) PROVE RoundInv'
  <2>1. /\ phase = "resolve" /\ todo' \subseteq todo /\ \E r : Activate(c, r)
        /\ UNCHANGED <<phase, config, got, failed>>
    BY <1>2 DEF Resolve, startVars, roundVars
  <2> QED BY <2>1, BeforeRounds
<1>3. ASSUME NEW c \in Names, InitCollector(c) PROVE RoundInv'
  <2>1. /\ phase = "init" /\ todo' \subseteq todo
        /\ UNCHANGED <<phase, config, got, failed, active, requested>>
    BY <1>3 DEF InitCollector, startVars, roundVars
  <2> QED BY <2>1, BeforeRounds
<1>4. ASSUME NEW c \in Names, Collect(c) PROVE RoundInv'
  BY <1>4, CollectRound
<1>5. CASE Nvml
  BY <1>5, NvmlRound
<1>6. CASE MakeBuffer
  BY <1>6 DEF MakeBuffer, LoopDone, RoundInv, startVars, roundVars
<1>7. ASSUME FirstRound \/ Sleep PROVE RoundInv'
  <2>1. /\ todo' = active /\ call = "none" /\ phase' = "round"
        /\ UNCHANGED <<active, requested, config, call>>
    BY <1>7 DEF FirstRound, Sleep, LoopDone, startVars, nvmlVars
  <2>2. got' = <<>> /\ failed' = {}
    BY <1>7 DEF FirstRound, Sleep, LoopDone, RoundInv, roundVars
  <2>3. Served' = {}
    BY <2>1 DEF Served, Asking
  <2>4. Visited' = {}
    BY <2>1, VisitedDef
  <2>5. Done' = {} /\ TypesOf(got') = {} /\ OnePerType(got') /\ IsSeq(got')
    BY <2>2, <2>3, <2>4, Nothing DEF Done, Vector
  <2> QED BY <2>1, <2>2, <2>5 DEF RoundInv
<1>8. CASE Exit \/ Throw
  BY <1>8 DEF Exit, Throw, Destroy, RoundInv, startVars, roundVars
<1>9. CASE UNCHANGED vars
  <2>1. UNCHANGED <<phase, config, active, requested, todo, call, got, failed>>
    BY <1>9 DEF vars, startVars, nvmlVars, roundVars
  <2>2. Done' = Done
    BY <2>1 DEF Done, Visited, Served
  <2> QED BY <2>1, <2>2 DEF RoundInv
<1> QED BY <1>1, <1>2, <1>3, <1>4, <1>5, <1>6, <1>7, <1>8, <1>9 DEF Next

LEMMA RoundAlways == Spec => []RoundInv
<1>1. Init => RoundInv
  BY Nothing DEF Init, RoundInv, Vector
<1> QED BY <1>1, RoundStep, KindsAlways, NvmlAlways, PTL DEF Spec

\* Whatever was asked for, whatever is supported and however readings fail, each
\* round has delivered exactly one metric of each type asked for and not failed:
\* Resolve neither drops nor doubles a type, and the vectors of RamCollector and of
\* the queries of a GPU hold each of theirs once.
THEOREM RoundsAlwaysComplete == Spec => []RoundComplete
<1>1. RoundInv /\ Kinds => RoundComplete
  <2> SUFFICES ASSUME RoundInv, Kinds, LoopDone("round") PROVE RoundComplete
    BY DEF RoundComplete
  <2>1. phase = "round" /\ todo = {} /\ call = "none"
    BY DEF LoopDone
  <2>2. Served = {}
    BY <2>1 DEF Served, Asking
  <2>3. Done = config.metrics \cap UNION {Satisfiable(c) : c \in active}
    <3>1. \A t : t \in Done <=> \E c \in active : t \in Satisfiable(c) \cap config.metrics
      BY <2>1, <2>2, VisitedDef DEF Done, RoundInv
    <3> QED BY <3>1
  <2>4. TypesOf(got) = Done \ failed
    BY <2>1 DEF RoundInv
  <2>5. {m.type : m \in Delivered} = TypesOf(got)
    BY DEF Delivered, TypesOf
  <2> QED BY <2>3, <2>4, <2>5 DEF RoundInv, RoundComplete, OnePerType
<1> QED BY <1>1, RoundAlways, KindsAlways, PTL

-----------------------------------------------------------------------------
(* What a metric says                                                      *)

\* The difference of two readings of /proc/stat as CollectStat delivers it.
Usage(now, before) ==
    LET total == Minus(now.total, before.total)
        idle == Minus(now.idle, before.idle) IN
    IF total > 0 THEN <<Minus(total, idle), total>> ELSE <<0, 1>>

\* Where a metric that a step delivers comes from.
FromRapl(m) ==
    /\ m.type = CPU_POWER_PACKAGE /\ m.dev = Device("cpu", <<0, 0>>)
    /\ initialized["rapl"] /\ last' = ReadMSR /\ reported' = reported + ReadMSR - last
FromStat(m) ==
    /\ m.type = CPU_UTILIZATION /\ m.dev = NoDevice
    /\ prev' \in {ReadCpuStats, [total |-> 0, idle |-> 0]}
    /\ m.value = Usage(prev', prev)
FromRam(m) == m.type \in {RAM_TOTAL, RAM_USED} /\ m.dev = NoDevice
FromNvml(m) == m.type \in GpuTypes /\ m.dev = Device("gpu", gpu)

\* The metrics a step delivers.
New == {got'[i] : i \in DOMAIN got' \ DOMAIN got}

\* A vector appended to the round's: what is new comes from it.
LEMMA NewFrom ==
  ASSUME IsSeq(got), NEW v, NEW types, NEW dev, Vector(v, types, dev), got' = got \o v
  PROVE  /\ \A m \in New : m.type \in types /\ m.dev = dev
         /\ \A i \in DOMAIN got : got'[i] = got[i]
<1>1. IsSeq(v)
  BY DEF Vector
<1>2. \A i \in DOMAIN got' \ DOMAIN got : \E j \in DOMAIN v : got'[i] = v[j]
  BY <1>1, Concat
<1>3. \A j \in DOMAIN v : v[j].type \in types /\ v[j].dev = dev
  BY DEF Vector, TypesOf
<1>4. \A i \in DOMAIN got : got'[i] = got[i]
  BY <1>1, Concat
<1> QED BY <1>2, <1>3, <1>4 DEF New

\* The same for a vector of one metric.
LEMMA NewOne ==
  ASSUME IsSeq(got), NEW m, got' = Append(got, m)
  PROVE  /\ \A x \in New : x = m
         /\ \A i \in DOMAIN got : got'[i] = got[i]
<1>1. PICK S : got \in Seq(S)
  BY DEF IsSeq
<1> DEFINE U == S \cup {m}
<1>2. got \in Seq(U) /\ m \in U
  BY <1>1
<1> HIDE DEF U
<1>3. /\ Len(got) \in Nat /\ DOMAIN got = 1 .. Len(got) /\ DOMAIN got' = 1 .. Len(got) + 1
      /\ got'[Len(got) + 1] = m
      /\ \A i \in 1 .. Len(got) : got'[i] = got[i]
  BY <1>2
<1>4. \A i \in DOMAIN got' \ DOMAIN got : i = Len(got) + 1
  BY <1>3
<1> QED BY <1>3, <1>4 DEF New

\* A step that delivers a metric is a Collect of the collector of its type, and
\* leaves alone what the round has delivered before.
LEMMA NewMetric ==
  ASSUME Kinds, NvmlInv, RoundInv, [Next]_vars
  PROVE  /\ \A m \in New : FromRapl(m) \/ FromStat(m) \/ FromRam(m) \/ FromNvml(m)
         /\ \A i \in DOMAIN got \cap DOMAIN got' : got'[i] = got[i]
<1>s. IsSeq(got)
  BY DEF RoundInv
<1>1. CASE got' = got \/ got' = <<>>
  <2>1. DOMAIN <<>> = {}
    OBVIOUS
  <2> QED BY <1>1, <2>1 DEF New
<1>2. CASE NvmlCollect
  <2>1. call \in Asking
    BY <1>2, QueryNames DEF NvmlCollect
  <2>2. Vector(QueryMetrics(call), Queries[call] \cap requested["nvml"], Device("gpu", gpu))
    BY <2>1, QueryVector
  <2>3. got' = got \/ got' = got \o QueryMetrics(call)
    BY <1>2 DEF NvmlCollect, roundVars
  <2>4. ASSUME got' = got \o QueryMetrics(call)
        PROVE  /\ \A m \in New : m.type \in Queries[call] /\ m.dev = Device("gpu", gpu)
               /\ \A i \in DOMAIN got : got'[i] = got[i]
    <3> DEFINE T == Queries[call] \cap requested["nvml"]
    <3>1. /\ \A m \in New : m.type \in T /\ m.dev = Device("gpu", gpu)
          /\ \A i \in DOMAIN got : got'[i] = got[i]
      BY <1>s, <2>2, <2>4, NewFrom
    <3> QED BY <3>1
  <2>5. Queries[call] \subseteq GpuTypes
    BY <2>1, QueryTypes
  <2> QED BY <1>1, <2>3, <2>4, <2>5 DEF FromNvml
<1>3. ASSUME CollectRapl, got' # got
      PROVE  (\A m \in New : FromRapl(m)) /\ \A i \in DOMAIN got : got'[i] = got[i]
  <2> DEFINE m == Metric(CPU_POWER_PACKAGE, Device("cpu", <<0, 0>>), <<ReadMSR - last, 1>>)
  <2>1. /\ got' = Append(got, m) /\ initialized["rapl"] /\ last' = ReadMSR
        /\ reported' = reported + ReadMSR - last
    BY <1>3 DEF CollectRapl
  <2>2. m.type = CPU_POWER_PACKAGE /\ m.dev = Device("cpu", <<0, 0>>)
    BY DEF Metric
  <2> HIDE DEF m
  <2>3. (\A x \in New : x = m) /\ \A i \in DOMAIN got : got'[i] = got[i]
    BY <1>s, <2>1, NewOne
  <2> QED BY <2>1, <2>2, <2>3 DEF FromRapl
<1>4. ASSUME CollectStat
      PROVE  (\A m \in New : FromStat(m)) /\ \A i \in DOMAIN got : got'[i] = got[i]
  <2>1. PICK now \in {ReadCpuStats, [total |-> 0, idle |-> 0]} :
          /\ got' = Append(got, Metric(CPU_UTILIZATION, NoDevice, Usage(now, prev)))
          /\ prev' = now
    BY <1>4 DEF CollectStat, Usage
  <2> DEFINE m == Metric(CPU_UTILIZATION, NoDevice, Usage(prev', prev))
  <2>2. m.type = CPU_UTILIZATION /\ m.dev = NoDevice /\ m.value = Usage(prev', prev)
    BY DEF Metric
  <2>3. got' = Append(got, m)
    BY <2>1
  <2> HIDE DEF m, Usage, ReadCpuStats
  <2>4. (\A x \in New : x = m) /\ \A i \in DOMAIN got : got'[i] = got[i]
    BY <1>s, <2>3, NewOne
  <2> QED BY <2>1, <2>2, <2>4 DEF FromStat
<1>5. ASSUME CollectRam, phase = "round", "ram" \in todo
      PROVE  (\A m \in New : FromRam(m)) /\ \A i \in DOMAIN got : got'[i] = got[i]
  <2>1. requested["ram"] \subseteq Satisfiable("ram") /\ Satisfiable("ram") = {RAM_TOTAL, RAM_USED}
    BY <1>5 DEF RoundInv, Satisfiable
  <2>2. PICK v : got' = got \o v /\ Vector(v, requested["ram"], NoDevice)
    BY <1>s, <1>5, <2>1, RamVector
  <2>3. /\ \A m \in New : m.type \in requested["ram"] /\ m.dev = NoDevice
        /\ \A i \in DOMAIN got : got'[i] = got[i]
    BY <1>s, <2>2, NewFrom
  <2> QED BY <2>1, <2>3 DEF FromRam
<1>6. CASE ~(got' = got \/ got' = <<>>) /\ ~NvmlCollect
  <2>1. \E c \in Names : Collect(c)
    BY <1>6 DEF Next, vars, roundVars, LoadConfigStep, Resolve, InitCollector, Nvml, NvmlBegin,
       TryLoadNvml, NvmlInit, NvmlCount, NvmlHandle, NvmlPci, NvmlShutdown, MakeBuffer, FirstRound,
       Sleep, Exit, Throw, Destroy
  <2>2. \/ CollectRapl \/ CollectStat
        \/ CollectRam /\ phase = "round" /\ "ram" \in todo
    BY <2>1 DEF Collect
  <2> QED BY <1>3, <1>4, <1>5, <1>6, <2>2
<1> QED BY <1>1, <1>2, <1>6

\* The types of the metrics are told apart by their numbers.
LEMMA TypesApart ==
  /\ CPU_UTILIZATION # CPU_POWER_PACKAGE
  /\ CPU_POWER_PACKAGE \notin {RAM_TOTAL, RAM_USED} \cup GpuTypes
  /\ CPU_UTILIZATION \notin {RAM_TOTAL, RAM_USED} \cup GpuTypes
BY DEF CPU_UTILIZATION, CPU_POWER_PACKAGE, RAM_TOTAL, RAM_USED, GpuTypes, GPU_VRAM_USED,
       GPU_UTILIZATION, GPU_SHARED_MEMORY_UTILIZATION, GPU_TEMPERATURE, GPU_POWER

-----------------------------------------------------------------------------
(* The energy adds up                                                      *)

Origin == EnergyStart % EnergyMod
PowerIn(ms) == \E m \in ms : m.type = CPU_POWER_PACKAGE

\* What a round has delivered after a step was there before or is new.
LEMMA OldOrNew ==
  ASSUME Kinds, NvmlInv, RoundInv, [Next]_vars
  PROVE  Delivered' \subseteq Delivered \cup New
<1>1. \A i \in DOMAIN got \cap DOMAIN got' : got'[i] = got[i]
  BY NewMetric
<1> QED BY <1>1 DEF Delivered, New

\* The differences telescope: what was delivered so far is the last reading less
\* the first.  Init reads the register before any energy is counted.
EnergyInv ==
    /\ phase \in {"load", "resolve", "init"} => hw.energy = 0 /\ reported = 0
    /\ initialized["rapl"] => reported = last - Origin
    /\ PowerIn(Delivered) => last = ReadMSR /\ reported = last - Origin

LEMMA EnergyStep ==
  Kinds /\ NvmlInv /\ RoundInv /\ EnergyInv /\ [Next]_vars => EnergyInv'
<1> SUFFICES ASSUME Kinds, NvmlInv, RoundInv, EnergyInv, [Next]_vars PROVE EnergyInv'
  OBVIOUS
<1>t. Origin \in Int /\ last \in Int /\ reported \in Int /\ ReadMSR \in Int
  <2>1. Origin \in Int
    BY CounterAssumption, ModType DEF Origin
  <2> QED BY <2>1, ReadType, CounterAssumption DEF Kinds
<1> HIDE DEF Origin
<1>1. ASSUME NEW c \in Names, Collect(c) PROVE EnergyInv'
  <2>1. phase = "round" /\ UNCHANGED <<phase, initialized, hw>>
    BY <1>1 DEF Collect
  <2>2. ReadMSR' = ReadMSR
    BY <2>1 DEF ReadMSR
  <2>3. CASE initialized["rapl"] /\ last' = ReadMSR /\ reported' = reported + ReadMSR - last
    <3>1. reported = last - Origin
      BY <2>3 DEF EnergyInv
    <3>2. reported' = ReadMSR - Origin
      BY <1>t, <2>3, <3>1
    <3> QED BY <2>1, <2>2, <2>3, <3>2 DEF EnergyInv
  <2>4. CASE UNCHANGED <<last, reported>> /\ ~PowerIn(New)
    <3>1. PowerIn(Delivered') => PowerIn(Delivered)
      BY <2>4, OldOrNew DEF PowerIn
    <3> QED BY <2>1, <2>2, <2>4, <3>1 DEF EnergyInv
  <2>5. \/ UNCHANGED <<last, reported>>
        \/ initialized["rapl"] /\ last' = ReadMSR /\ reported' = reported + ReadMSR - last
    BY <1>1 DEF Collect, CollectRapl, CollectStat, CollectRam, rateVars
  <2>6. PowerIn(New) =>
          initialized["rapl"] /\ last' = ReadMSR /\ reported' = reported + ReadMSR - last
    BY NewMetric, TypesApart DEF PowerIn, FromRapl, FromStat, FromRam, FromNvml
  <2> QED BY <2>3, <2>4, <2>5, <2>6
<1>2. ASSUME NEW c \in Names, InitCollector(c) PROVE EnergyInv'
  <2>1. phase = "init" /\ UNCHANGED <<phase, got, hw, reported>>
    BY <1>2 DEF InitCollector, InitRapl, rateVars, roundVars
  <2>2. ReadMSR = Origin
    BY <2>1, CounterAssumption DEF EnergyInv, ReadMSR, Origin
  <2>3. got' = <<>> /\ ~PowerIn(Delivered')
    BY <2>1 DEF RoundInv, PowerIn, Delivered
  <2>4. \/ last' = ReadMSR
        \/ last' = last /\ (initialized'["rapl"] => initialized["rapl"])
    <3>1. \/ last' = ReadMSR
          \/ last' = last /\ initialized' = initialized
          \/ last' = last /\ c # "rapl" /\ initialized' = [initialized EXCEPT ![c] = TRUE]
      BY <1>2 DEF InitCollector, InitRapl, rateVars
    <3>2. initialized \in [Names -> BOOLEAN] /\ "rapl" \in Names
      BY DEF NvmlInv, Names
    <3> HIDE DEF Names
    <3> QED BY <3>1, <3>2
  <2>5. reported = 0
    BY <2>1 DEF EnergyInv
  <2> QED BY <1>t, <2>1, <2>2, <2>3, <2>4, <2>5 DEF EnergyInv
<1>3. CASE Nvml
  <2>1. UNCHANGED <<phase, last, reported, hw>>
    BY <1>3, NvmlEffect DEF rateVars
  <2>2. ReadMSR' = ReadMSR
    BY <2>1 DEF ReadMSR
  <2>3. ~PowerIn(New)
    <3>1. ASSUME got' = got PROVE New = {}
      BY <3>1 DEF New
    <3>2. CASE NvmlCollect
      <4>1. call \in Asking /\ IsSeq(got)
        BY <3>2, QueryNames DEF NvmlCollect, RoundInv
      <4> DEFINE T == Queries[call] \cap requested["nvml"]
      <4>2. Vector(QueryMetrics(call), T, Device("gpu", gpu))
        BY <4>1, QueryVector
      <4>3. T \subseteq GpuTypes
        BY <4>1, QueryTypes
      <4> HIDE DEF T
      <4>4. got' = got \/ got' = got \o QueryMetrics(call)
        BY <3>2 DEF NvmlCollect, roundVars
      <4>5. got' = got \o QueryMetrics(call) => \A m \in New : m.type \in T
        BY <4>1, <4>2, NewFrom
      <4> QED BY <3>1, <4>3, <4>4, <4>5, TypesApart DEF PowerIn
    <3>3. CASE ~NvmlCollect
      <4>1. got' = got
        BY <1>3, <3>3 DEF Nvml, NvmlBegin, TryLoadNvml, NvmlInit, NvmlCount, NvmlHandle, NvmlPci,
             NvmlShutdown, roundVars
      <4> QED BY <3>1, <4>1 DEF PowerIn
    <3> QED BY <3>2, <3>3
  <2>4. PowerIn(Delivered') => PowerIn(Delivered)
    BY <2>3, OldOrNew DEF PowerIn
  <2>5. initialized'["rapl"] = initialized["rapl"]
    BY <1>3 DEF Nvml, NvmlBegin, TryLoadNvml, NvmlInit, NvmlCount, NvmlHandle, NvmlPci,
         NvmlShutdown, NvmlCollect, NvmlInv, Names
  <2> QED BY <2>1, <2>2, <2>4, <2>5 DEF EnergyInv
<1>4. CASE Sleep
  <2>1. /\ phase = "round" /\ phase' = "round" /\ got' = <<>>
        /\ UNCHANGED <<initialized, last, reported>>
    BY <1>4 DEF Sleep, LoopDone, rateVars
  <2> QED BY <2>1 DEF EnergyInv, PowerIn, Delivered
<1>5. CASE Exit \/ Throw
  <2>1. /\ phase' = "ended" /\ ~initialized'["rapl"]
        /\ UNCHANGED <<last, reported, hw, got>>
    BY <1>5 DEF Exit, Throw, Destroy, rateVars, roundVars, Names
  <2> QED BY <2>1 DEF EnergyInv, ReadMSR, PowerIn, Delivered
<1>6. CASE \/ LoadConfigStep \/ MakeBuffer \/ FirstRound \/ UNCHANGED vars
           \/ \E c \in Names : Resolve(c)
  <2>1. /\ phase' \in {"load", "resolve", "init"} => phase \in {"load", "resolve", "init"}
        /\ UNCHANGED <<initialized, last, reported, hw, got>>
    BY <1>6 DEF LoadConfigStep, Resolve, MakeBuffer, FirstRound, LoopDone, vars, rateVars, roundVars
  <2> QED BY <2>1 DEF EnergyInv, ReadMSR, PowerIn, Delivered
<1> QED BY <1>1, <1>2, <1>3, <1>4, <1>5, <1>6 DEF Next

\* However often the register wraps and readings fail, what RaplCollector delivers
\* adds up to the energy used, but for multiples of the register's range.
THEOREM EnergyAlwaysCounted == Spec => []EnergyCounted
<1>1. Init => EnergyInv
  BY DEF Init, EnergyInv, PowerIn, Delivered, Names
<1>2. Kinds /\ EnergyInv => EnergyCounted
  <2> SUFFICES ASSUME Kinds, EnergyInv, PowerIn(Delivered)
               PROVE  (hw.energy - reported) % EnergyMod = 0
    BY DEF EnergyCounted, PowerIn
  <2>1. reported = ((EnergyStart + hw.energy) % EnergyMod) - (EnergyStart % EnergyMod)
    BY DEF EnergyInv, ReadMSR, Origin
  <2>2. hw.energy \in Nat /\ EnergyStart \in Nat
    BY CounterAssumption DEF Kinds, Hardware
  <2> QED BY <2>1, <2>2, Telescope
<1> QED BY <1>1, <1>2, EnergyStep, KindsAlways, NvmlAlways, RoundAlways, PTL DEF Spec

-----------------------------------------------------------------------------
(* The device survives                                                     *)

\* A metric names a device of its type's kind.
ShapeOK(m) ==
    \/ m.type = CPU_POWER_PACKAGE /\ m.dev = Device("cpu", <<0, 0>>)
    \/ m.type \in {CPU_UTILIZATION, RAM_TOTAL, RAM_USED} /\ m.dev = NoDevice
    \/ m.type \in GpuTypes /\ \E id \in GpuIds \cup {NoGpu} : m.dev = Device("gpu", id)

ShapeInv == \A m \in Delivered : ShapeOK(m)

LEMMA ShapeStep == Kinds /\ NvmlInv /\ RoundInv /\ ShapeInv /\ [Next]_vars => ShapeInv'
<1> SUFFICES ASSUME Kinds, NvmlInv, RoundInv, ShapeInv, [Next]_vars, NEW m \in Delivered'
             PROVE  ShapeOK(m)
  BY DEF ShapeInv, ShapeOK
<1>1. CASE m \in Delivered
  BY <1>1 DEF ShapeInv
<1>2. CASE m \in New
  <2>1. FromRapl(m) \/ FromStat(m) \/ FromRam(m) \/ FromNvml(m)
    BY <1>2, NewMetric
  <2>2. gpu \in GpuIds \cup {NoGpu}
    BY DEF Kinds
  <2> QED BY <2>1, <2>2 DEF FromRapl, FromStat, FromRam, FromNvml, ShapeOK
<1> QED BY <1>1, <1>2, OldOrNew

\* The numbers of the types are those of their kind of device.
LEMMA TypeNumbers ==
  /\ CPU_POWER_PACKAGE \in 100 .. 199 /\ CPU_UTILIZATION \in 100 .. 199
  /\ \A t \in {RAM_TOTAL, RAM_USED} : t \notin 100 .. 199 /\ t \notin 200 .. 299
  /\ \A t \in GpuTypes : t \notin 100 .. 199 /\ t \in 200 .. 299
BY DEF CPU_UTILIZATION, CPU_POWER_PACKAGE, RAM_TOTAL, RAM_USED, GpuTypes, GPU_VRAM_USED,
       GPU_UTILIZATION, GPU_SHARED_MEMORY_UTILIZATION, GPU_TEMPERATURE, GPU_POWER

\* The casts of MakeBufferKey keep an address whose domain has 16 bits.
LEMMA CastGpu ==
  ASSUME NEW id \in GpuIds \cup {NoGpu}, ~(id[1] >= 65536)
  PROVE  <<id[1] % 65536, id[2] % 256, id[3] % 256, id[4] % 256>> = id
<1>1. id \in Nat \X Nat \X Nat \X {0} /\ id[2] < 256 /\ id[3] < 256
  BY GpuAssumption DEF NoGpu
<1>2. /\ id[1] \in Nat /\ id[2] \in Nat /\ id[3] \in Nat /\ id[4] = 0
      /\ id = <<id[1], id[2], id[3], id[4]>>
  BY <1>1
<1>3. id[1] % 65536 = id[1] /\ id[2] % 256 = id[2] /\ id[3] % 256 = id[3] /\ id[4] % 256 = id[4]
  BY <1>1, <1>2
<1> QED BY <1>2, <1>3

\* For every GPU, CPU and system metric, the device in the header of its batch is
\* the one the collector named, but for the two exceptions DeviceSurvives states.
THEOREM DeviceAlwaysSurvives == Spec => []DeviceSurvives
<1>1. Init => ShapeInv
  BY DEF Init, ShapeInv, Delivered
<1>2. ShapeInv => DeviceSurvives
  <2> SUFFICES ASSUME NEW m \in Delivered, ShapeOK(m)
               PROVE  LET d == BatchDevice(MakeBufferKey(m)) IN
                      \/ d = m.dev
                      \/ m.dev = NoDevice /\ d = Device("cpu", <<0, 0>>)
                      \/ m.dev.kind = "gpu" /\ m.dev.id[1] >= 65536
    BY DEF ShapeInv, DeviceSurvives
  <2> DEFINE key == MakeBufferKey(m)
  <2>1. key.type = m.type
    BY DEF MakeBufferKey
  <2>2. CASE m.type = CPU_POWER_PACKAGE /\ m.dev = Device("cpu", <<0, 0>>)
    <3>1. key.cpu = <<0, 0>>
      BY <2>2 DEF MakeBufferKey, Device
    <3> HIDE DEF key
    <3>2. BatchDevice(key) = Device("cpu", key.cpu)
      BY <2>1, <2>2, TypeNumbers DEF BatchDevice
    <3> QED BY <2>2, <3>1, <3>2 DEF key
  <2>3. CASE m.type \in {CPU_UTILIZATION, RAM_TOTAL, RAM_USED} /\ m.dev = NoDevice
    <3>1. key.cpu = <<0, 0>>
      BY <2>3 DEF MakeBufferKey, NoDevice
    <3> HIDE DEF key
    <3>2. BatchDevice(key) \in {Device("cpu", key.cpu), NoDevice}
      BY <2>1, <2>3, TypeNumbers DEF BatchDevice
    <3> QED BY <2>3, <3>1, <3>2 DEF key
  <2>4. ASSUME m.type \in GpuTypes, NEW id \in GpuIds \cup {NoGpu}, m.dev = Device("gpu", id)
        PROVE  BatchDevice(key) = m.dev \/ (m.dev.kind = "gpu" /\ m.dev.id[1] >= 65536)
    <3>1. m.dev.kind = "gpu" /\ m.dev.id = id
      BY <2>4 DEF Device
    <3>2. key.gpu = <<id[1] % 65536, id[2] % 256, id[3] % 256, id[4] % 256>>
      BY <3>1 DEF MakeBufferKey
    <3> HIDE DEF key
    <3>3. BatchDevice(key) = Device("gpu", key.gpu)
      BY <2>1, <2>4, TypeNumbers DEF BatchDevice
    <3> QED BY <2>4, <3>1, <3>2, <3>3, CastGpu
  <2> QED BY <2>2, <2>3, <2>4 DEF ShapeOK
<1> QED BY <1>1, <1>2, ShapeStep, KindsAlways, NvmlAlways, RoundAlways, PTL DEF Spec

-----------------------------------------------------------------------------
(* The utilization                                                         *)

\* The last reading of /proc/stat: its time that is not idle is busy time that
\* has passed, and nothing has reached the range of the type.
StatInv ==
    /\ hw.busy + hw.idle + hw.iowait < WordMod
    /\ prev \in [total : Nat, idle : Nat]
    /\ prev.idle <= prev.total /\ prev.total < WordMod
    /\ prev.total - prev.idle <= hw.busy

\* A difference that is in range is kept by the unsigned subtraction.
LEMMA MinusInRange == \A a, b \in Nat : b <= a /\ a < WordMod => Minus(a, b) = a - b
BY CounterAssumption DEF Minus

LEMMA StatStep == Kinds /\ StatInv /\ [Next]_vars => StatInv'
<1> SUFFICES ASSUME Kinds, StatInv, [Next]_vars PROVE StatInv'
  OBVIOUS
<1>1. hw.busy \in Nat /\ hw.idle \in Nat /\ hw.iowait \in Nat
  BY DEF Kinds, Hardware
<1>2. CASE hw' = hw /\ prev' \in {prev, ReadCpuStats, [total |-> 0, idle |-> 0]}
  <2>1. CASE prev' = prev
    BY <1>2, <2>1 DEF StatInv
  <2>2. CASE prev' = [total |-> 0, idle |-> 0]
    BY <1>1, <1>2, <2>2, CounterAssumption DEF StatInv
  <2>3. CASE prev' = ReadCpuStats
    <3>1. prev' = [total |-> hw.busy + hw.idle + hw.iowait, idle |-> hw.idle + hw.iowait]
      BY <2>3 DEF ReadCpuStats
    <3> QED BY <1>1, <1>2, <3>1 DEF StatInv
  <2> QED BY <1>2, <2>1, <2>2, <2>3
<1>3. CASE Sleep
  <2>1. PICK t \in Ticks :
          /\ hw.iowait + t.iowait >= 0
          /\ hw' = [f \in DOMAIN hw |-> hw[f] + t[f]]
          /\ hw'.busy + hw'.idle + hw'.iowait < WordMod
    BY <1>3 DEF Sleep
  <2>2. hw'.busy = hw.busy + t.busy /\ t.busy \in Nat
    BY <2>1, Slept DEF Kinds
  <2>3. prev' = prev
    BY <1>3 DEF Sleep, rateVars
  <2>4. prev.total \in Nat /\ prev.idle \in Nat
    BY DEF StatInv
  <2>5. prev.total - prev.idle <= hw'.busy
    BY <1>1, <2>2, <2>4 DEF StatInv
  <2> QED BY <2>1, <2>3, <2>5 DEF StatInv
<1>4. CASE Nvml
  BY <1>2, <1>4, NvmlEffect DEF rateVars
<1>5. ASSUME NEW c \in Names, Collect(c) PROVE StatInv'
  BY <1>2, <1>5 DEF Collect, CollectRapl, CollectStat, CollectRam, rateVars
<1>6. CASE ~Sleep /\ ~Nvml /\ ~(\E c \in Names : Collect(c))
  <2>1. UNCHANGED <<hw, prev>>
    BY <1>6 DEF Next, vars, LoadConfigStep, Resolve, InitCollector, InitRapl, MakeBuffer, FirstRound,
         Exit, Throw, Destroy, rateVars
  <2> QED BY <1>2, <2>1
<1> QED BY <1>3, <1>4, <1>5, <1>6

\* A utilization is a percentage whenever the two readings it is made of are in
\* order, however long the agent runs: the unsigned differences of
\* ProcStatCollector::Collect do not wrap.
THEOREM UtilizationAlwaysInRange == Spec => UtilizationInRange
<1>1. Init => StatInv
  BY CounterAssumption DEF Init, StatInv
<1>2. ASSUME Kinds, NvmlInv, RoundInv, StatInv, [Next]_vars
      PROVE  [\A i \in DOMAIN got' \ DOMAIN got :
                got'[i].type = CPU_UTILIZATION /\ prev'.total >= prev.total /\ prev'.idle >= prev.idle
                => got'[i].value[1] \in 0 .. got'[i].value[2]]_vars
  <2> SUFFICES ASSUME NEW m \in New, m.type = CPU_UTILIZATION,
                      prev'.total >= prev.total, prev'.idle >= prev.idle
               PROVE  m.value[1] \in 0 .. m.value[2]
    BY DEF New
  <2>1. FromStat(m)
    BY <1>2, NewMetric, TypesApart DEF FromRapl, FromRam, FromNvml
  <2> DEFINE total == Minus(prev'.total, prev.total)
             idle == Minus(prev'.idle, prev.idle)
  <2>2. /\ hw.busy \in Nat /\ hw.idle \in Nat /\ hw.iowait \in Nat
        /\ prev.total \in Nat /\ prev.idle \in Nat
    BY <1>2 DEF Kinds, Hardware, StatInv
  <2>3. \/ prev'.total = 0 /\ prev'.idle = 0
        \/ /\ prev'.total = hw.busy + hw.idle + hw.iowait
           /\ prev'.idle = hw.idle + hw.iowait
    BY <2>1 DEF FromStat, ReadCpuStats
  <2>4. /\ prev'.total \in Nat /\ prev'.idle \in Nat
        /\ prev'.total < WordMod /\ prev'.idle < WordMod
    <3>1. hw.busy + hw.idle + hw.iowait < WordMod /\ WordMod \in Nat /\ WordMod > 3
      BY <1>2, CounterAssumption DEF StatInv
    <3> QED BY <2>2, <2>3, <3>1
  <2>5. total = prev'.total - prev.total /\ idle = prev'.idle - prev.idle
    BY <2>2, <2>4, MinusInRange
  <2>6. idle <= total
    <3>1. prev.idle <= prev.total /\ prev.total - prev.idle <= hw.busy
      BY <1>2 DEF StatInv
    <3> HIDE DEF total, idle
    <3>2. CASE prev'.total = 0 /\ prev'.idle = 0
      BY <2>2, <2>5, <3>1, <3>2
    <3>3. CASE /\ prev'.total = hw.busy + hw.idle + hw.iowait
               /\ prev'.idle = hw.idle + hw.iowait
      BY <2>2, <2>5, <3>1, <3>3
    <3> QED BY <2>3, <3>2, <3>3
  <2>7. total \in Nat /\ idle \in Nat /\ total < WordMod
    BY <2>2, <2>4, <2>5, CounterAssumption
  <2>8. Minus(total, idle) = total - idle
    BY <2>6, <2>7, MinusInRange
  <2>9. m.value = IF total > 0 THEN <<Minus(total, idle), total>> ELSE <<0, 1>>
    BY <2>1 DEF FromStat, Usage
  <2> HIDE DEF total, idle
  <2> QED BY <2>6, <2>7, <2>8, <2>9
<1> QED
  BY <1>1, <1>2, StatStep, KindsAlways, NvmlAlways, RoundAlways, PTL DEF Spec, UtilizationInRange

=============================================================================
