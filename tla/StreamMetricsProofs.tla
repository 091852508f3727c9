------------------------ MODULE StreamMetricsProofs -------------------------
(***************************************************************************)
(* IndInv is an inductive invariant of StreamMetrics, for every set of     *)
(* series, every capacity of the rings (zero included) and any number of   *)
(* samples.  Type correctness, the integrity of the rings, AckKnown and    *)
(* NoLostWrite follow from it.                                             *)
(***************************************************************************)
EXTENDS StreamMetrics, SeriesBufferProofs

-----------------------------------------------------------------------------
(* Sequences of messages with ids                                          *)

\* The ids of the empty sequence.
LEMMA EmptyIds == IdsOf(<<>>) = {} /\ Ascending(<<>>)
BY DEF IdsOf, Ascending

\* The ids of typed messages are natural numbers.
LEMMA NatIds ==
    ASSUME NEW T, NEW s \in Seq(T), \A x \in T : x.id \in Nat
    PROVE  IdsOf(s) \subseteq Nat
<1>1. \A i \in DOMAIN s : s[i] \in T
  OBVIOUS
<1> QED BY <1>1 DEF IdsOf

\* A sequence without ids is empty.
LEMMA EmptyIfNoIds ==
    ASSUME NEW T, NEW s \in Seq(T), IdsOf(s) = {}
    PROVE  s = <<>>
<1>1. s # <<>> => 1 \in DOMAIN s
  OBVIOUS
<1> QED BY <1>1 DEF IdsOf

\* Appending a message adds its id, and keeps the order if it is the greatest.
LEMMA AppendIds ==
    ASSUME NEW T, NEW s \in Seq(T), NEW x \in T
    PROVE  /\ IdsOf(Append(s, x)) = IdsOf(s) \cup {x.id}
           /\ Ascending(s) /\ Below(IdsOf(s), {x.id}) => Ascending(Append(s, x))
<1>1. /\ Len(s) \in Nat /\ DOMAIN s = 1 .. Len(s)
      /\ DOMAIN Append(s, x) = 1 .. Len(s) + 1
      /\ \A i \in 1 .. Len(s) : Append(s, x)[i] = s[i]
      /\ Append(s, x)[Len(s) + 1] = x
  OBVIOUS
<1>2. IdsOf(Append(s, x)) = IdsOf(s) \cup {x.id}
  BY <1>1 DEF IdsOf
<1>3. ASSUME Ascending(s), Below(IdsOf(s), {x.id})
      PROVE  Ascending(Append(s, x))
  BY <1>1, <1>3 DEF Ascending, Below, IdsOf
<1> QED BY <1>2, <1>3

\* Taking the first message off leaves the greater ids.
LEMMA TailIds ==
    ASSUME NEW T, NEW s \in Seq(T), s # <<>>, Ascending(s)
    PROVE  /\ IdsOf(Tail(s)) \subseteq IdsOf(s)
           /\ Head(s).id \in IdsOf(s)
           /\ Below({Head(s).id}, IdsOf(Tail(s)))
           /\ Ascending(Tail(s))
<1>1. /\ Len(s) \in Nat /\ Len(s) > 0 /\ DOMAIN s = 1 .. Len(s)
      /\ DOMAIN Tail(s) = 1 .. Len(s) - 1
      /\ \A i \in 1 .. Len(s) - 1 : Tail(s)[i] = s[i + 1]
      /\ Head(s) = s[1]
  OBVIOUS
<1>2. \A i \in 1 .. Len(s) - 1 : i + 1 \in DOMAIN s
  BY <1>1
<1>3. IdsOf(Tail(s)) \subseteq IdsOf(s)
  BY <1>1, <1>2 DEF IdsOf
<1>4. Head(s).id \in IdsOf(s)
  BY <1>1 DEF IdsOf
<1>5. Below({Head(s).id}, IdsOf(Tail(s)))
  BY <1>1, <1>2 DEF Below, IdsOf, Ascending
<1>6. Ascending(Tail(s))
  BY <1>1, <1>2 DEF Ascending
<1> QED BY <1>3, <1>4, <1>5, <1>6

\* Append and Tail commute on a sequence that is not empty.
LEMMA TailOfAppend ==
    ASSUME NEW T, NEW s \in Seq(T), s # <<>>, NEW x \in T
    PROVE  Tail(Append(s, x)) = Append(Tail(s), x)
<1>1. Tail(Append(s, x)) \in Seq(T) /\ Append(Tail(s), x) \in Seq(T)
  OBVIOUS
<1>2. Len(Tail(Append(s, x))) = Len(s) /\ Len(Append(Tail(s), x)) = Len(s)
  OBVIOUS
<1>3. \A i \in 1 .. Len(s) : Tail(Append(s, x))[i] = Append(Tail(s), x)[i]
  OBVIOUS
<1> QED BY <1>1, <1>2, <1>3, SeqEqual

-----------------------------------------------------------------------------
(* What the parts of the invariant say of a step                           *)

\* Everything in the pipeline carries a natural number as its id.
LEMMA PipelineNat ==
    ASSUME TypeOK, WriterOK
    PROVE  /\ IdsOf(acks) \subseteq Nat /\ IdsOf(wire) \subseteq Nat
           /\ IdsOf(Unsent) \subseteq Nat /\ ServerIds \subseteq Nat
           /\ CurIds \subseteq Nat /\ PendingIds \subseteq Nat
           /\ Unsent \in Seq(BatchType)
<1>1. /\ acks \in Seq([id : Nat]) /\ wire \in Seq(BatchType)
      /\ writerqu \in Seq(BatchType) /\ writing \in BOOLEAN
  BY DEF TypeOK
<1>2. (\A x \in [id : Nat] : x.id \in Nat) /\ (\A x \in BatchType : x.id \in Nat)
  BY DEF BatchType
<1>3. IdsOf(acks) \subseteq Nat /\ IdsOf(wire) \subseteq Nat
  <2>1. IdsOf(acks) \subseteq Nat
    BY <1>1, <1>2, NatIds
  <2>2. IdsOf(wire) \subseteq Nat
    BY <1>1, <1>2, NatIds
  <2> QED BY <2>1, <2>2
<1>4. Unsent \in Seq(BatchType)
  BY <1>1 DEF Unsent, WriterOK
<1>5. IdsOf(Unsent) \subseteq Nat
  BY <1>2, <1>4, NatIds
<1>6. ServerIds \subseteq Nat /\ CurIds \subseteq Nat /\ PendingIds \subseteq Nat
  BY DEF TypeOK, ServerIds, CurIds, PendingIds, BatchType
<1> QED BY <1>3, <1>4, <1>5, <1>6

\* A step that leaves every place of the pipeline alone keeps its order.
LEMMA PipelineFrame ==
    ASSUME PipelineOK, acks' = acks, wire' = wire, Unsent' = Unsent,
           CurIds' = CurIds, ServerIds' = ServerIds, PendingIds' = PendingIds,
           batchId' = batchId, pollPc' = "push" => cur'.id \in PendingIds
    PROVE  PipelineOK'
BY DEF PipelineOK, IdsOf, Ascending, Below

\* A step that leaves the rings, the snapshots and the batch alone.
LEMMA RingsFrame ==
    ASSUME RingsIntact, SnapshotsOK, series' = series, pending' = pending, cur' = cur
    PROVE  RingsIntact' /\ SnapshotsOK'
BY DEF RingsIntact, SnapshotsOK

-----------------------------------------------------------------------------
(* The initial state and the steps of the scheduler thread                 *)

\* Initially nothing is in the pipeline.
LEMMA InitInd == Init => IndInv
<1> SUFFICES ASSUME Init PROVE IndInv
  OBVIOUS
<1> USE DEF Init
<1>1. TypeOK
  <2>1. series \in [Keys -> SeriesType]
    BY NewSeriesIntact
  <2>2. /\ keys \in SUBSET Keys /\ todo \in SUBSET Keys
        /\ pending \in SUBSET [id : Nat, key : Keys, end : Nat]
        /\ received \in [Keys -> Seq(Nat)] /\ dropped \in [Keys -> SUBSET Nat]
    OBVIOUS
  <2>3. srv \in [pc : {"recv", "ack", "returned"}, id : Nat]
    BY DEF Receiving
  <2>4. /\ pollPc \in {"idle", "round", "register", "push", "write"}
        /\ cur \in BatchType \cup {NoBatch}
        /\ pollPc \in {"register", "push"} <=> cur # NoBatch
        /\ batchId \in Nat /\ writeCbs \in Nat
        /\ writing \in BOOLEAN /\ writeOp \in BOOLEAN /\ readOp \in BOOLEAN
        /\ rpc \in {"open", "broken", "done"}
    OBVIOUS
  <2>5. writerqu \in Seq(BatchType) /\ wire \in Seq(BatchType) /\ acks \in Seq([id : Nat])
    OBVIOUS
  <2> QED BY <2>1, <2>2, <2>3, <2>4, <2>5 DEF TypeOK
<1>2. RingsIntact
  BY NewSeriesIntact DEF RingsIntact
<1>3. WriterOK /\ SnapshotsOK /\ NoLostWrite
  BY DEF WriterOK, SnapshotsOK, NoLostWrite
<1>4. PipelineOK
  <2>1. Unsent = <<>>
    BY DEF Unsent
  <2>2. /\ IdsOf(acks) = {} /\ IdsOf(wire) = {} /\ IdsOf(Unsent) = {}
        /\ ServerIds = {} /\ CurIds = {} /\ PendingIds = {}
        /\ Ascending(acks) /\ Ascending(wire) /\ Ascending(Unsent)
    BY <2>1, EmptyIds DEF ServerIds, CurIds, PendingIds, Receiving
  <2> QED BY <2>2 DEF PipelineOK, Below
<1> QED BY <1>1, <1>2, <1>3, <1>4 DEF IndInv

\* A round of collection pushes into rings and disturbs nothing in flight.
LEMMA AddMetricsInd ==
    ASSUME IndInv, NEW ms \in SUBSET (Keys \cup {Unspecified}), AddMetrics(ms)
    PROVE  IndInv'
<1> DEFINE ks == ms \ {Unspecified}
<1>1. ks \subseteq Keys
  OBVIOUS
<1>2. /\ keys' = keys \cup ks
      /\ series' = [k \in Keys |->
                      IF k \in ks THEN Push(series[k], series[k].head + 1) ELSE series[k]]
      /\ dropped' = [k \in Keys |->
                       IF k \in ks /\ DropsOldest(series[k])
                       THEN dropped[k] \cup {series[k].tail + 1}
                       ELSE dropped[k]]
      /\ UNCHANGED <<pollVars, pending, writeVars, readOp, rpc, wire, acks, serverVars>>
  BY DEF AddMetrics
<1> HIDE DEF ks
<1>3. TypeOK /\ RingsIntact
  BY DEF IndInv
<1>4. ASSUME NEW k \in Keys
      PROVE  /\ series'[k] \in SeriesType
             /\ RingIntact(series'[k])
             /\ series'[k].head \in Nat /\ series[k].head \in Nat
             /\ series[k].tail \in Nat
             /\ series'[k].head >= series[k].head
  <2>1. series[k] \in SeriesType /\ RingIntact(series[k])
    BY <1>3 DEF TypeOK, RingsIntact
  <2>2. CASE k \in ks
    <3>1. series'[k] = Push(series[k], series[k].head + 1)
      BY <1>2, <2>2
    <3>2. series'[k] \in SeriesType /\ RingIntact(series'[k])
      BY <2>1, <3>1, PushIntact
    <3>3. series'[k].head = series[k].head \/ series'[k].head = series[k].head + 1
      BY <3>1 DEF Push
    <3> QED BY <2>1, <3>2, <3>3 DEF SeriesType
  <2>3. CASE k \notin ks
    <3>1. series'[k] = series[k]
      BY <1>2, <2>3
    <3> QED BY <2>1, <3>1 DEF SeriesType
  <2> QED BY <2>2, <2>3
<1>5. TypeOK'
  <2>1. series' \in [Keys -> SeriesType]
    BY <1>2, <1>4
  <2>2. dropped' \in [Keys -> SUBSET Nat]
    BY <1>2, <1>3, <1>4 DEF TypeOK
  <2>3. keys' \in SUBSET Keys
    BY <1>1, <1>2, <1>3 DEF TypeOK
  <2> QED BY <1>2, <1>3, <2>1, <2>2, <2>3
          DEF TypeOK, pollVars, writeVars, serverVars
<1>6. RingsIntact'
  BY <1>4 DEF RingsIntact
<1>7. SnapshotsOK'
  <2>1. pending' = pending /\ cur' = cur
    BY <1>2 DEF pollVars
  <2>2. ASSUME NEW p \in pending PROVE p.end <= series'[p.key].head
    <3>1. p.end \in Nat /\ p.key \in Keys /\ p.end <= series[p.key].head
      BY <1>3 DEF TypeOK, IndInv, SnapshotsOK
    <3> QED BY <1>4, <3>1
  <2>3. ASSUME cur # NoBatch PROVE cur.end <= series'[cur.key].head
    <3>1. cur.end \in Nat /\ cur.key \in Keys /\ cur.end <= series[cur.key].head
      BY <1>3, <2>3 DEF TypeOK, BatchType, IndInv, SnapshotsOK
    <3> QED BY <1>4, <3>1
  <2> QED BY <2>1, <2>2, <2>3 DEF SnapshotsOK
<1>8. WriterOK' /\ NoLostWrite'
  BY <1>2 DEF IndInv, WriterOK, NoLostWrite, pollVars, writeVars
<1>9. PipelineOK'
  <2>1. /\ acks' = acks /\ wire' = wire /\ Unsent' = Unsent /\ CurIds' = CurIds
        /\ ServerIds' = ServerIds /\ PendingIds' = PendingIds /\ batchId' = batchId
        /\ pollPc' = pollPc /\ cur' = cur
    BY <1>2 DEF Unsent, CurIds, ServerIds, PendingIds, pollVars, writeVars, serverVars
  <2> QED BY <2>1, PipelineFrame DEF IndInv, PipelineOK
<1> QED BY <1>5, <1>6, <1>7, <1>8, <1>9 DEF IndInv

-----------------------------------------------------------------------------
(* The steps of poll_thread_                                               *)

\* Starting a round, or ending one, moves no batch.
LEMMA PollCheckInd ==
    ASSUME IndInv, PollCheck \/ PollRecheck
    PROVE  IndInv'
<1>1. TypeOK'
  BY DEF IndInv, TypeOK, PollCheck, PollRecheck, bufferVars, writeVars, serverVars
<1>2. RingsIntact' /\ SnapshotsOK'
  BY RingsFrame DEF IndInv, PollCheck, PollRecheck, bufferVars
<1>3. WriterOK'
  BY DEF IndInv, WriterOK, PollCheck, PollRecheck, writeVars
<1>4. NoLostWrite'
  <2>1. CASE PollCheck
    BY <2>1 DEF NoLostWrite, PollCheck
  <2>2. CASE PollRecheck /\ pending # {}
    BY <2>2 DEF NoLostWrite, PollRecheck
  <2>3. CASE PollRecheck /\ pending = {}
    <3>1. IdsOf(Unsent) = {} /\ Unsent \in Seq(BatchType)
      BY <2>3, PipelineNat DEF IndInv, PipelineOK, PendingIds
    <3>2. Unsent = <<>>
      BY <3>1, EmptyIfNoIds
    <3> QED BY <2>3, <3>2 DEF NoLostWrite, PollRecheck, Unsent, writeVars
  <2> QED BY <2>1, <2>2, <2>3
<1>5. PipelineOK'
  <2>1. /\ acks' = acks /\ wire' = wire /\ batchId' = batchId /\ pollPc' # "push"
        /\ PipelineOK
    BY DEF IndInv, PollCheck, PollRecheck
  <2>2. Unsent' = Unsent /\ CurIds' = CurIds /\ ServerIds' = ServerIds /\ PendingIds' = PendingIds
    BY DEF PollCheck, PollRecheck, Unsent, CurIds, ServerIds, PendingIds, writeVars, serverVars
  <2> QED BY <2>1, <2>2, PipelineFrame
<1> QED BY <1>1, <1>2, <1>3, <1>4, <1>5 DEF IndInv

\* A snapshot that is not empty becomes the batch with the greatest id so far.
LEMMA PollSnapshotInd ==
    ASSUME IndInv, NEW k \in Keys, PollSnapshot(k)
    PROVE  IndInv'
<1> DEFINE snapshot == GetSnapshot(series[k])
           batch == [id |-> batchId, key |-> k, samples |-> snapshot.samples,
                     end |-> snapshot.end]
<1>1. /\ pollPc = "round" /\ todo' = todo \ {k}
      /\ UNCHANGED <<bufferVars, pending, writeVars, readOp, rpc, wire, acks, serverVars>>
      /\ \/ UNCHANGED <<pollPc, cur, batchId>>
         \/ cur' = batch /\ batchId' = batchId + 1 /\ pollPc' = "register"
  BY DEF PollSnapshot
<1>2. TypeOK /\ RingsIntact /\ WriterOK /\ SnapshotsOK /\ PipelineOK /\ NoLostWrite
  BY DEF IndInv
<1>3. /\ series[k] \in SeriesType /\ series[k].head \in Nat
      /\ snapshot.samples \in Seq(Nat) /\ snapshot.end = series[k].head
  <2>1. series[k] \in SeriesType /\ RingIntact(series[k])
    BY <1>2 DEF TypeOK, RingsIntact
  <2> QED BY <2>1, SnapshotConsecutive DEF SeriesType
<1> HIDE DEF snapshot
<1>4. batch \in BatchType /\ batch # NoBatch /\ batch.end <= series[batch.key].head
  BY <1>2, <1>3 DEF TypeOK, BatchType, NoBatch
<1>5. cur = NoBatch /\ CurIds = {}
  BY <1>1, <1>2 DEF TypeOK, CurIds
<1>6. batch.id = batchId
  OBVIOUS
<1> HIDE DEF batch
<1>7. TypeOK'
  BY <1>1, <1>2, <1>4, <1>5 DEF TypeOK, bufferVars, writeVars, serverVars
<1>8. RingsIntact' /\ SnapshotsOK'
  BY <1>1, <1>2, <1>4 DEF RingsIntact, SnapshotsOK, bufferVars
<1>9. WriterOK' /\ NoLostWrite'
  BY <1>1, <1>2 DEF WriterOK, NoLostWrite, writeVars
<1>10. PipelineOK'
  <2>1. /\ acks' = acks /\ wire' = wire /\ Unsent' = Unsent
        /\ ServerIds' = ServerIds /\ PendingIds' = PendingIds
    BY <1>1 DEF Unsent, ServerIds, PendingIds, writeVars, serverVars
  <2>2. CASE UNCHANGED <<pollPc, cur, batchId>>
    <3>1. CurIds' = CurIds /\ pollPc' # "push"
      BY <1>1, <2>2 DEF CurIds
    <3> QED BY <1>2, <2>1, <2>2, <3>1, PipelineFrame
  <2>3. CASE cur' = batch /\ batchId' = batchId + 1 /\ pollPc' = "register"
    <3>1. CurIds' = {batchId}
      BY <1>6, <2>3 DEF CurIds
    <3>2. /\ IdsOf(acks) \subseteq Nat /\ IdsOf(wire) \subseteq Nat
          /\ IdsOf(Unsent) \subseteq Nat /\ ServerIds \subseteq Nat
          /\ PendingIds \subseteq Nat /\ batchId \in Nat
      BY <1>2, PipelineNat DEF TypeOK
    <3>3. IdsOf(acks') = IdsOf(acks) /\ IdsOf(wire') = IdsOf(wire) /\ IdsOf(Unsent') = IdsOf(Unsent)
      BY <2>1
    <3>4. Ascending(acks') /\ Ascending(wire') /\ Ascending(Unsent')
      BY <1>2, <2>1 DEF PipelineOK
    <3> DEFINE All == IdsOf(acks) \cup ServerIds \cup IdsOf(wire) \cup IdsOf(Unsent) \cup PendingIds
    <3>5. Below(All, {batchId}) /\ All \subseteq Nat
      BY <1>2, <3>2 DEF PipelineOK, Below
    <3>6. Below(All \cup {batchId}, {batchId + 1})
      <4> HIDE DEF All
      <4> QED BY <3>2, <3>5 DEF Below
    <3> QED BY <1>2, <1>5, <2>1, <2>3, <3>1, <3>3, <3>4, <3>5, <3>6 DEF PipelineOK, Below
  <2> QED BY <1>1, <2>2, <2>3
<1> QED BY <1>7, <1>8, <1>9, <1>10 DEF IndInv

\* Registering the batch in pending_snapshots_ comes before queueing it.
LEMMA PollRegisterInd ==
    ASSUME IndInv, PollRegister
    PROVE  IndInv'
<1> DEFINE p == [id |-> cur.id, key |-> cur.key, end |-> cur.end]
<1>1. /\ pollPc = "register" /\ pollPc' = "push" /\ pending' = pending \cup {p}
      /\ UNCHANGED <<bufferVars, todo, cur, batchId, writeVars, readOp, rpc, wire, acks, serverVars>>
  BY DEF PollRegister
<1>2. TypeOK /\ RingsIntact /\ WriterOK /\ SnapshotsOK /\ PipelineOK /\ NoLostWrite
  BY DEF IndInv
<1>3. cur \in BatchType /\ cur # NoBatch
  BY <1>1, <1>2 DEF TypeOK
<1>4. /\ p \in [id : Nat, key : Keys, end : Nat]
      /\ p.id = cur.id /\ p.end <= series[p.key].head
  BY <1>2, <1>3 DEF BatchType, SnapshotsOK
<1> HIDE DEF p
<1>5. TypeOK'
  BY <1>1, <1>2, <1>4 DEF TypeOK, bufferVars, writeVars, serverVars
<1>6. RingsIntact' /\ SnapshotsOK'
  BY <1>1, <1>2, <1>4 DEF RingsIntact, SnapshotsOK, bufferVars
<1>7. WriterOK' /\ NoLostWrite'
  BY <1>1, <1>2 DEF WriterOK, NoLostWrite, writeVars
<1>8. PipelineOK'
  <2>1. /\ acks' = acks /\ wire' = wire /\ Unsent' = Unsent /\ batchId' = batchId
        /\ ServerIds' = ServerIds /\ CurIds = {cur.id} /\ CurIds' = {cur.id} /\ cur' = cur
    BY <1>1 DEF Unsent, ServerIds, CurIds, writeVars, serverVars
  <2>2. PendingIds' = PendingIds \cup {cur.id}
    BY <1>1, <1>4 DEF PendingIds
  <2>3. IdsOf(acks') = IdsOf(acks) /\ IdsOf(wire') = IdsOf(wire) /\ IdsOf(Unsent') = IdsOf(Unsent)
    BY <2>1
  <2>4. Ascending(acks') /\ Ascending(wire') /\ Ascending(Unsent')
    BY <1>2, <2>1 DEF PipelineOK
  <2> QED BY <1>2, <2>1, <2>2, <2>3, <2>4 DEF PipelineOK, Below
<1> QED BY <1>5, <1>6, <1>7, <1>8 DEF IndInv

\* Queueing the batch puts it behind every other batch.
LEMMA PollPushInd ==
    ASSUME IndInv, PollPush
    PROVE  IndInv'
<1>1. /\ pollPc = "push" /\ pollPc' = "round" /\ cur' = NoBatch
      /\ writerqu' = Append(writerqu, cur)
      /\ UNCHANGED <<bufferVars, todo, batchId, pending, writing, writeOp, writeCbs,
                     readOp, rpc, wire, acks, serverVars>>
  BY DEF PollPush
<1>2. TypeOK /\ RingsIntact /\ WriterOK /\ SnapshotsOK /\ PipelineOK /\ NoLostWrite
  BY DEF IndInv
<1>3. cur \in BatchType /\ writerqu \in Seq(BatchType) /\ writing \in BOOLEAN
  BY <1>1, <1>2 DEF TypeOK
<1>4. TypeOK'
  BY <1>1, <1>2, <1>3 DEF TypeOK, bufferVars, serverVars
<1>5. RingsIntact' /\ SnapshotsOK'
  BY <1>1, <1>2 DEF RingsIntact, SnapshotsOK, bufferVars
<1>6. WriterOK' /\ NoLostWrite'
  BY <1>1, <1>2, <1>3 DEF WriterOK, NoLostWrite
<1>7. PipelineOK'
  <2>1. /\ acks' = acks /\ wire' = wire /\ batchId' = batchId /\ ServerIds' = ServerIds
        /\ PendingIds' = PendingIds /\ CurIds = {cur.id} /\ CurIds' = {}
    BY <1>1 DEF ServerIds, CurIds, PendingIds, serverVars
  <2>2. Unsent' = Append(Unsent, cur)
    <3>1. CASE writing
      BY <1>1, <1>2, <1>3, <3>1, TailOfAppend DEF Unsent, WriterOK
    <3>2. CASE ~writing
      BY <1>1, <3>2 DEF Unsent
    <3> QED BY <3>1, <3>2
  <2>3. Unsent \in Seq(BatchType)
    BY <1>2, PipelineNat
  <2>4. IdsOf(Unsent') = IdsOf(Unsent) \cup {cur.id} /\ Ascending(Unsent')
    BY <1>2, <1>3, <2>1, <2>2, <2>3, AppendIds DEF PipelineOK
  <2>5. IdsOf(acks') = IdsOf(acks) /\ IdsOf(wire') = IdsOf(wire)
    BY <2>1
  <2>6. Ascending(acks') /\ Ascending(wire')
    BY <1>2, <2>1 DEF PipelineOK
  <2> QED BY <1>1, <1>2, <2>1, <2>4, <2>5, <2>6 DEF PipelineOK, Below
<1> QED BY <1>4, <1>5, <1>6, <1>7 DEF IndInv

-----------------------------------------------------------------------------
(* Write() and its two callers                                             *)

\* Write moves at most the first unsent batch from the queue to the connection,
\* and leaves no queued batch without a write under way.
LEMMA WriteKeeps ==
    ASSUME TypeOK, WriterOK, PipelineOK, Write,
           UNCHANGED <<writerqu, pending, acks, serverVars, batchId, cur>>,
           pollPc' = pollPc \/ (pollPc = "write" /\ pollPc' = "idle")
    PROVE  /\ writing' \in BOOLEAN /\ writeOp' \in BOOLEAN /\ wire' \in Seq(BatchType)
           /\ WriterOK' /\ NoLostWrite' /\ PipelineOK'
<1>1. /\ writing \in BOOLEAN /\ writeOp \in BOOLEAN
      /\ wire \in Seq(BatchType) /\ writerqu \in Seq(BatchType)
  BY DEF TypeOK
<1>2. /\ acks' = acks /\ batchId' = batchId /\ cur' = cur /\ ServerIds' = ServerIds
      /\ PendingIds' = PendingIds /\ CurIds' = CurIds
      /\ pollPc' = "push" => pollPc = "push"
  BY DEF ServerIds, PendingIds, CurIds, serverVars
<1>3. CASE writing \/ writerqu = <<>>
  <2>1. UNCHANGED <<writing, writeOp, wire>>
    BY <1>3 DEF Write
  <2>2. Unsent' = Unsent
    BY <2>1 DEF Unsent
  <2>3. PipelineOK'
    BY <1>2, <2>1, <2>2, PipelineFrame DEF PipelineOK
  <2> QED BY <1>1, <1>3, <2>1, <2>3 DEF WriterOK, NoLostWrite
<1>4. CASE ~writing /\ writerqu # <<>>
  <2>1. /\ writing' = TRUE /\ writeOp' = (rpc # "done")
        /\ wire' = IF rpc = "open" THEN Append(wire, Head(writerqu)) ELSE wire
    BY <1>4 DEF Write, StartWrite
  <2>2. Head(writerqu) \in BatchType
    BY <1>1, <1>4
  <2>3. writing' \in BOOLEAN /\ writeOp' \in BOOLEAN /\ wire' \in Seq(BatchType)
    BY <1>1, <2>1, <2>2
  <2>4. WriterOK' /\ NoLostWrite'
    BY <1>4, <2>1 DEF WriterOK, NoLostWrite
  <2>5. Unsent = writerqu /\ Unsent' = Tail(writerqu)
    BY <1>4, <2>1 DEF Unsent
  <2> DEFINE h == Head(writerqu)
  <2>6. /\ IdsOf(Unsent') \subseteq IdsOf(Unsent) /\ h.id \in IdsOf(Unsent)
        /\ Below({h.id}, IdsOf(Unsent')) /\ Ascending(Unsent')
    BY <1>1, <1>4, <2>5, TailIds DEF PipelineOK
  <2>7. Below(IdsOf(wire), {h.id})
    BY <2>6 DEF PipelineOK, Below
  <2>8. IdsOf(wire') \subseteq IdsOf(wire) \cup {h.id} /\ Ascending(wire')
    <3>1. CASE rpc = "open"
      BY <1>1, <2>1, <2>2, <2>7, <3>1, AppendIds DEF PipelineOK
    <3>2. CASE rpc # "open"
      BY <2>1, <3>2 DEF PipelineOK
    <3> QED BY <3>1, <3>2
  <2>9. IdsOf(acks') = IdsOf(acks) /\ Ascending(acks')
    BY <1>2 DEF PipelineOK
  <2> HIDE DEF h
  <2>10. PipelineOK'
    BY <1>2, <2>6, <2>8, <2>9 DEF PipelineOK, Below
  <2> QED BY <2>3, <2>4, <2>10
<1> QED BY <1>1, <1>3, <1>4

\* The write at the end of a round, and the one at the end of OnWriteDone.
LEMMA CallersOfWriteInd ==
    ASSUME IndInv, PollWrite \/ OnWriteDoneWrite
    PROVE  IndInv'
<1>1. /\ Write
      /\ UNCHANGED <<bufferVars, todo, cur, batchId, pending, writerqu, readOp, rpc, acks, serverVars>>
      /\ pollPc' = pollPc \/ (pollPc = "write" /\ pollPc' = "idle")
      /\ writeCbs' = writeCbs \/ (writeCbs > 0 /\ writeCbs' = writeCbs - 1)
  BY DEF PollWrite, OnWriteDoneWrite, pollVars
<1>2. TypeOK /\ RingsIntact /\ WriterOK /\ SnapshotsOK /\ PipelineOK
  BY DEF IndInv
<1>3. /\ writing' \in BOOLEAN /\ writeOp' \in BOOLEAN /\ wire' \in Seq(BatchType)
      /\ WriterOK' /\ NoLostWrite' /\ PipelineOK'
  BY <1>1, <1>2, WriteKeeps
<1>4. TypeOK'
  BY <1>1, <1>2, <1>3 DEF TypeOK, bufferVars, serverVars
<1>5. RingsIntact' /\ SnapshotsOK'
  BY <1>1, <1>2, RingsFrame DEF bufferVars
<1> QED BY <1>3, <1>4, <1>5 DEF IndInv

-----------------------------------------------------------------------------
(* The gRPC callbacks                                                      *)

\* OnWriteDone takes the sent batch off the queue: the unsent ones stay.
LEMMA OnWriteDoneInd ==
    ASSUME IndInv, OnWriteDone
    PROVE  IndInv'
<1>1. /\ writeOp /\ writeOp' = FALSE /\ writing' = FALSE
      /\ writerqu' = Tail(writerqu) /\ writeCbs' = writeCbs + 1
      /\ UNCHANGED <<bufferVars, pollVars, pending, readOp, rpc, wire, acks, serverVars>>
  BY DEF OnWriteDone
<1>2. TypeOK /\ RingsIntact /\ WriterOK /\ SnapshotsOK /\ PipelineOK
  BY DEF IndInv
<1>3. writing /\ writerqu # <<>> /\ writerqu \in Seq(BatchType) /\ writeCbs \in Nat
  BY <1>1, <1>2 DEF WriterOK, TypeOK
<1>4. writerqu' \in Seq(BatchType) /\ writeCbs' \in Nat /\ writeCbs' > 0
  BY <1>1, <1>3
<1>5. TypeOK'
  BY <1>1, <1>2, <1>4 DEF TypeOK, bufferVars, pollVars, serverVars
<1>6. RingsIntact' /\ SnapshotsOK'
  BY <1>1, <1>2, RingsFrame DEF bufferVars, pollVars
<1>7. WriterOK' /\ NoLostWrite'
  BY <1>1, <1>4 DEF WriterOK, NoLostWrite
<1>8. PipelineOK'
  <2>1. /\ acks' = acks /\ wire' = wire /\ batchId' = batchId /\ pollPc' = pollPc /\ cur' = cur
        /\ CurIds' = CurIds /\ ServerIds' = ServerIds /\ PendingIds' = PendingIds
    BY <1>1 DEF CurIds, ServerIds, PendingIds, pollVars, serverVars
  <2>2. Unsent' = Unsent
    BY <1>1, <1>3 DEF Unsent
  <2> QED BY <1>2, <2>1, <2>2, PipelineFrame DEF PipelineOK
<1> QED BY <1>5, <1>6, <1>7, <1>8 DEF IndInv

\* A failed operation, the end of the RPC and the loss of the connection move
\* no batch.
LEMMA FailureInd ==
    ASSUME IndInv, OnWriteDoneFail \/ OnReadDoneFail \/ OnDone \/ Break
    PROVE  IndInv'
<1>1. /\ UNCHANGED <<bufferVars, pollVars, pending, writerqu, writing, writeCbs, wire, acks, serverVars>>
      /\ writeOp' = writeOp \/ writeOp' = FALSE
      /\ readOp' = readOp \/ readOp' = FALSE
      /\ rpc' = rpc \/ rpc' = "broken" \/ rpc' = "done"
  BY DEF OnWriteDoneFail, OnReadDoneFail, OnDone, Break, writeVars
<1>2. TypeOK /\ RingsIntact /\ WriterOK /\ SnapshotsOK /\ PipelineOK /\ NoLostWrite
  BY DEF IndInv
<1>3. TypeOK'
  BY <1>1, <1>2 DEF TypeOK, bufferVars, pollVars, serverVars
<1>4. RingsIntact' /\ SnapshotsOK'
  BY <1>1, <1>2, RingsFrame DEF bufferVars, pollVars
<1>5. WriterOK' /\ NoLostWrite'
  BY <1>1, <1>2 DEF WriterOK, NoLostWrite, pollVars
<1>6. PipelineOK'
  <2>1. /\ acks' = acks /\ wire' = wire /\ batchId' = batchId /\ pollPc' = pollPc /\ cur' = cur
        /\ CurIds' = CurIds /\ ServerIds' = ServerIds /\ PendingIds' = PendingIds
        /\ Unsent' = Unsent
    BY <1>1 DEF CurIds, ServerIds, PendingIds, Unsent, pollVars, serverVars
  <2> QED BY <1>2, <2>1, PipelineFrame DEF PipelineOK
<1> QED BY <1>3, <1>4, <1>5, <1>6 DEF IndInv

\* An acknowledgement carries the smallest id in the pipeline, so forgetting
\* its snapshot leaves every other batch registered.
LEMMA OnReadDoneInd ==
    ASSUME IndInv, OnReadDone
    PROVE  IndInv'
<1> DEFINE id == Head(acks).id
           it == {p \in pending : p.id = id}
<1>1. /\ acks # <<>> /\ acks' = Tail(acks)
      /\ pending' = pending \ it
      /\ series' = [k \in Keys |->
                      IF \E p \in it : p.key = k
                      THEN AckSnapshot(series[k], (CHOOSE p \in it : p.key = k).end)
                      ELSE series[k]]
      /\ UNCHANGED <<keys, dropped, pollVars, writeVars, readOp, rpc, wire, serverVars>>
  BY DEF OnReadDone
<1>2. TypeOK /\ RingsIntact /\ WriterOK /\ SnapshotsOK /\ PipelineOK /\ NoLostWrite
  BY DEF IndInv
<1>3. ASSUME NEW k \in Keys
      PROVE  /\ series'[k] \in SeriesType /\ RingIntact(series'[k])
             /\ series'[k].head = series[k].head
  <2>1. series[k] \in SeriesType /\ RingIntact(series[k])
    BY <1>2 DEF TypeOK, RingsIntact
  <2>2. CASE \E p \in it : p.key = k
    <3> DEFINE q == CHOOSE p \in it : p.key = k
    <3>1. q \in it /\ q.key = k
      BY <2>2
    <3>2. series'[k] = AckSnapshot(series[k], q.end)
      BY <1>1, <2>2
    <3>3. q \in pending
      BY <3>1
    <3> HIDE DEF q
    <3>4. q.end \in Nat /\ q.end <= series[k].head
      BY <1>2, <3>1, <3>3 DEF TypeOK, SnapshotsOK
    <3> QED BY <2>1, <3>2, <3>4, AckIntact
  <2>3. CASE ~ \E p \in it : p.key = k
    BY <1>1, <2>1, <2>3
  <2> QED BY <2>2, <2>3
<1>4. TypeOK'
  <2>1. series' \in [Keys -> SeriesType]
    BY <1>1, <1>3
  <2>2. pending' \in SUBSET [id : Nat, key : Keys, end : Nat]
    BY <1>1, <1>2 DEF TypeOK
  <2>3. acks' \in Seq([id : Nat])
    BY <1>1, <1>2 DEF TypeOK
  <2> QED BY <1>1, <1>2, <2>1, <2>2, <2>3 DEF TypeOK, pollVars, writeVars, serverVars
<1>5. RingsIntact'
  BY <1>3 DEF RingsIntact
<1>6. SnapshotsOK'
  <2>1. pending' \subseteq pending /\ cur' = cur
    BY <1>1 DEF pollVars
  <2>2. ASSUME NEW p \in pending' PROVE p.end <= series'[p.key].head
    BY <1>2, <1>3, <2>1 DEF SnapshotsOK, TypeOK
  <2>3. ASSUME cur # NoBatch PROVE cur.end <= series'[cur.key].head
    BY <1>2, <1>3, <2>3 DEF SnapshotsOK, TypeOK, BatchType
  <2> QED BY <2>1, <2>2, <2>3 DEF SnapshotsOK
<1>7. WriterOK' /\ NoLostWrite'
  BY <1>1, <1>2 DEF WriterOK, NoLostWrite, pollVars, writeVars
<1>8. PipelineOK'
  <2>1. /\ wire' = wire /\ Unsent' = Unsent /\ batchId' = batchId /\ pollPc' = pollPc /\ cur' = cur
        /\ CurIds' = CurIds /\ ServerIds' = ServerIds
    BY <1>1 DEF CurIds, ServerIds, Unsent, pollVars, writeVars, serverVars
  <2>2. PendingIds' = PendingIds \ {id}
    BY <1>1 DEF PendingIds
  <2>3. /\ IdsOf(acks') \subseteq IdsOf(acks) /\ id \in IdsOf(acks)
        /\ Below({id}, IdsOf(acks')) /\ Ascending(acks')
    BY <1>1, <1>2, TailIds DEF TypeOK, PipelineOK
  <2>4. /\ IdsOf(wire') = IdsOf(wire) /\ IdsOf(Unsent') = IdsOf(Unsent)
        /\ Ascending(wire') /\ Ascending(Unsent')
    BY <1>2, <2>1 DEF PipelineOK
  <2>5. /\ IdsOf(acks) \subseteq Nat
        /\ pollPc = "push" => cur.id \in CurIds
    BY <1>2, PipelineNat DEF CurIds
  <2> HIDE DEF id, it
  <2>6. id \in Nat
    BY <2>3, <2>5
  <2>7. Below({id}, IdsOf(acks') \cup ServerIds \cup IdsOf(wire) \cup IdsOf(Unsent) \cup CurIds)
    BY <1>2, <2>3 DEF PipelineOK, Below
  <2>8. id \notin IdsOf(acks') \cup ServerIds \cup IdsOf(wire) \cup IdsOf(Unsent) \cup CurIds
    BY <2>6, <2>7 DEF Below
  <2> QED BY <1>2, <2>1, <2>2, <2>3, <2>4, <2>5, <2>8 DEF PipelineOK, Below
<1> QED BY <1>4, <1>5, <1>6, <1>7, <1>8 DEF IndInv

-----------------------------------------------------------------------------
(* The server's handler                                                    *)

\* The handler takes one batch off the connection and owes its acknowledgement.
LEMMA ServerRecvInd ==
    ASSUME IndInv, ServerRecv
    PROVE  IndInv'
<1> DEFINE h == Head(wire)
<1>1. /\ srv = Receiving /\ wire # <<>> /\ wire' = Tail(wire) /\ srv' = Acking(h.id)
      /\ received' = [received EXCEPT ![h.key] = @ \o h.samples]
      /\ UNCHANGED <<bufferVars, pollVars, pending, writeVars, readOp, rpc, acks>>
  BY DEF ServerRecv
<1>2. TypeOK /\ RingsIntact /\ WriterOK /\ SnapshotsOK /\ PipelineOK /\ NoLostWrite
  BY DEF IndInv
<1>3. h \in BatchType /\ wire \in Seq(BatchType) /\ wire' \in Seq(BatchType)
  BY <1>1, <1>2 DEF TypeOK
<1> HIDE DEF h
<1>4. TypeOK'
  <2>1. received' \in [Keys -> Seq(Nat)]
    BY <1>1, <1>2, <1>3 DEF TypeOK, BatchType
  <2>2. srv' \in [pc : {"recv", "ack", "returned"}, id : Nat]
    BY <1>1, <1>3 DEF Acking, BatchType
  <2> QED BY <1>1, <1>2, <1>3, <2>1, <2>2 DEF TypeOK, bufferVars, pollVars, writeVars
<1>5. RingsIntact' /\ SnapshotsOK'
  BY <1>1, <1>2, RingsFrame DEF bufferVars, pollVars
<1>6. WriterOK' /\ NoLostWrite'
  BY <1>1, <1>2 DEF WriterOK, NoLostWrite, pollVars, writeVars
<1>7. PipelineOK'
  <2>1. /\ acks' = acks /\ Unsent' = Unsent /\ batchId' = batchId /\ pollPc' = pollPc /\ cur' = cur
        /\ CurIds' = CurIds /\ PendingIds' = PendingIds
    BY <1>1 DEF CurIds, PendingIds, Unsent, pollVars, writeVars
  <2>2. ServerIds = {} /\ ServerIds' = {h.id}
    BY <1>1 DEF ServerIds, Receiving, Acking
  <2>3. /\ IdsOf(wire') \subseteq IdsOf(wire) /\ h.id \in IdsOf(wire)
        /\ Below({h.id}, IdsOf(wire')) /\ Ascending(wire')
    BY <1>1, <1>2, <1>3, TailIds DEF h, PipelineOK
  <2>4. /\ IdsOf(acks') = IdsOf(acks) /\ IdsOf(Unsent') = IdsOf(Unsent)
        /\ Ascending(acks') /\ Ascending(Unsent')
    BY <1>2, <2>1 DEF PipelineOK
  <2> QED BY <1>2, <2>1, <2>2, <2>3, <2>4 DEF PipelineOK, Below
<1> QED BY <1>4, <1>5, <1>6, <1>7 DEF IndInv

\* The acknowledgement goes behind those already on their way.
LEMMA ServerAckInd ==
    ASSUME IndInv, ServerAck
    PROVE  IndInv'
<1> DEFINE m == [id |-> srv.id]
<1>1. /\ srv.pc = "ack" /\ acks' = Append(acks, m) /\ srv' = Receiving
      /\ UNCHANGED <<bufferVars, pollVars, pending, writeVars, readOp, rpc, wire, received>>
  BY DEF ServerAck
<1>2. TypeOK /\ RingsIntact /\ WriterOK /\ SnapshotsOK /\ PipelineOK /\ NoLostWrite
  BY DEF IndInv
<1>3. m \in [id : Nat] /\ m.id = srv.id /\ acks \in Seq([id : Nat])
  BY <1>2 DEF TypeOK
<1> HIDE DEF m
<1>4. TypeOK'
  <2>1. srv' \in [pc : {"recv", "ack", "returned"}, id : Nat]
    BY <1>1 DEF Receiving
  <2>2. acks' \in Seq([id : Nat])
    BY <1>1, <1>3
  <2> QED BY <1>1, <1>2, <2>1, <2>2 DEF TypeOK, bufferVars, pollVars, writeVars
<1>5. RingsIntact' /\ SnapshotsOK'
  BY <1>1, <1>2, RingsFrame DEF bufferVars, pollVars
<1>6. WriterOK' /\ NoLostWrite'
  BY <1>1, <1>2 DEF WriterOK, NoLostWrite, pollVars, writeVars
<1>7. PipelineOK'
  <2>1. /\ wire' = wire /\ Unsent' = Unsent /\ batchId' = batchId /\ pollPc' = pollPc /\ cur' = cur
        /\ CurIds' = CurIds /\ PendingIds' = PendingIds
    BY <1>1 DEF CurIds, PendingIds, Unsent, pollVars, writeVars
  <2>2. ServerIds = {srv.id} /\ ServerIds' = {}
    BY <1>1 DEF ServerIds, Receiving
  <2>3. Ascending(acks) /\ Below(IdsOf(acks), {m.id})
    BY <1>2, <1>3, <2>2 DEF PipelineOK, Below
  <2>4. IdsOf(acks') = IdsOf(acks) \cup {srv.id} /\ Ascending(acks')
    <3> DEFINE T == [id : Nat]
    <3>1. m \in T /\ acks \in Seq(T)
      BY <1>3
    <3> HIDE DEF T
    <3>2. /\ IdsOf(Append(acks, m)) = IdsOf(acks) \cup {m.id}
          /\ Ascending(Append(acks, m))
      BY <2>3, <3>1, AppendIds
    <3> QED BY <1>1, <1>3, <3>2
  <2>5. /\ IdsOf(wire') = IdsOf(wire) /\ IdsOf(Unsent') = IdsOf(Unsent)
        /\ Ascending(wire') /\ Ascending(Unsent')
    BY <1>2, <2>1 DEF PipelineOK
  <2> QED BY <1>2, <2>1, <2>2, <2>4, <2>5 DEF PipelineOK, Below
<1> QED BY <1>4, <1>5, <1>6, <1>7 DEF IndInv

\* A handler that returns owes nothing any more.
LEMMA ServerReturnInd ==
    ASSUME IndInv, ServerReturn
    PROVE  IndInv'
<1>1. /\ srv' = Returned
      /\ UNCHANGED <<bufferVars, pollVars, pending, writeVars, readOp, rpc, wire, acks, received>>
  BY DEF ServerReturn
<1>2. TypeOK /\ RingsIntact /\ WriterOK /\ SnapshotsOK /\ PipelineOK /\ NoLostWrite
  BY DEF IndInv
<1>3. srv' \in [pc : {"recv", "ack", "returned"}, id : Nat]
  BY <1>1 DEF Returned
<1>4. TypeOK'
  BY <1>1, <1>2, <1>3 DEF TypeOK, bufferVars, pollVars, writeVars
<1>5. RingsIntact' /\ SnapshotsOK'
  BY <1>1, <1>2, RingsFrame DEF bufferVars, pollVars
<1>6. WriterOK' /\ NoLostWrite'
  BY <1>1, <1>2 DEF WriterOK, NoLostWrite, pollVars, writeVars
<1>7. PipelineOK'
  <2>1. /\ acks' = acks /\ wire' = wire /\ Unsent' = Unsent /\ batchId' = batchId
        /\ pollPc' = pollPc /\ cur' = cur /\ CurIds' = CurIds /\ PendingIds' = PendingIds
    BY <1>1 DEF CurIds, PendingIds, Unsent, pollVars, writeVars
  <2>2. ServerIds' = {}
    BY <1>1 DEF ServerIds, Returned
  <2>3. /\ IdsOf(acks') = IdsOf(acks) /\ IdsOf(wire') = IdsOf(wire) /\ IdsOf(Unsent') = IdsOf(Unsent)
        /\ Ascending(acks') /\ Ascending(wire') /\ Ascending(Unsent')
    BY <1>2, <2>1 DEF PipelineOK
  <2> QED BY <1>2, <2>1, <2>2, <2>3 DEF PipelineOK, Below
<1> QED BY <1>4, <1>5, <1>6, <1>7 DEF IndInv

-----------------------------------------------------------------------------
(* The theorems                                                            *)

\* A step that changes no variable.
LEMMA StutterInd ==
    ASSUME IndInv, UNCHANGED vars
    PROVE  IndInv'
<1>1. UNCHANGED <<bufferVars, pollVars, pending, writeVars, readOp, rpc, wire, acks, serverVars>>
  BY DEF vars
<1>2. TypeOK /\ RingsIntact /\ WriterOK /\ SnapshotsOK /\ PipelineOK /\ NoLostWrite
  BY DEF IndInv
<1>3. TypeOK'
  BY <1>1, <1>2 DEF TypeOK, bufferVars, pollVars, writeVars, serverVars
<1>4. RingsIntact' /\ SnapshotsOK'
  BY <1>1, <1>2, RingsFrame DEF bufferVars, pollVars
<1>5. WriterOK' /\ NoLostWrite'
  BY <1>1, <1>2 DEF WriterOK, NoLostWrite, pollVars, writeVars
<1>6. PipelineOK'
  <2>1. /\ acks' = acks /\ wire' = wire /\ batchId' = batchId /\ pollPc' = pollPc /\ cur' = cur
        /\ CurIds' = CurIds /\ ServerIds' = ServerIds /\ PendingIds' = PendingIds
        /\ Unsent' = Unsent
    BY <1>1 DEF CurIds, ServerIds, PendingIds, Unsent, pollVars, writeVars, serverVars
  <2> QED BY <1>2, <2>1, PipelineFrame DEF PipelineOK
<1> QED BY <1>3, <1>4, <1>5, <1>6 DEF IndInv

\* No step of any of the four threads, of the server or of the environment
\* leaves the inductive invariant.
LEMMA NextInd == IndInv /\ [Next]_vars => IndInv'
<1> SUFFICES ASSUME IndInv, [Next]_vars PROVE IndInv'
  OBVIOUS
<1>1. CASE \E ms \in SUBSET (Keys \cup {Unspecified}) : AddMetrics(ms)
  BY <1>1, AddMetricsInd
<1>2. CASE PollCheck \/ PollRecheck
  BY <1>2, PollCheckInd
<1>3. CASE \E k \in Keys : PollSnapshot(k)
  BY <1>3, PollSnapshotInd
<1>4. CASE PollRegister
  BY <1>4, PollRegisterInd
<1>5. CASE PollPush
  BY <1>5, PollPushInd
<1>6. CASE PollWrite \/ OnWriteDoneWrite
  BY <1>6, CallersOfWriteInd
<1>7. CASE OnWriteDone
  BY <1>7, OnWriteDoneInd
<1>8. CASE OnReadDone
  BY <1>8, OnReadDoneInd
<1>9. CASE OnWriteDoneFail \/ OnReadDoneFail \/ OnDone \/ Break
  BY <1>9, FailureInd
<1>10. CASE ServerRecv
  BY <1>10, ServerRecvInd
<1>11. CASE ServerAck
  BY <1>11, ServerAckInd
<1>12. CASE ServerReturn
  BY <1>12, ServerReturnInd
<1>13. CASE UNCHANGED vars
  BY <1>13, StutterInd
<1> QED
  BY <1>1, <1>2, <1>3, <1>4, <1>5, <1>6, <1>7, <1>8, <1>9, <1>10, <1>11, <1>12, <1>13
  DEF Next, Poll, Callback, Server

\* The inductive invariant holds in every reachable state of the data path,
\* whatever the series, the capacity of the rings and the number of samples.
THEOREM InductiveInvariant == Spec => []IndInv
<1>1. Init => IndInv
  BY InitInd
<1>2. IndInv /\ [Next]_vars => IndInv'
  BY NextInd
<1> QED BY <1>1, <1>2, PTL DEF Spec

\* Every variable keeps its type; a batch only ever carries samples, never the
\* content of a slot that SeriesBuffer::Push has not written.
THEOREM TypeCorrect == Spec => []TypeOK
<1>1. IndInv => TypeOK
  BY DEF IndInv
<1> QED BY <1>1, InductiveInvariant, PTL

\* No interleaving of AddMetrics with a late OnReadDone makes a ring hold more
\* than its capacity, or GetSnapshot read a slot that was overwritten.
THEOREM RingsAlwaysIntact == Spec => []RingsIntact
<1>1. IndInv => RingsIntact
  BY DEF IndInv
<1> QED BY <1>1, InductiveInvariant, PTL

\* OnReadDone always finds the snapshot of the batch that is acknowledged: its
\* branch for an unknown batch_id is dead code.
THEOREM AckAlwaysKnown == Spec => []AckKnown
<1>1. IndInv => AckKnown
  <2> SUFFICES ASSUME IndInv, NEW id \in IdsOf(acks) \cup ServerIds
               PROVE  \E p \in pending : p.id = id
    BY DEF AckKnown
  <2>1. id \in PendingIds
    BY DEF IndInv, PipelineOK
  <2> QED BY <2>1 DEF PendingIds
<1> QED BY <1>1, InductiveInvariant, PTL

\* The three callers of Write lose no wakeup between them: a batch in writerqu_
\* is being sent, or a thread is on its way to Write.
THEOREM WriteNeverLost == Spec => []NoLostWrite
<1>1. IndInv => NoLostWrite
  BY DEF IndInv
<1> QED BY <1>1, InductiveInvariant, PTL

=============================================================================
