------------------------ MODULE StreamDeliveryProofs ------------------------
(***************************************************************************)
(* What the data path delivers: no sample is settled before the server has *)
(* published it or the agent has overwritten it, and StreamMetrics         *)
(* implements SampleStream, for every set of series, every capacity of the *)
(* rings (zero included) and any number of samples.                        *)
(*                                                                         *)
(* IndInv orders the batches by id.  Delivery adds what is inside them: a  *)
(* series has at most one batch between its snapshot and its               *)
(* acknowledgement, that batch is the run of samples up to the end its     *)
(* snapshot promises to acknowledge, and everything the server has         *)
(* published of the series lies below that run or ends with it.            *)
(***************************************************************************)
EXTENDS StreamMetricsProofs, FiniteSetTheorems

-----------------------------------------------------------------------------
(* The invariant                                                           *)

\* What pending_snapshots_ keeps of a batch.
Ticket(b) == [id |-> b.id, key |-> b.key, end |-> b.end]

\* The number of samples of the series before the batch.
First(b) == b.end - Len(b.samples)

\* The batches between writerqu_ and the server's Recv, those that poll_thread_
\* is still building included, and the ids the server has published.
Queued == Stamps(wire) \cup Stamps(Unsent)
InFlight == Queued \cup (IF pollPc \in {"register", "push"} THEN {cur} ELSE {})
Landed == IdsOf(acks) \cup ServerIds

OneEach == \A p, q \in pending : p.key = q.key \/ p.id = q.id => p = q

Registered ==
    /\ \A b \in Queued : Ticket(b) \in pending
    /\ pollPc = "push" => Ticket(cur) \in pending
    /\ pollPc = "register" => \A p \in pending : p.key # cur.key /\ p.id # cur.id

ToVisit ==
    \A k \in todo : (\A p \in pending : p.key # k) /\ (cur # NoBatch => cur.key # k)

IsRun(b, tail) ==
    /\ Len(b.samples) >= 1 /\ First(b) >= 0 /\ First(b) <= tail
    /\ \A j \in 1 .. Len(b.samples) : b.samples[j] = First(b) + j

Runs == \A b \in InFlight : IsRun(b, series[b.key].tail)

Fresh == \A b \in InFlight : \A n \in Stamps(received[b.key]) : n <= First(b)

Covered ==
    \A k \in Keys : \A n \in Stamps(received[k]) :
        n <= series[k].tail \/ \E p \in pending : p.key = k /\ n <= p.end

Arrived ==
    \A p \in pending : p.id \in Landed =>
        \A n \in 1 .. p.end : n > series[p.key].tail => n \in Stamps(received[p.key])

Content == Runs /\ Fresh /\ Covered /\ Arrived /\ NothingLostSilently

Delivery == OneEach /\ Registered /\ ToVisit /\ Content

-----------------------------------------------------------------------------
(* Sequences as sets                                                       *)

\* The elements of a sequence after an append.
LEMMA StampsAppend ==
    ASSUME NEW T, NEW s \in Seq(T), NEW x \in T
    PROVE  Stamps(Append(s, x)) = Stamps(s) \cup {x}
<1>1. /\ Len(s) \in Nat /\ DOMAIN s = 1 .. Len(s)
      /\ DOMAIN Append(s, x) = 1 .. Len(s) + 1
      /\ \A i \in 1 .. Len(s) : Append(s, x)[i] = s[i]
      /\ Append(s, x)[Len(s) + 1] = x
  OBVIOUS
<1> QED BY <1>1 DEF Stamps

\* The first element and the elements of the rest are elements.
LEMMA StampsTail ==
    ASSUME NEW T, NEW s \in Seq(T), s # <<>>
    PROVE  Head(s) \in Stamps(s) /\ Stamps(Tail(s)) \subseteq Stamps(s)
<1>1. /\ Len(s) \in Nat /\ Len(s) > 0 /\ DOMAIN s = 1 .. Len(s)
      /\ DOMAIN Tail(s) = 1 .. Len(s) - 1
      /\ \A i \in 1 .. Len(s) - 1 : Tail(s)[i] = s[i + 1]
      /\ Head(s) = s[1]
  OBVIOUS
<1>2. \A i \in 1 .. Len(s) - 1 : i + 1 \in DOMAIN s
  BY <1>1
<1> QED BY <1>1, <1>2 DEF Stamps

\* The elements of a concatenation.
LEMMA StampsConcat ==
    ASSUME NEW T, NEW s \in Seq(T), NEW t \in Seq(T)
    PROVE  Stamps(s \o t) = Stamps(s) \cup Stamps(t)
<1>1. /\ Len(s) \in Nat /\ DOMAIN s = 1 .. Len(s)
      /\ Len(t) \in Nat /\ DOMAIN t = 1 .. Len(t)
      /\ DOMAIN (s \o t) = 1 .. Len(s) + Len(t)
      /\ \A i \in 1 .. Len(s) : (s \o t)[i] = s[i]
      /\ \A i \in 1 .. Len(t) : (s \o t)[Len(s) + i] = t[i]
  OBVIOUS
<1>2. \A i \in 1 .. Len(s) + Len(t) : i \in 1 .. Len(s) \/ i - Len(s) \in 1 .. Len(t)
  BY <1>1
<1>3. \A i \in 1 .. Len(s) + Len(t) : (s \o t)[i] \in Stamps(s) \cup Stamps(t)
  <2> SUFFICES ASSUME NEW i \in 1 .. Len(s) + Len(t)
               PROVE  (s \o t)[i] \in Stamps(s) \cup Stamps(t)
    OBVIOUS
  <2>1. CASE i \in 1 .. Len(s)
    BY <1>1, <2>1 DEF Stamps
  <2>2. CASE i - Len(s) \in 1 .. Len(t)
    <3>1. i = Len(s) + (i - Len(s))
      BY <1>1
    <3>2. (s \o t)[i] = t[i - Len(s)]
      BY <1>1, <2>2, <3>1
    <3> QED BY <1>1, <2>2, <3>2 DEF Stamps
  <2> QED BY <1>2, <2>1, <2>2
<1>4. Stamps(s) \subseteq Stamps(s \o t)
  <2>1. \A i \in 1 .. Len(s) : i \in 1 .. Len(s) + Len(t)
    BY <1>1
  <2> QED BY <1>1, <2>1 DEF Stamps
<1>5. Stamps(t) \subseteq Stamps(s \o t)
  <2>1. \A i \in 1 .. Len(t) : Len(s) + i \in 1 .. Len(s) + Len(t)
    BY <1>1
  <2> QED BY <1>1, <2>1 DEF Stamps
<1>6. Stamps(s \o t) \subseteq Stamps(s) \cup Stamps(t)
  BY <1>1, <1>3 DEF Stamps
<1> QED BY <1>4, <1>5, <1>6

\* The ids of a sequence are the ids of its elements.
LEMMA StampsIds ==
    ASSUME NEW s, NEW b \in Stamps(s)
    PROVE  b.id \in IdsOf(s)
BY DEF Stamps, IdsOf

\* The elements of a sequence have its type.
LEMMA StampsType ==
    ASSUME NEW T, NEW s \in Seq(T)
    PROVE  Stamps(s) \subseteq T
<1>1. \A i \in DOMAIN s : s[i] \in T
  OBVIOUS
<1> QED BY <1>1 DEF Stamps

-----------------------------------------------------------------------------
(* What the parts of the invariant say of a step                           *)

\* Everything in flight is a batch.
LEMMA FlightTypes ==
    ASSUME IndInv
    PROVE  /\ Queued \subseteq BatchType /\ InFlight \subseteq BatchType
           /\ Unsent \in Seq(BatchType) /\ wire \in Seq(BatchType)
<1>1. TypeOK /\ WriterOK
  BY DEF IndInv
<1>2. Unsent \in Seq(BatchType) /\ wire \in Seq(BatchType)
  BY <1>1, PipelineNat DEF TypeOK
<1>3. Stamps(Unsent) \subseteq BatchType /\ Stamps(wire) \subseteq BatchType
  BY <1>2, StampsType
<1>4. pollPc \in {"register", "push"} => cur \in BatchType
  BY <1>1 DEF TypeOK
<1> QED BY <1>2, <1>3, <1>4 DEF Queued, InFlight

\* The heads and tails of the rings are natural numbers.
LEMMA RingTypes ==
    ASSUME IndInv, NEW k \in Keys
    PROVE  /\ series[k] \in SeriesType /\ RingIntact(series[k])
           /\ series[k].head \in Nat /\ series[k].tail \in Nat
           /\ received[k] \in Seq(Nat) /\ Stamps(received[k]) \subseteq Nat
<1>1. series[k] \in SeriesType /\ RingIntact(series[k]) /\ received[k] \in Seq(Nat)
  BY DEF IndInv, TypeOK, RingsIntact
<1>2. Stamps(received[k]) \subseteq Nat
  BY <1>1, StampsType
<1> QED BY <1>1, <1>2 DEF SeriesType

\* A step that pushes, publishes and settles nothing, and puts nothing new in
\* flight.
LEMMA ContentFrame ==
    ASSUME Content, UNCHANGED <<series, received, dropped, pending>>,
           InFlight' \subseteq InFlight, Landed' \subseteq Landed
    PROVE  Content'
<1>1. Runs'
  BY DEF Content, Runs, IsRun, First
<1>2. Fresh'
  BY DEF Content, Fresh, First, Stamps
<1>3. Covered'
  BY DEF Content, Covered, Stamps
<1>4. Arrived'
  BY DEF Content, Arrived, Stamps
<1>5. NothingLostSilently'
  BY DEF Content, NothingLostSilently, Stamps
<1> QED BY <1>1, <1>2, <1>3, <1>4, <1>5 DEF Content

\* A step that also leaves poll_thread_'s batch and pending_snapshots_ alone.
LEMMA DeliveryFrame ==
    ASSUME Delivery, UNCHANGED <<series, received, dropped, pending, cur>>,
           Queued' \subseteq Queued, Landed' \subseteq Landed,
           pollPc' = pollPc \/ {pollPc, pollPc'} \cap {"register", "push"} = {},
           todo' \subseteq todo \/ (pending = {} /\ cur = NoBatch)
    PROVE  Delivery'
<1>1. InFlight' \subseteq InFlight
  <2>1. pollPc' \in {"register", "push"} => pollPc \in {"register", "push"}
    OBVIOUS
  <2> QED BY <2>1 DEF InFlight
<1>2. OneEach' /\ ToVisit'
  BY DEF Delivery, OneEach, ToVisit
<1>3. Registered'
  BY DEF Delivery, Registered, Ticket
<1>4. Content'
  BY <1>1, ContentFrame DEF Delivery
<1> QED BY <1>2, <1>3, <1>4 DEF Delivery

-----------------------------------------------------------------------------
(* The initial state and the steps that deliver nothing                    *)

\* Initially nothing is in flight.
LEMMA InitDelivery == Init => Delivery
<1> SUFFICES ASSUME Init PROVE Delivery
  OBVIOUS
<1>1. Stamps(<<>>) = {}
  BY DEF Stamps
<1>2. Queued = {} /\ InFlight = {} /\ pending = {}
  <2>1. Unsent = <<>> /\ wire = <<>>
    BY DEF Init, Unsent
  <2>2. Queued = {}
    BY <1>1, <2>1 DEF Queued
  <2> QED BY <2>2 DEF InFlight, Init
<1>3. \A k \in Keys : received[k] = <<>> /\ series[k].tail = 0
  BY DEF Init, NewSeries
<1>4. \A k \in Keys : Stamps(received[k]) = {}
  BY <1>1, <1>3
<1>5. OneEach /\ Registered /\ ToVisit
  BY <1>2 DEF OneEach, Registered, ToVisit, Init
<1>6. Runs /\ Fresh /\ Arrived
  BY <1>2 DEF Runs, Fresh, Arrived
<1>7. Covered
  BY <1>4 DEF Covered
<1>8. NothingLostSilently
  BY <1>3 DEF NothingLostSilently
<1> QED BY <1>5, <1>6, <1>7, <1>8 DEF Delivery, Content

\* The poll thread between two batches, the callbacks that only report, the
\* server's acknowledgement and its return, and the loss of the connection.
LEMMA QuietDelivery ==
    ASSUME IndInv, Delivery,
           \/ PollCheck \/ PollRecheck \/ OnWriteDone
           \/ OnWriteDoneFail \/ OnReadDoneFail \/ OnDone \/ Break
           \/ ServerReturn \/ UNCHANGED vars
    PROVE  Delivery'
<1>1. TypeOK /\ WriterOK
  BY DEF IndInv
<1>2. /\ UNCHANGED <<series, received, dropped, pending, cur, wire, acks>>
      /\ pollPc' = pollPc \/ {pollPc, pollPc'} \cap {"register", "push"} = {}
  BY DEF PollCheck, PollRecheck, OnWriteDone, OnWriteDoneFail, OnReadDoneFail, OnDone,
         Break, ServerReturn, vars, bufferVars, pollVars, serverVars
<1>3. todo' \subseteq todo \/ (pending = {} /\ cur = NoBatch)
  BY <1>1 DEF TypeOK, PollCheck, PollRecheck, OnWriteDone, OnWriteDoneFail, OnReadDoneFail,
              OnDone, Break, ServerReturn, vars, pollVars
<1>4. Unsent' = Unsent
  <2>1. CASE OnWriteDone
    BY <1>1, <2>1 DEF OnWriteDone, WriterOK, Unsent
  <2>2. CASE ~OnWriteDone
    BY <2>2 DEF PollCheck, PollRecheck, OnWriteDoneFail, OnReadDoneFail, OnDone,
                Break, ServerReturn, vars, writeVars, Unsent
  <2> QED BY <2>1, <2>2
<1>5. Queued' = Queued
  BY <1>2, <1>4 DEF Queued
<1>6. ServerIds' \subseteq ServerIds
  <2>1. srv' = srv \/ srv' = Returned
    BY DEF PollCheck, PollRecheck, OnWriteDone, OnWriteDoneFail, OnReadDoneFail, OnDone,
           Break, ServerReturn, vars, serverVars
  <2> QED BY <2>1 DEF ServerIds, Returned
<1>7. Landed' \subseteq Landed
  BY <1>2, <1>6 DEF Landed
<1> QED BY <1>2, <1>3, <1>5, <1>7, DeliveryFrame

\* Write moves a batch from the queue to the connection, or drops it when the
\* connection is lost.
LEMMA WriteDelivery ==
    ASSUME IndInv, Delivery, PollWrite \/ OnWriteDoneWrite
    PROVE  Delivery'
<1>1. /\ Write
      /\ UNCHANGED <<series, received, dropped, pending, cur, todo, writerqu, acks, srv>>
      /\ pollPc' = pollPc \/ {pollPc, pollPc'} \cap {"register", "push"} = {}
  BY DEF PollWrite, OnWriteDoneWrite, bufferVars, pollVars, serverVars
<1>2. writerqu \in Seq(BatchType) /\ wire \in Seq(BatchType)
  BY DEF IndInv, TypeOK
<1>3. Queued' \subseteq Queued
  <2>1. CASE writing \/ writerqu = <<>>
    <3>1. UNCHANGED <<writing, wire>>
      BY <1>1, <2>1 DEF Write
    <3>2. Unsent' = Unsent
      BY <1>1, <3>1 DEF Unsent
    <3> QED BY <3>1, <3>2 DEF Queued
  <2>2. CASE ~writing /\ writerqu # <<>>
    <3>1. /\ wire' = Append(wire, Head(writerqu)) \/ wire' = wire
          /\ Unsent = writerqu /\ Unsent' = Tail(writerqu)
      BY <1>1, <2>2 DEF Write, StartWrite, Unsent
    <3>2. Head(writerqu) \in Stamps(writerqu) /\ Stamps(Tail(writerqu)) \subseteq Stamps(writerqu)
      BY <1>2, <2>2, StampsTail
    <3>3. Head(writerqu) \in BatchType
      BY <1>2, <2>2
    <3>4. Stamps(Append(wire, Head(writerqu))) = Stamps(wire) \cup {Head(writerqu)}
      BY <1>2, <3>3, StampsAppend
    <3>5. Stamps(wire') \subseteq Stamps(wire) \cup {Head(writerqu)}
      BY <3>1, <3>4
    <3>6. Stamps(Unsent') \subseteq Stamps(Unsent) /\ Head(writerqu) \in Stamps(Unsent)
      BY <3>1, <3>2
    <3> QED BY <3>5, <3>6 DEF Queued
  <2> QED BY <2>1, <2>2
<1>4. Landed' = Landed
  BY <1>1 DEF Landed, ServerIds
<1> QED BY <1>1, <1>3, <1>4, DeliveryFrame

\* The acknowledgement leaves the server for the connection.
LEMMA ServerAckDelivery ==
    ASSUME IndInv, Delivery, ServerAck
    PROVE  Delivery'
<1> DEFINE m == [id |-> srv.id]
           T == [id : Nat]
<1>1. /\ srv.pc = "ack" /\ acks' = Append(acks, m) /\ srv' = Receiving
      /\ UNCHANGED <<series, received, dropped, pending, cur, pollPc, todo, wire, writerqu, writing>>
  BY DEF ServerAck, bufferVars, pollVars, writeVars
<1>2. m.id = srv.id
  OBVIOUS
<1>3. IdsOf(Append(acks, m)) = IdsOf(acks) \cup {m.id}
  <2>1. m \in T /\ acks \in Seq(T)
    BY DEF IndInv, TypeOK
  <2> HIDE DEF m, T
  <2> QED BY <2>1, AppendIds
<1> HIDE DEF m, T
<1>4. IdsOf(acks') = IdsOf(acks) \cup {m.id}
  BY <1>1, <1>3
<1>5. ServerIds = {srv.id} /\ ServerIds' = {}
  BY <1>1 DEF ServerIds, Receiving
<1>6. Landed' \subseteq Landed
  BY <1>2, <1>4, <1>5 DEF Landed
<1>7. Queued' = Queued
  BY <1>1 DEF Queued, Unsent
<1> QED BY <1>1, <1>6, <1>7, DeliveryFrame

-----------------------------------------------------------------------------
(* The steps that settle samples                                           *)

\* Settling samples does not disturb what is in flight.
LEMMA FlightWhileSettling ==
    ASSUME IndInv, Runs, Fresh, received' = received, InFlight' \subseteq InFlight,
           \A k \in Keys : series'[k].tail \in Nat /\ series'[k].tail >= series[k].tail
    PROVE  Runs' /\ Fresh'
<1>1. Fresh'
  BY DEF Fresh, First, Stamps
<1>2. ASSUME NEW b \in InFlight' PROVE IsRun(b, series'[b.key].tail)
  <2>1. b \in InFlight /\ b.key \in Keys /\ b.end \in Nat /\ b.samples \in Seq(Nat)
    BY FlightTypes DEF BatchType
  <2>2. IsRun(b, series[b.key].tail)
    BY <2>1 DEF Runs
  <2>3. series[b.key].tail \in Nat /\ series'[b.key].tail \in Nat
        /\ series'[b.key].tail >= series[b.key].tail
    BY <2>1, RingTypes
  <2>4. First(b) \in Int
    BY <2>1 DEF First
  <2> QED BY <2>2, <2>3, <2>4 DEF IsRun
<1>3. Runs'
  BY <1>2 DEF Runs, IsRun, First
<1> QED BY <1>1, <1>3

\* A full ring settles its oldest sample by overwriting it.
LEMMA AddMetricsDelivery ==
    ASSUME IndInv, Delivery, NEW ms \in SUBSET (Keys \cup {Unspecified}), AddMetrics(ms)
    PROVE  Delivery'
<1> DEFINE ks == ms \ {Unspecified}
<1>1. /\ series' = [k \in Keys |->
                      IF k \in ks THEN Push(series[k], series[k].head + 1) ELSE series[k]]
      /\ dropped' = [k \in Keys |->
                       IF k \in ks /\ DropsOldest(series[k])
                       THEN dropped[k] \cup {series[k].tail + 1}
                       ELSE dropped[k]]
      /\ UNCHANGED <<pollPc, todo, cur, pending, writerqu, writing, wire, acks, srv, received>>
  BY DEF AddMetrics, pollVars, writeVars, serverVars
<1> HIDE DEF ks
<1>2. OneEach /\ Registered /\ ToVisit /\ Runs /\ Fresh /\ Covered /\ Arrived /\ NothingLostSilently
  BY DEF Delivery, Content
<1>3. ASSUME NEW k \in Keys
      PROVE  /\ series[k].tail \in Nat /\ series'[k].tail \in Nat
             /\ series'[k].tail >= series[k].tail
             /\ \/ series'[k].tail = series[k].tail
                \/ /\ series'[k].tail = series[k].tail + 1
                   /\ series[k].tail + 1 \in dropped'[k]
             /\ dropped[k] \subseteq dropped'[k]
  <2>1. series[k].tail \in Nat
    BY RingTypes
  <2>2. CASE k \in ks /\ DropsOldest(series[k])
    <3>1. Cap # 0
      BY <2>2 DEF DropsOldest
    <3>2. series'[k] = Push(series[k], series[k].head + 1)
      BY <1>1, <2>2
    <3>3. series'[k].tail = series[k].tail + 1
      BY <2>2, <3>1, <3>2 DEF Push
    <3>4. dropped'[k] = dropped[k] \cup {series[k].tail + 1}
      BY <1>1, <2>2
    <3> QED BY <2>1, <3>3, <3>4
  <2>3. CASE ~(k \in ks /\ DropsOldest(series[k]))
    <3>1. series'[k] = series[k] \/ (series'[k] = Push(series[k], series[k].head + 1) /\ ~DropsOldest(series[k]))
      BY <1>1, <2>3
    <3>2. series'[k].tail = series[k].tail
      BY <3>1 DEF Push
    <3>3. dropped'[k] = dropped[k]
      BY <1>1, <2>3
    <3> QED BY <2>1, <3>2, <3>3
  <2> QED BY <2>2, <2>3
<1>4. Queued' = Queued /\ InFlight' = InFlight /\ Landed' = Landed
  BY <1>1 DEF Queued, InFlight, Landed, Unsent, ServerIds
<1>5. OneEach' /\ ToVisit'
  BY <1>1, <1>2 DEF OneEach, ToVisit
<1>6. Registered'
  BY <1>1, <1>2, <1>4 DEF Registered, Ticket
<1>7. Runs' /\ Fresh'
  BY <1>1, <1>2, <1>3, <1>4, FlightWhileSettling
<1>8. Covered'
  <2> SUFFICES ASSUME NEW k \in Keys, NEW n \in Stamps(received[k])
               PROVE  n <= series'[k].tail \/ \E p \in pending : p.key = k /\ n <= p.end
    <3>1. received' = received /\ pending' = pending
      BY <1>1
    <3> QED BY <3>1 DEF Covered, Stamps
  <2>1. n \in Nat
    BY RingTypes
  <2>2. n <= series[k].tail \/ \E p \in pending : p.key = k /\ n <= p.end
    BY <1>2 DEF Covered
  <2> QED BY <1>3, <2>1, <2>2
<1>9. Arrived'
  <2> SUFFICES ASSUME NEW p \in pending, p.id \in Landed, NEW n \in 1 .. p.end,
                      n > series'[p.key].tail
               PROVE  n \in Stamps(received[p.key])
    BY <1>1, <1>4 DEF Arrived, Stamps
  <2>1. p.key \in Keys /\ p.end \in Nat
    BY DEF IndInv, TypeOK
  <2>2. n \in Int /\ n > series[p.key].tail
    BY <1>3, <2>1
  <2> QED BY <1>2, <2>2 DEF Arrived
<1>10. NothingLostSilently'
  <2> SUFFICES ASSUME NEW k \in Keys, NEW n \in 1 .. series'[k].tail
               PROVE  n \in Stamps(received[k]) \cup dropped'[k]
    BY <1>1 DEF NothingLostSilently, Stamps
  <2>1. n \in 1 .. series[k].tail \/ n \in dropped'[k]
    BY <1>3
  <2> QED BY <1>2, <1>3, <2>1 DEF NothingLostSilently
<1> QED BY <1>5, <1>6, <1>7, <1>8, <1>9, <1>10 DEF Delivery, Content

\* An acknowledgement settles the samples of its own batch: they are the ones
\* the server has published, and those pushed since the snapshot stay unsent.
LEMMA OnReadDoneDelivery ==
    ASSUME IndInv, Delivery, OnReadDone
    PROVE  Delivery'
<1> DEFINE id == Head(acks).id
           it == {p \in pending : p.id = id}
<1>1. /\ acks # <<>> /\ acks' = Tail(acks)
      /\ pending' = pending \ it
      /\ series' = [k \in Keys |->
                      IF \E p \in it : p.key = k
                      THEN AckSnapshot(series[k], (CHOOSE p \in it : p.key = k).end)
                      ELSE series[k]]
      /\ UNCHANGED <<dropped, pollPc, todo, cur, writerqu, writing, wire, srv, received>>
  BY DEF OnReadDone, pollVars, writeVars, serverVars
<1>2. OneEach /\ Registered /\ ToVisit /\ Runs /\ Fresh /\ Covered /\ Arrived /\ NothingLostSilently
  BY DEF Delivery, Content
<1>3. TypeOK /\ PipelineOK /\ WriterOK
  BY DEF IndInv
<1>4. /\ id \in IdsOf(acks) /\ IdsOf(acks') \subseteq IdsOf(acks)
      /\ id \notin IdsOf(wire) \cup IdsOf(Unsent) \cup CurIds
  <2>1. /\ id \in IdsOf(acks) /\ IdsOf(acks') \subseteq IdsOf(acks)
    BY <1>1, <1>3, TailIds DEF TypeOK, PipelineOK
  <2>2. id \in Nat
    BY <1>3, <2>1, PipelineNat
  <2> HIDE DEF id
  <2>3. Below({id}, IdsOf(wire) \cup IdsOf(Unsent) \cup CurIds)
    BY <1>3, <2>1 DEF PipelineOK, Below
  <2> QED BY <2>1, <2>2, <2>3 DEF Below
<1>5. /\ it \subseteq pending /\ \A p \in it : p.id = id
      /\ pending' \subseteq pending /\ \A p \in pending' : p.id # id
      /\ \A p \in pending : p \in pending' \/ p \in it
      /\ \A p \in pending : p.id # id => p \in pending'
  BY <1>1
<1>6. \A p \in pending : p.key \in Keys /\ p.end \in Nat /\ p.id \in Nat
  BY <1>3 DEF TypeOK
<1> HIDE DEF id, it
<1>7. ASSUME NEW p \in it
      PROVE  \A n \in 1 .. p.end : n > series[p.key].tail => n \in Stamps(received[p.key])
  BY <1>2, <1>4, <1>5 DEF Arrived, Landed
<1>8. ASSUME NEW k \in Keys
      PROVE  /\ series[k].tail \in Nat /\ series'[k].tail \in Nat
             /\ series'[k].tail >= series[k].tail
             /\ \/ series'[k].tail = series[k].tail
                \/ \E p \in it : p.key = k /\ series'[k].tail = p.end
             /\ \A p \in it : p.key = k => p.end <= series'[k].tail
  <2>1. series[k].tail \in Nat
    BY RingTypes
  <2>2. CASE \E p \in it : p.key = k
    <3> DEFINE q == CHOOSE p \in it : p.key = k
    <3>1. q \in it /\ q.key = k
      BY <2>2
    <3>2. series'[k] = AckSnapshot(series[k], q.end)
      BY <1>1, <2>2
    <3> HIDE DEF q
    <3>3. q.end \in Nat
      BY <1>5, <1>6, <3>1
    <3>4. \A p \in it : p.key = k => p = q
      BY <1>2, <1>5, <3>1 DEF OneEach
    <3>5. series[k] \in SeriesType
      BY RingTypes
    <3>6. series'[k].tail = IF q.end > series[k].tail THEN q.end ELSE series[k].tail
      BY <3>2, <3>5 DEF AckSnapshot, SeriesType
    <3>7. \A p \in it : p.key = k => p.end <= series'[k].tail
      BY <2>1, <3>3, <3>4, <3>6
    <3> QED BY <2>1, <3>1, <3>3, <3>6, <3>7
  <2>3. CASE ~ \E p \in it : p.key = k
    <3>1. series'[k] = series[k]
      BY <1>1, <2>3
    <3> QED BY <2>1, <2>3, <3>1
  <2> QED BY <2>2, <2>3
<1>9. Queued' = Queued /\ InFlight' = InFlight /\ Landed' \subseteq Landed
  BY <1>1, <1>4 DEF Queued, InFlight, Landed, Unsent, ServerIds
<1>10. OneEach' /\ ToVisit'
  BY <1>1, <1>2, <1>5 DEF OneEach, ToVisit
<1>11. Registered'
  <2>1. ASSUME NEW b \in Queued PROVE Ticket(b) \in pending'
    <3>1. b.id \in IdsOf(wire) \cup IdsOf(Unsent)
      BY StampsIds DEF Queued
    <3>2. Ticket(b) \in pending /\ Ticket(b).id # id
      BY <1>2, <1>4, <3>1 DEF Registered, Ticket
    <3> QED BY <1>5, <3>2
  <2>2. ASSUME pollPc = "push" PROVE Ticket(cur) \in pending'
    <3>1. Ticket(cur) \in pending /\ Ticket(cur).id # id
      BY <1>2, <1>4, <2>2 DEF Registered, Ticket, CurIds
    <3> QED BY <1>5, <3>1
  <2>3. ASSUME pollPc = "register" PROVE \A p \in pending' : p.key # cur.key /\ p.id # cur.id
    BY <1>2, <1>5, <2>3 DEF Registered
  <2> QED BY <1>1, <1>9, <2>1, <2>2, <2>3 DEF Registered, Ticket
<1>12. Runs' /\ Fresh'
  BY <1>1, <1>2, <1>8, <1>9, FlightWhileSettling
<1>13. Covered'
  <2> SUFFICES ASSUME NEW k \in Keys, NEW n \in Stamps(received[k])
               PROVE  n <= series'[k].tail \/ \E p \in pending' : p.key = k /\ n <= p.end
    <3>1. received' = received
      BY <1>1
    <3> QED BY <3>1 DEF Covered, Stamps
  <2>1. n \in Nat
    BY RingTypes
  <2>2. CASE n <= series[k].tail
    BY <1>8, <2>1, <2>2
  <2>3. ASSUME NEW p \in pending, p.key = k, n <= p.end
        PROVE  n <= series'[k].tail \/ \E q \in pending' : q.key = k /\ n <= q.end
    <3>1. CASE p \in pending'
      BY <2>3, <3>1
    <3>2. CASE p \in it
      <4>1. p.end <= series'[k].tail /\ p.end \in Nat /\ series'[k].tail \in Nat
        BY <1>6, <1>8, <2>3, <3>2
      <4> QED BY <2>1, <2>3, <4>1
    <3> QED BY <1>5, <3>1, <3>2
  <2> QED BY <1>2, <2>2, <2>3 DEF Covered
<1>14. Arrived'
  <2> SUFFICES ASSUME NEW p \in pending', p.id \in Landed', NEW n \in 1 .. p.end,
                      n > series'[p.key].tail
               PROVE  n \in Stamps(received[p.key])
    BY <1>1 DEF Arrived, Stamps
  <2>1. p \in pending /\ p.key \in Keys /\ p.end \in Nat /\ p.id \in Landed
    BY <1>5, <1>6, <1>9
  <2>2. n \in Int /\ n > series[p.key].tail
    BY <1>8, <2>1
  <2> QED BY <1>2, <2>1, <2>2 DEF Arrived
<1>15. NothingLostSilently'
  <2> SUFFICES ASSUME NEW k \in Keys, NEW n \in 1 .. series'[k].tail
               PROVE  n \in Stamps(received[k]) \cup dropped[k]
    BY <1>1 DEF NothingLostSilently, Stamps
  <2>1. CASE n <= series[k].tail
    <3>1. n \in 1 .. series[k].tail
      BY <1>8, <2>1
    <3> QED BY <1>2, <3>1 DEF NothingLostSilently
  <2>2. CASE n > series[k].tail
    <3>1. PICK p \in it : p.key = k /\ series'[k].tail = p.end
      BY <1>8, <2>2
    <3>2. n \in 1 .. p.end /\ n > series[p.key].tail
      BY <2>2, <3>1
    <3>3. n \in Stamps(received[p.key])
      BY <1>7, <3>2
    <3> QED BY <3>1, <3>3
  <2> QED BY <1>8, <2>1, <2>2
<1> QED BY <1>10, <1>11, <1>12, <1>13, <1>14, <1>15 DEF Delivery, Content

-----------------------------------------------------------------------------
(* The life of a batch: snapshot, registration, queue, publication         *)

\* A snapshot starts where the ring is settled, and everything published of the
\* series is settled, as the series has no batch waiting for acknowledgement.
LEMMA PollSnapshotDelivery ==
    ASSUME IndInv, Delivery, NEW k \in Keys, PollSnapshot(k)
    PROVE  Delivery'
<1> DEFINE snapshot == GetSnapshot(series[k])
           batch == [id |-> batchId, key |-> k, samples |-> snapshot.samples,
                     end |-> snapshot.end]
<1>1. /\ pollPc = "round" /\ k \in todo /\ todo' = todo \ {k}
      /\ UNCHANGED <<series, dropped, pending, writerqu, writing, wire, acks, srv, received>>
      /\ \/ UNCHANGED <<pollPc, cur>>
         \/ snapshot.samples # <<>> /\ cur' = batch /\ pollPc' = "register"
  BY DEF PollSnapshot, bufferVars, writeVars, serverVars
<1>2. OneEach /\ Registered /\ ToVisit /\ Content
  BY DEF Delivery
<1>3. Queued' = Queued /\ Landed' = Landed
  BY <1>1 DEF Queued, Landed, Unsent, ServerIds
<1>4. CASE UNCHANGED <<pollPc, cur>>
  BY <1>1, <1>3, <1>4, DeliveryFrame
<1>5. CASE snapshot.samples # <<>> /\ cur' = batch /\ pollPc' = "register"
  <2>1. /\ series[k] \in SeriesType /\ RingIntact(series[k])
        /\ series[k].head \in Nat /\ series[k].tail \in Nat
        /\ Stamps(received[k]) \subseteq Nat
    BY RingTypes
  <2>2. /\ snapshot.samples \in Seq(Nat)
        /\ Len(snapshot.samples) = series[k].head - series[k].tail
        /\ \A j \in 1 .. series[k].head - series[k].tail : snapshot.samples[j] = series[k].tail + j
        /\ snapshot.end = series[k].head
    BY <2>1, SnapshotConsecutive
  <2>3. batch.key = k /\ batch.id = batchId /\ batch.samples = snapshot.samples /\ batch.end = snapshot.end
    OBVIOUS
  <2> HIDE DEF batch, snapshot
  <2>4. First(batch) = series[k].tail
    BY <2>1, <2>2, <2>3 DEF First
  <2>5. Len(batch.samples) >= 1
    BY <1>5, <2>2, <2>3
  <2>6. IsRun(batch, series[k].tail)
    BY <2>1, <2>2, <2>3, <2>4, <2>5 DEF IsRun
  <2>7. \A p \in pending : p.key # k
    BY <1>1, <1>2 DEF ToVisit
  <2>8. \A n \in Stamps(received[k]) : n <= First(batch)
    BY <1>2, <2>4, <2>7 DEF Content, Covered
  <2>9. InFlight' = Queued \cup {batch} /\ Queued \subseteq InFlight
    BY <1>3, <1>5 DEF InFlight
  <2>10. OneEach'
    BY <1>1, <1>2 DEF OneEach
  <2>11. Registered'
    <3>1. \A p \in pending : p.id # batchId
      <4>1. Below(PendingIds, {batchId}) /\ batchId \in Nat /\ PendingIds \subseteq Nat
        BY PipelineNat DEF IndInv, PipelineOK, TypeOK, Below
      <4>2. \A p \in pending : p.id \in PendingIds
        BY DEF PendingIds
      <4> QED BY <4>1, <4>2 DEF Below
    <3> QED BY <1>1, <1>2, <1>3, <1>5, <2>3, <2>7, <3>1 DEF Registered, Ticket
  <2>12. ToVisit'
    BY <1>1, <1>2, <1>5, <2>3 DEF ToVisit
  <2>13. Runs'
    <3> SUFFICES ASSUME NEW b \in InFlight' PROVE IsRun(b, series[b.key].tail)
      BY <1>1 DEF Runs, IsRun, First
    <3>1. CASE b = batch
      BY <2>3, <2>6, <3>1
    <3>2. CASE b \in InFlight
      BY <1>2, <3>2 DEF Content, Runs
    <3> QED BY <2>9, <3>1, <3>2
  <2>14. Fresh'
    <3> SUFFICES ASSUME NEW b \in InFlight', NEW n \in Stamps(received[b.key]) PROVE n <= First(b)
      BY <1>1 DEF Fresh, First, Stamps
    <3>1. CASE b = batch
      BY <2>3, <2>8, <3>1
    <3>2. CASE b \in InFlight
      BY <1>2, <3>2 DEF Content, Fresh
    <3> QED BY <2>9, <3>1, <3>2
  <2>15. Covered' /\ NothingLostSilently'
    BY <1>1, <1>2 DEF Content, Covered, NothingLostSilently, Stamps
  <2>16. Arrived'
    BY <1>1, <1>2, <1>3 DEF Content, Arrived, Stamps
  <2> QED BY <2>10, <2>11, <2>12, <2>13, <2>14, <2>15, <2>16 DEF Delivery, Content
<1> QED BY <1>1, <1>4, <1>5

\* The snapshot registered is the only one of its series and of its id.
LEMMA PollRegisterDelivery ==
    ASSUME IndInv, Delivery, PollRegister
    PROVE  Delivery'
<1>1. /\ pollPc = "register" /\ pollPc' = "push" /\ pending' = pending \cup {Ticket(cur)}
      /\ UNCHANGED <<series, dropped, todo, cur, writerqu, writing, wire, acks, srv, received>>
  BY DEF PollRegister, Ticket, bufferVars, writeVars, serverVars
<1>2. OneEach /\ Registered /\ ToVisit /\ Content
  BY DEF Delivery
<1>3. /\ cur # NoBatch /\ Ticket(cur).id = cur.id /\ Ticket(cur).key = cur.key
      /\ Ticket(cur)' = Ticket(cur)
  BY <1>1 DEF Ticket, IndInv, TypeOK
<1>4. Queued' = Queued /\ InFlight' = InFlight /\ Landed' = Landed
  BY <1>1 DEF Queued, InFlight, Landed, Unsent, ServerIds
<1>5. OneEach'
  BY <1>1, <1>2, <1>3 DEF OneEach, Registered
<1>6. Registered'
  <2>1. \A b \in Queued : Ticket(b) \in pending'
    BY <1>1, <1>2 DEF Registered
  <2>2. Ticket(cur) \in pending'
    BY <1>1
  <2> QED BY <1>1, <1>3, <1>4, <2>1, <2>2 DEF Registered, Ticket
<1>7. ToVisit'
  BY <1>1, <1>2, <1>3 DEF ToVisit
<1>8. Runs' /\ Fresh' /\ NothingLostSilently'
  BY <1>1, <1>2, <1>4 DEF Content, Runs, IsRun, First, Fresh, NothingLostSilently, Stamps
<1>9. Covered'
  BY <1>1, <1>2 DEF Content, Covered, Stamps
<1>10. Arrived'
  <2>1. Ticket(cur).id \notin Landed
    <3>1. cur.id \in CurIds /\ CurIds \subseteq Nat /\ Below(Landed, CurIds)
      <4>1. TypeOK /\ WriterOK /\ PipelineOK
        BY DEF IndInv
      <4> QED BY <1>1, <4>1, PipelineNat DEF CurIds, PipelineOK, Below, Landed
    <3>2. cur.id \in Nat /\ \A x \in Landed : x < cur.id
      BY <3>1 DEF Below
    <3>3. cur.id \notin Landed
      BY <3>2
    <3> QED BY <1>3, <3>3
  <2> SUFFICES ASSUME NEW p \in pending', p.id \in Landed, NEW n \in 1 .. p.end,
                      n > series[p.key].tail
               PROVE  n \in Stamps(received[p.key])
    BY <1>1, <1>4 DEF Arrived, Stamps
  <2>2. p \in pending
    BY <1>1, <2>1
  <2> QED BY <1>2, <2>2 DEF Content, Arrived
<1> QED BY <1>5, <1>6, <1>7, <1>8, <1>9, <1>10 DEF Delivery, Content

\* The batch joins the queue.
LEMMA PollPushDelivery ==
    ASSUME IndInv, Delivery, PollPush
    PROVE  Delivery'
<1>1. /\ pollPc = "push" /\ pollPc' = "round" /\ cur' = NoBatch
      /\ writerqu' = Append(writerqu, cur)
      /\ UNCHANGED <<series, dropped, todo, pending, writing, wire, acks, srv, received>>
  BY DEF PollPush, bufferVars, serverVars
<1>2. OneEach /\ Registered /\ ToVisit /\ Content
  BY DEF Delivery
<1>3. cur \in BatchType /\ writerqu \in Seq(BatchType) /\ writing \in BOOLEAN
  BY <1>1 DEF IndInv, TypeOK
<1>4. Stamps(Unsent') = Stamps(Unsent) \cup {cur}
  <2>1. Unsent' = Append(Unsent, cur)
    <3>1. CASE writing
      BY <1>1, <1>3, <3>1, TailOfAppend DEF Unsent, IndInv, WriterOK
    <3>2. CASE ~writing
      BY <1>1, <3>2 DEF Unsent
    <3> QED BY <3>1, <3>2
  <2>2. Unsent \in Seq(BatchType)
    BY FlightTypes
  <2>3. Stamps(Append(Unsent, cur)) = Stamps(Unsent) \cup {cur}
    BY <1>3, <2>2, StampsAppend
  <2> QED BY <2>1, <2>3
<1>5. Queued' = Queued \cup {cur} /\ InFlight' = InFlight /\ Landed' = Landed
  <2>1. Queued' = Queued \cup {cur}
    BY <1>1, <1>4 DEF Queued
  <2> QED BY <1>1, <2>1 DEF InFlight, Landed, ServerIds
<1>6. OneEach' /\ ToVisit'
  BY <1>1, <1>2 DEF OneEach, ToVisit
<1>7. Registered'
  <2>1. \A b \in Queued' : Ticket(b) \in pending
    BY <1>1, <1>2, <1>5 DEF Registered
  <2> QED BY <1>1, <2>1 DEF Registered, Ticket
<1>8. Content'
  BY <1>1, <1>2, <1>5, ContentFrame
<1> QED BY <1>6, <1>7, <1>8 DEF Delivery

\* The server publishes the batch with the smallest id on the connection.  No
\* other batch of its series is in flight, so none is behind what it publishes.
LEMMA ServerRecvDelivery ==
    ASSUME IndInv, Delivery, ServerRecv
    PROVE  Delivery'
<1>1. wire # <<>> /\ wire \in Seq(BatchType)
  BY FlightTypes DEF ServerRecv
<1> DEFINE h == Head(wire)
<1>2. /\ wire' = Tail(wire) /\ srv = Receiving /\ srv' = Acking(h.id)
      /\ received' = [received EXCEPT ![h.key] = @ \o h.samples]
      /\ UNCHANGED <<series, dropped, pending, pollPc, todo, cur, writerqu, writing, acks>>
  BY DEF ServerRecv, bufferVars, pollVars, writeVars
<1>3. /\ h \in BatchType /\ h \in Stamps(wire) /\ Stamps(Tail(wire)) \subseteq Stamps(wire)
  BY <1>1, StampsTail
<1>4. OneEach /\ Registered /\ ToVisit /\ Runs /\ Fresh /\ Covered /\ Arrived /\ NothingLostSilently
  BY DEF Delivery, Content
<1>5. TypeOK /\ WriterOK /\ PipelineOK
  BY DEF IndInv
<1>6. /\ Below({h.id}, IdsOf(Tail(wire))) /\ h.id \in IdsOf(wire)
  BY <1>1, <1>5, TailIds DEF PipelineOK
<1> HIDE DEF h
<1>7. h.key \in Keys /\ h.id \in Nat /\ h.end \in Nat /\ h.samples \in Seq(Nat)
  BY <1>3 DEF BatchType
<1>8. Below({h.id}, IdsOf(Tail(wire)) \cup IdsOf(Unsent) \cup CurIds)
  BY <1>5, <1>6 DEF PipelineOK, Below
<1>9. h \in Queued /\ h \in InFlight /\ Ticket(h) \in pending
  BY <1>3, <1>4 DEF Queued, InFlight, Registered
<1>10. /\ Ticket(h).id = h.id /\ Ticket(h).key = h.key /\ Ticket(h).end = h.end
  BY DEF Ticket
<1>11. Queued' \subseteq Queued /\ InFlight' \subseteq InFlight
  <2>1. Unsent' = Unsent
    BY <1>2 DEF Unsent
  <2>2. Queued' \subseteq Queued
    BY <1>2, <1>3, <2>1 DEF Queued
  <2> QED BY <1>2, <2>2 DEF InFlight
<1>12. \A b \in InFlight' : b.id # h.id /\ b.key # h.key
  <2> SUFFICES ASSUME NEW b \in InFlight' PROVE b.id # h.id /\ b.key # h.key
    OBVIOUS
  <2>1. b \in InFlight
    BY <1>11
  <2>2. b.id \in IdsOf(Tail(wire)) \cup IdsOf(Unsent) \cup CurIds
    <3>1. Unsent' = Unsent
      BY <1>2 DEF Unsent
    <3>2. b \in Stamps(Tail(wire)) \/ b \in Stamps(Unsent) \/ (pollPc \in {"register", "push"} /\ b = cur)
      BY <1>2, <3>1 DEF InFlight, Queued
    <3> QED BY <3>2, StampsIds DEF CurIds
  <2>3. b.id # h.id
    BY <1>7, <1>8, <2>2 DEF Below
  <2>4. CASE Ticket(b) \in pending
    <3>1. Ticket(b).id = b.id /\ Ticket(b).key = b.key
      BY DEF Ticket
    <3>2. b.key # h.key
      BY <1>4, <1>9, <1>10, <2>3, <2>4, <3>1 DEF OneEach
    <3> QED BY <2>3, <3>2
  <2>5. CASE pollPc = "register" /\ b = cur
    BY <1>4, <1>9, <1>10, <2>3, <2>5 DEF Registered
  <2>6. b \in Queued \/ (pollPc \in {"register", "push"} /\ b = cur)
    BY <2>1 DEF InFlight
  <2> QED BY <1>4, <2>4, <2>5, <2>6 DEF Registered
<1>13. /\ received'[h.key] = received[h.key] \o h.samples
       /\ \A k \in Keys : k # h.key => received'[k] = received[k]
  BY <1>2, <1>5, <1>7 DEF TypeOK
<1>14. /\ Stamps(received'[h.key]) = Stamps(received[h.key]) \cup Stamps(h.samples)
       /\ \A k \in Keys : k # h.key => Stamps(received'[k]) = Stamps(received[k])
       /\ \A k \in Keys : Stamps(received[k]) \subseteq Stamps(received'[k])
  <2>1. received[h.key] \in Seq(Nat)
    BY <1>7, RingTypes
  <2>2. Stamps(received[h.key] \o h.samples) = Stamps(received[h.key]) \cup Stamps(h.samples)
    BY <1>7, <2>1, StampsConcat
  <2> QED BY <1>13, <2>2
<1>15. /\ \A n \in Stamps(h.samples) : n \in Nat /\ n <= h.end
       /\ \A n \in 1 .. h.end : n > series[h.key].tail => n \in Stamps(h.samples)
  <2>1. IsRun(h, series[h.key].tail) /\ series[h.key].tail \in Nat
    BY <1>4, <1>7, <1>9, RingTypes DEF Runs
  <2>2. /\ Len(h.samples) \in Nat /\ DOMAIN h.samples = 1 .. Len(h.samples)
        /\ First(h) \in Int /\ h.end = First(h) + Len(h.samples)
    BY <1>7 DEF First
  <2>3. \A n \in Stamps(h.samples) : n \in Nat /\ n <= h.end
    BY <2>1, <2>2 DEF IsRun, Stamps
  <2>4. ASSUME NEW n \in 1 .. h.end, n > series[h.key].tail PROVE n \in Stamps(h.samples)
    <3>1. n - First(h) \in 1 .. Len(h.samples)
      BY <2>1, <2>2, <2>4 DEF IsRun
    <3>2. h.samples[n - First(h)] = n
      BY <2>1, <2>2, <3>1 DEF IsRun
    <3> QED BY <2>2, <3>1, <3>2 DEF Stamps
  <2> QED BY <2>3, <2>4
<1>16. Landed' = Landed \cup {h.id}
  BY <1>2 DEF Landed, ServerIds, Receiving, Acking
<1>17. OneEach' /\ ToVisit'
  BY <1>2, <1>4 DEF OneEach, ToVisit
<1>18. Registered'
  BY <1>2, <1>4, <1>11 DEF Registered, Ticket
<1>19. Runs'
  BY <1>2, <1>4, <1>11 DEF Runs, IsRun, First
<1>20. Fresh'
  <2> SUFFICES ASSUME NEW b \in InFlight', NEW n \in Stamps(received'[b.key]) PROVE n <= First(b)
    BY DEF Fresh, First, Stamps
  <2>1. b \in InFlight /\ b.key \in Keys /\ b.key # h.key
    BY <1>11, <1>12, FlightTypes DEF BatchType
  <2>2. n \in Stamps(received[b.key])
    BY <1>14, <2>1
  <2> QED BY <1>4, <2>1, <2>2 DEF Fresh
<1>21. Covered'
  <2> SUFFICES ASSUME NEW k \in Keys, NEW n \in Stamps(received'[k])
               PROVE  n <= series[k].tail \/ \E p \in pending : p.key = k /\ n <= p.end
    <3>1. series' = series /\ pending' = pending
      BY <1>2
    <3> QED BY <3>1 DEF Covered, Stamps
  <2>1. CASE n \in Stamps(received[k])
    BY <1>4, <2>1 DEF Covered
  <2>2. CASE k = h.key /\ n \in Stamps(h.samples)
    BY <1>9, <1>10, <1>15, <2>2
  <2> QED BY <1>14, <2>1, <2>2
<1>22. Arrived'
  <2> SUFFICES ASSUME NEW p \in pending, p.id \in Landed', NEW n \in 1 .. p.end,
                      n > series[p.key].tail
               PROVE  n \in Stamps(received'[p.key])
    <3>1. series' = series /\ pending' = pending
      BY <1>2
    <3> QED BY <3>1 DEF Arrived, Stamps
  <2>1. p.key \in Keys
    BY <1>5 DEF TypeOK
  <2>2. CASE p.id \in Landed
    <3>1. n \in Stamps(received[p.key])
      BY <1>4, <2>2 DEF Arrived
    <3> QED BY <1>14, <2>1, <3>1
  <2>3. CASE p.id = h.id
    <3>1. p = Ticket(h)
      BY <1>4, <1>9, <1>10, <2>3 DEF OneEach
    <3>2. n \in Stamps(h.samples) /\ p.key = h.key
      BY <1>10, <1>15, <3>1
    <3> QED BY <1>14, <3>2
  <2> QED BY <1>16, <2>2, <2>3
<1>23. NothingLostSilently'
  <2> SUFFICES ASSUME NEW k \in Keys, NEW n \in 1 .. series[k].tail
               PROVE  n \in Stamps(received'[k]) \cup dropped[k]
    <3>1. series' = series /\ dropped' = dropped
      BY <1>2
    <3> QED BY <3>1 DEF NothingLostSilently, Stamps
  <2>1. n \in Stamps(received[k]) \cup dropped[k]
    BY <1>4 DEF NothingLostSilently
  <2> QED BY <1>14, <2>1
<1> QED BY <1>17, <1>18, <1>19, <1>20, <1>21, <1>22, <1>23 DEF Delivery, Content

-----------------------------------------------------------------------------
(* The theorems                                                            *)

\* No step of any of the four threads, of the server or of the environment
\* leaves the invariant.
LEMMA NextDelivery == IndInv /\ Delivery /\ [Next]_vars => Delivery'
<1> SUFFICES ASSUME IndInv, Delivery, [Next]_vars PROVE Delivery'
  OBVIOUS
<1>1. CASE \E ms \in SUBSET (Keys \cup {Unspecified}) : AddMetrics(ms)
  BY <1>1, AddMetricsDelivery
<1>2. CASE \/ PollCheck \/ PollRecheck \/ OnWriteDone
           \/ OnWriteDoneFail \/ OnReadDoneFail \/ OnDone \/ Break
           \/ ServerReturn \/ UNCHANGED vars
  BY <1>2, QuietDelivery
<1>3. CASE \E k \in Keys : PollSnapshot(k)
  BY <1>3, PollSnapshotDelivery
<1>4. CASE PollRegister
  BY <1>4, PollRegisterDelivery
<1>5. CASE PollPush
  BY <1>5, PollPushDelivery
<1>6. CASE PollWrite \/ OnWriteDoneWrite
  BY <1>6, WriteDelivery
<1>7. CASE OnReadDone
  BY <1>7, OnReadDoneDelivery
<1>8. CASE ServerRecv
  BY <1>8, ServerRecvDelivery
<1>9. CASE ServerAck
  BY <1>9, ServerAckDelivery
<1> QED BY <1>1, <1>2, <1>3, <1>4, <1>5, <1>6, <1>7, <1>8, <1>9
        DEF Next, Poll, Callback, Server

\* In every reachable state each series has at most one batch under way, and
\* that batch is the run of samples its snapshot promises to acknowledge.
THEOREM DeliveryInvariant == Spec => []Delivery
<1>1. Init => Delivery
  BY InitDelivery
<1>2. IndInv /\ Delivery /\ [Next]_vars => Delivery'
  BY NextDelivery
<1> QED BY <1>1, <1>2, InductiveInvariant, PTL DEF Spec

\* AckSnapshot never moves tail_ over a sample that the server has not published
\* and Push has not overwritten, whatever was pushed between the snapshot and
\* its acknowledgement and wherever the connection broke.
THEOREM NeverLostSilently == Spec => []NothingLostSilently
<1>1. Delivery => NothingLostSilently
  BY DEF Delivery, Content
<1> QED BY <1>1, DeliveryInvariant, PTL

\* A round of collection is a step of the abstract stream: every series gains
\* one sample or none (none at all when the rings have no slots).
LEMMA AddMetricsProduces ==
    ASSUME IndInv, NEW ms \in SUBSET (Keys \cup {Unspecified}), AddMetrics(ms)
    PROVE  Stream!Produce
<1> DEFINE ks == IF Cap = 0 THEN {} ELSE ms \ {Unspecified}
<1>1. ks \in SUBSET Keys
  OBVIOUS
<1>2. received' = received
  BY DEF AddMetrics, serverVars
<1>3. ASSUME NEW k \in Keys
      PROVE  series'[k].head = IF k \in ks THEN series[k].head + 1 ELSE series[k].head
  <2>1. series'[k] = IF k \in ms \ {Unspecified} THEN Push(series[k], series[k].head + 1) ELSE series[k]
    BY DEF AddMetrics
  <2> QED BY <2>1 DEF Push
<1> HIDE DEF ks
<1>4. [k \in Keys |-> series[k].head]'
        = [k \in Keys |-> IF k \in ks THEN [j \in Keys |-> series[j].head][k] + 1
                                      ELSE [j \in Keys |-> series[j].head][k]]
  BY <1>3
<1> QED BY <1>1, <1>2, <1>4 DEF Stream!Produce

\* The server's Recv is a step of the abstract stream: the batch is a run of
\* consecutive samples after everything published of its series.
LEMMA ServerRecvPublishes ==
    ASSUME IndInv, Delivery, ServerRecv
    PROVE  Stream!Publish
<1>1. wire # <<>> /\ wire \in Seq(BatchType)
  BY FlightTypes DEF ServerRecv
<1> DEFINE h == Head(wire)
<1>2. /\ series' = series /\ received' = [received EXCEPT ![h.key] = @ \o h.samples]
  BY DEF ServerRecv, bufferVars
<1>3. h \in InFlight /\ h \in Queued
  BY <1>1, StampsTail DEF InFlight, Queued
<1> HIDE DEF h
<1>4. h.key \in Keys /\ h.end \in Nat /\ h.samples \in Seq(Nat)
  BY <1>3, FlightTypes DEF BatchType
<1>5. /\ IsRun(h, series[h.key].tail) /\ \A n \in Stamps(received[h.key]) : n <= First(h)
  BY <1>3 DEF Delivery, Content, Runs, Fresh
<1>6. h.end <= series[h.key].head
  <2>1. Ticket(h) \in pending
    BY <1>3 DEF Delivery, Registered
  <2> QED BY <2>1 DEF Ticket, IndInv, SnapshotsOK
<1>7. series[h.key].head \in Nat /\ received[h.key] \in Seq(Nat)
  BY <1>4, RingTypes
<1> DEFINE lo == First(h) + 1
<1>8. /\ Len(h.samples) \in Nat /\ First(h) \in Nat /\ h.end = First(h) + Len(h.samples)
      /\ Len(h.samples) >= 1
  BY <1>4, <1>5 DEF IsRun, First
<1>9. h.end \in 1 .. series[h.key].head /\ lo \in 1 .. h.end
  BY <1>6, <1>7, <1>8
<1>10. \A i \in DOMAIN received[h.key] : received[h.key][i] < lo
  <2> SUFFICES ASSUME NEW i \in DOMAIN received[h.key] PROVE received[h.key][i] < lo
    OBVIOUS
  <2>1. received[h.key][i] \in Stamps(received[h.key]) /\ received[h.key][i] \in Nat
    BY <1>7 DEF Stamps
  <2> QED BY <1>5, <1>8, <2>1
<1>11. h.samples = Stream!Run(lo, h.end)
  <2>1. DOMAIN h.samples = 1 .. Len(h.samples)
    BY <1>4
  <2>2. h.samples = [i \in 1 .. Len(h.samples) |-> h.samples[i]]
    BY <1>4, <2>1
  <2>3. h.end - lo + 1 = Len(h.samples)
    BY <1>8
  <2>4. \A i \in 1 .. Len(h.samples) : h.samples[i] = lo + i - 1
    BY <1>5, <1>8 DEF IsRun
  <2> QED BY <2>2, <2>3, <2>4 DEF Stream!Run
<1> HIDE DEF lo
<1>12. received' = [received EXCEPT ![h.key] = @ \o Stream!Run(lo, h.end)]
  BY <1>2, <1>11
<1>13. [k \in Keys |-> series[k].head]' = [k \in Keys |-> series[k].head]
  BY <1>2
<1>14. h.end \in 1 .. [k \in Keys |-> series[k].head][h.key]
  BY <1>4, <1>9
<1> QED BY <1>4, <1>9, <1>10, <1>12, <1>13, <1>14 DEF Stream!Publish

\* Every other step leaves the number of samples taken and what was published.
LEMMA OthersStutter ==
    ASSUME IndInv, Poll \/ Callback \/ ServerAck \/ ServerReturn \/ Break \/ UNCHANGED vars
    PROVE  received' = received
           /\ [k \in Keys |-> series[k].head]' = [k \in Keys |-> series[k].head]
<1>1. received' = received
  BY DEF Poll, PollCheck, PollSnapshot, PollRegister, PollPush, PollRecheck, PollWrite,
         Callback, OnWriteDone, OnWriteDoneWrite, OnReadDone, OnWriteDoneFail, OnReadDoneFail,
         OnDone, ServerAck, ServerReturn, Break, vars, serverVars
<1>2. CASE OnReadDone
  <2> SUFFICES ASSUME NEW k \in Keys PROVE series'[k].head = series[k].head
    BY <1>1
  <2>1. \/ series'[k] = series[k]
        \/ \E e : series'[k] = AckSnapshot(series[k], e)
    BY <1>2 DEF OnReadDone
  <2>2. series[k] \in SeriesType
    BY RingTypes
  <2> QED BY <2>1, <2>2 DEF AckSnapshot, SeriesType
<1>3. CASE ~OnReadDone
  <2>1. series' = series
    BY <1>3 DEF Poll, PollCheck, PollSnapshot, PollRegister, PollPush, PollRecheck, PollWrite,
                Callback, OnWriteDone, OnWriteDoneWrite, OnWriteDoneFail, OnReadDoneFail,
                OnDone, ServerAck, ServerReturn, Break, vars, bufferVars
  <2> QED BY <1>1, <2>1
<1> QED BY <1>2, <1>3

\* StreamMetrics implements SampleStream: whatever the scheduler, poll_thread_,
\* the callbacks and the connection do, the bus sees each series as runs of
\* consecutive samples, in order, none repeated and none invented.
THEOREM ImplementsSampleStream == Spec => StreamSpec
<1>1. Init => Stream!Init
  BY DEF Init, Stream!Init, NewSeries
<1>2. IndInv /\ Delivery /\ [Next]_vars => [Stream!Next]_(Stream!vars)
  <2> SUFFICES ASSUME IndInv, Delivery, [Next]_vars PROVE [Stream!Next]_(Stream!vars)
    OBVIOUS
  <2>1. CASE \E ms \in SUBSET (Keys \cup {Unspecified}) : AddMetrics(ms)
    BY <2>1, AddMetricsProduces DEF Stream!Next
  <2>2. CASE ServerRecv
    BY <2>2, ServerRecvPublishes DEF Stream!Next
  <2>3. CASE Poll \/ Callback \/ ServerAck \/ ServerReturn \/ Break \/ UNCHANGED vars
    BY <2>3, OthersStutter DEF Stream!vars
  <2> QED BY <2>1, <2>2, <2>3 DEF Next, Server
<1> QED BY <1>1, <1>2, InductiveInvariant, DeliveryInvariant, PTL DEF Spec, StreamSpec, Stream!Spec

\* writerqu_ holds at most one batch of each series that waits to be sent,
\* besides the one whose OnWriteDone is outstanding: it stays bounded by the
\* number of series however long the connection hangs.
THEOREM QueueAlwaysBounded == Spec => []BoundedQueue
<1>1. IndInv /\ Delivery => BoundedQueue
  <2> SUFFICES ASSUME IndInv, Delivery PROVE BoundedQueue
    OBVIOUS
  <2>1. Unsent \in Seq(BatchType) /\ writerqu \in Seq(BatchType) /\ writing \in BOOLEAN
    BY FlightTypes DEF IndInv, TypeOK
  <2>2. Len(writerqu) <= Len(Unsent) + 1 /\ Len(Unsent) \in Nat /\ Len(writerqu) \in Nat
    BY <2>1 DEF Unsent
  <2> DEFINE n == Len(Unsent)
             f == [i \in 1 .. n |-> Unsent[i].key]
  <2>3. \A i \in 1 .. n : Unsent[i] \in BatchType /\ Unsent[i] \in Queued
    BY <2>1 DEF Queued, Stamps
  <2>4. ASSUME NEW i \in 1 .. n, NEW j \in 1 .. n, Unsent[i].key = Unsent[j].key
        PROVE  i = j
    <3>1. Ticket(Unsent[i]) \in pending /\ Ticket(Unsent[j]) \in pending
      BY <2>3 DEF Delivery, Registered
    <3>2. Ticket(Unsent[i]) = Ticket(Unsent[j])
      BY <2>4, <3>1 DEF Delivery, OneEach, Ticket
    <3>3. Unsent[i].id = Unsent[j].id /\ Unsent[i].id \in Nat
      BY <2>3, <3>2 DEF Ticket, BatchType
    <3>4. Ascending(Unsent) /\ DOMAIN Unsent = 1 .. n
      BY <2>1 DEF IndInv, PipelineOK
    <3>5. ~(i < j) /\ ~(j < i)
      BY <3>3, <3>4 DEF Ascending
    <3> QED BY <3>5
  <2>5. f \in Injection(1 .. n, Keys)
    <3>1. f \in [1 .. n -> Keys]
      BY <2>3 DEF BatchType
    <3>2. \A i, j \in 1 .. n : f[i] = f[j] => i = j
      BY <2>4
    <3>3. DOMAIN f = 1 .. n
      OBVIOUS
    <3> QED BY <3>1, <3>2, <3>3 DEF Injection, IsInjective
  <2> HIDE DEF f
  <2>6. Cardinality(1 .. n) <= Cardinality(Keys)
    BY <2>5, KeysAssumption, FS_Injection
  <2>7. Cardinality(1 .. n) = n
    <3>1. 1 \in Int /\ n \in Int /\ n \in Nat
      BY <2>2
    <3> HIDE DEF n
    <3>2. Cardinality(1 .. n) = IF 1 > n THEN 0 ELSE n - 1 + 1
      BY <3>1, FS_Interval
    <3> QED BY <3>1, <3>2
  <2>8. Cardinality(Keys) \in Nat
    BY KeysAssumption, FS_CardinalityType
  <2> QED BY <2>2, <2>6, <2>7, <2>8 DEF BoundedQueue
<1> QED BY <1>1, InductiveInvariant, DeliveryInvariant, PTL

=============================================================================
