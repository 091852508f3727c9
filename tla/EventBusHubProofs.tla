-------------------------- MODULE EventBusHubProofs -------------------------
(***************************************************************************)
(* For any number of browsers, StreamMetrics handlers and batches, and any *)
(* capacity of the channels: although Publish walks a slice that Subscribe *)
(* and Unsubscribe write, no handler panics and no browser sees a batch    *)
(* twice, out of order or not at all before the server shuts down.         *)
(***************************************************************************)
EXTENDS EventBusHub, SequenceTheorems, FiniteSetTheorems, TLAPS

-----------------------------------------------------------------------------
(* The slices and their arrays                                             *)

\* What is in a slice is a subscriber, never an unused place of the array: in the
\* bus's own slice, and in the copy of its header that each Publish walks.
Slices ==
    /\ heap # <<>>
    /\ \A i \in 1 .. len : heap[Len(heap)][i] \in Clients
    /\ \A p \in Pubs :
         /\ pub[p].pc = "loop" => pub[p].i >= 1 /\ pub[p].batch \in Batches
         /\ pub[p].len <= Len(heap[pub[p].arr])
         /\ \A i \in 1 .. pub[p].len : heap[pub[p].arr][i] \in Clients

\* A pump holds a batch exactly while it writes it; it was started once, for a
\* client that is registered and so was upgraded.
Pumps ==
    /\ \A c \in Clients :
         /\ http[c] # "none" => sock[c] # "none"
         /\ pump[c] = "write" <=> holding[c] # NoBatch
         /\ pump[c] # "off" => http[c] = "registered"
    /\ \A i \in DOMAIN register : http[register[i]] = "registered" /\ pump[register[i]] = "off"
    /\ \A i, j \in DOMAIN register : register[i] = register[j] => i = j

BusInv == TypeOK /\ Slices /\ Pumps

\* A function on an initial interval is a sequence.
LEMMA FunctionIsSeq ==
  ASSUME NEW S, NEW n \in Nat, NEW f \in [1 .. n -> S]
  PROVE  f \in Seq(S) /\ Len(f) = n
<1>1. f = [i \in 1 .. n |-> f[i]]
  OBVIOUS
<1>2. f \in Seq(S)
  BY <1>1
<1>3. Len(f) = n
  BY <1>1
<1> QED BY <1>2, <1>3

\* The newest array, and the numbers that go with it.
LEMMA Newest ==
  ASSUME BusInv
  PROVE  /\ heap \in Seq(Seq(Elements)) /\ Len(heap) \in Nat \ {0}
         /\ heap[Len(heap)] \in Seq(Elements)
         /\ \A a \in 1 .. Len(heap) : heap[a] \in Seq(Elements) /\ Len(heap[a]) \in Nat
         /\ len \in Nat /\ len <= Len(heap[Len(heap)])
<1> HIDE DEF Elements
<1>1. heap \in Seq(Seq(Elements)) /\ heap # <<>> /\ len \in 0 .. Len(heap[Len(heap)])
  BY DEF BusInv, TypeOK, Slices
<1>2. Len(heap) \in Nat \ {0} /\ \A a \in 1 .. Len(heap) : heap[a] \in Seq(Elements)
  BY <1>1, EmptySeq, ElementOfSeq
<1>3. \A a \in 1 .. Len(heap) : Len(heap[a]) \in Nat
  BY <1>2
<1>4. Len(heap[Len(heap)]) \in Nat
  BY <1>2, <1>3
<1> QED BY <1>1, <1>2, <1>3, <1>4

\* Subscribe writes one place, the first unused one, or copies into a new array.
LEMMA SubscribeHeap ==
  ASSUME BusInv, NEW c \in Clients, Subscribe(c)
  PROVE  /\ heap' \in Seq(Seq(Elements)) /\ Len(heap') \in Nat /\ Len(heap') >= Len(heap)
         /\ len' = len + 1 /\ len' <= Len(heap'[Len(heap')])
         /\ \A a \in 1 .. Len(heap) :
              /\ Len(heap'[a]) = Len(heap[a])
              /\ \A i \in 1 .. Len(heap[a]) :
                   heap'[a][i] = IF a = Len(heap') /\ i = len + 1 THEN c ELSE heap[a][i]
         /\ \A i \in 1 .. len : heap'[Len(heap')][i] = heap[Len(heap)][i]
         /\ heap'[Len(heap')][len + 1] = c
<1> DEFINE n == Len(heap)
           arr == heap[n]
           size == IF Len(arr) = 0 THEN 1 ELSE 2 * Len(arr)
           grown == [i \in 1 .. size |->
                       IF i <= len THEN arr[i] ELSE IF i = len + 1 THEN c ELSE NoClient]
<1>1. /\ heap \in Seq(Seq(Elements)) /\ n \in Nat \ {0} /\ arr \in Seq(Elements)
      /\ Len(arr) \in Nat /\ len \in Nat /\ len <= Len(arr)
      /\ c \in Elements /\ NoClient \in Elements
      /\ \A a \in 1 .. n : heap[a] \in Seq(Elements) /\ Len(heap[a]) \in Nat
  BY Newest DEF Elements
<1> HIDE DEF Elements
<1>2. /\ heap' = IF len < Len(arr) THEN [heap EXCEPT ![n] = [heap[n] EXCEPT ![len + 1] = c]]
                                   ELSE Append(heap, grown)
      /\ len' = len + 1
  BY DEF Subscribe
<1>3. CASE len < Len(arr)
  <2> DEFINE new == [arr EXCEPT ![len + 1] = c]
  <2>1. /\ new \in Seq(Elements) /\ Len(new) = Len(arr)
        /\ \A i \in 1 .. Len(arr) : new[i] = IF i = len + 1 THEN c ELSE arr[i]
    <3>1. len + 1 \in 1 .. Len(arr)
      BY <1>1, <1>3
    <3> HIDE DEF arr
    <3> QED BY <1>1, <3>1, ExceptSeq
  <2> HIDE DEF new
  <2>2. /\ heap' = [heap EXCEPT ![n] = new] /\ n \in 1 .. n
    BY <1>1, <1>2, <1>3 DEF new
  <2>3. /\ heap' \in Seq(Seq(Elements)) /\ Len(heap') = n
        /\ \A a \in 1 .. n : heap'[a] = IF a = n THEN new ELSE heap[a]
    BY <1>1, <2>1, <2>2, ExceptSeq
  <2>4. heap'[Len(heap')] = new /\ len + 1 <= Len(new)
    BY <1>1, <1>3, <2>1, <2>3
  <2>5. ASSUME NEW a \in 1 .. n
        PROVE  /\ Len(heap'[a]) = Len(heap[a])
               /\ \A i \in 1 .. Len(heap[a]) :
                    heap'[a][i] = IF a = Len(heap') /\ i = len + 1 THEN c ELSE heap[a][i]
    BY <1>1, <2>1, <2>3, <2>5
  <2>6. \A i \in 1 .. len : heap'[Len(heap')][i] = arr[i]
    <3> HIDE DEF arr
    <3>1. \A i \in 1 .. len : i \in 1 .. Len(arr) /\ i # len + 1
      BY <1>1
    <3> QED BY <2>1, <2>4, <3>1
  <2>7. heap'[Len(heap')][len + 1] = c
    BY <1>1, <1>3, <2>1, <2>4
  <2> QED BY <1>1, <1>2, <2>3, <2>4, <2>5, <2>6, <2>7
<1>4. CASE ~(len < Len(arr))
  <2>1. len = Len(arr) /\ size \in Nat /\ len + 1 <= size
    BY <1>1, <1>4
  <2> HIDE DEF size
  <2>2. /\ grown \in Seq(Elements) /\ Len(grown) = size
        /\ \A i \in 1 .. size : grown[i] = IF i <= len THEN arr[i] ELSE IF i = len + 1 THEN c ELSE NoClient
    <3>1. \A i \in 1 .. size : i <= len => arr[i] \in Elements
      BY <1>1, <2>1
    <3> HIDE DEF arr
    <3>2. grown \in [1 .. size -> Elements]
      BY <1>1, <3>1
    <3> QED BY <2>1, <3>2
  <2> HIDE DEF grown, arr
  <2>3. /\ heap' \in Seq(Seq(Elements)) /\ Len(heap') = n + 1
        /\ \A a \in 1 .. n : heap'[a] = heap[a]
        /\ heap'[n + 1] = grown
    BY <1>1, <1>2, <1>4, <2>2, AppendProperties
  <2>4. ASSUME NEW a \in 1 .. n
        PROVE  /\ Len(heap'[a]) = Len(heap[a])
               /\ \A i \in 1 .. Len(heap[a]) :
                    heap'[a][i] = IF a = Len(heap') /\ i = len + 1 THEN c ELSE heap[a][i]
    BY <1>1, <2>3, <2>4
  <2>5. \A i \in 1 .. len : heap'[Len(heap')][i] = arr[i]
    BY <1>1, <2>1, <2>2, <2>3
  <2>6. heap'[Len(heap')][len + 1] = c /\ len + 1 <= Len(heap'[Len(heap')])
    BY <1>1, <2>1, <2>2, <2>3
  <2> QED BY <1>1, <1>2, <2>3, <2>4, <2>5, <2>6 DEF arr
<1> QED BY <1>3, <1>4

\* Unsubscribe moves subscribers down inside the slice and writes nothing else.
LEMMA UnsubscribeHeap ==
  ASSUME BusInv, NEW c \in Clients, HubUnsubscribe(c)
  PROVE  /\ heap' \in Seq(Seq(Elements)) /\ Len(heap') = Len(heap)
         /\ len' \in Nat /\ len' <= len
         /\ \A a \in 1 .. Len(heap) :
              /\ Len(heap'[a]) = Len(heap[a])
              /\ \A i \in 1 .. Len(heap[a]) :
                   \/ heap'[a][i] = heap[a][i]
                   \/ a = Len(heap) /\ i < len /\ heap'[a][i] = heap[a][i + 1]
<1> DEFINE n == Len(heap)
           arr == heap[n]
           at == {i \in 1 .. len : heap[n][i] = c}
           new == [i \in DOMAIN arr |->
                     IF i < len /\ \E j \in at : j <= i THEN arr[i + 1] ELSE arr[i]]
<1>1. /\ heap \in Seq(Seq(Elements)) /\ n \in Nat \ {0} /\ arr \in Seq(Elements)
      /\ Len(arr) \in Nat /\ len \in Nat /\ len <= Len(arr)
      /\ \A a \in 1 .. n : heap[a] \in Seq(Elements) /\ Len(heap[a]) \in Nat
  BY Newest
<1> HIDE DEF Elements
<1>2. heap' = [heap EXCEPT ![n] = new] /\ len' = len - Cardinality(at)
  BY DEF HubUnsubscribe
<1>3. Cardinality(at) \in Nat /\ Cardinality(at) <= len
  <2>1. at \in SUBSET (1 .. len)
    OBVIOUS
  <2>2. IsFiniteSet(1 .. len) /\ Cardinality(1 .. len) = len
    <3>1. 1 \in Int /\ len \in Int /\ len >= 0
      BY <1>1
    <3>2. IsFiniteSet(1 .. len) /\ Cardinality(1 .. len) = IF 1 > len THEN 0 ELSE len - 1 + 1
      BY <3>1, FS_Interval
    <3> QED BY <3>1, <3>2
  <2> HIDE DEF at
  <2> QED BY <2>1, <2>2, FS_Subset, FS_CardinalityType
<1>4. DOMAIN arr = 1 .. Len(arr)
  BY <1>1
<1> HIDE DEF at
<1>5. /\ new \in [1 .. Len(arr) -> Elements]
      /\ \A i \in 1 .. Len(arr) : new[i] = arr[i] \/ (i < len /\ new[i] = arr[i + 1])
  <2>1. \A i \in 1 .. Len(arr) : arr[i] \in Elements /\ (i < len => arr[i + 1] \in Elements)
    BY <1>1
  <2> HIDE DEF arr
  <2> QED BY <1>4, <2>1
<1>6. new \in Seq(Elements) /\ Len(new) = Len(arr)
  <2> HIDE DEF new, arr
  <2> QED BY <1>1, <1>5, FunctionIsSeq
<1> HIDE DEF new
<1>7. /\ heap' \in Seq(Seq(Elements)) /\ Len(heap') = n
      /\ \A a \in 1 .. n : heap'[a] = IF a = n THEN new ELSE heap[a]
  <2>1. n \in 1 .. n
    BY <1>1
  <2> QED BY <1>1, <1>2, <1>6, <2>1, ExceptSeq
<1>8. ASSUME NEW a \in 1 .. n
      PROVE  /\ Len(heap'[a]) = Len(heap[a])
             /\ \A i \in 1 .. Len(heap[a]) :
                  \/ heap'[a][i] = heap[a][i]
                  \/ a = n /\ i < len /\ heap'[a][i] = heap[a][i + 1]
  BY <1>5, <1>6, <1>7, <1>8
<1>9. len' \in Nat /\ len' <= len
  BY <1>1, <1>2, <1>3
<1> QED BY <1>7, <1>8, <1>9

-----------------------------------------------------------------------------
(* Types                                                                   *)

\* The types of the slices and of the handlers' places in them.
HeapType ==
    /\ heap \in Seq(Seq(Elements))
    /\ len \in 0 .. Len(heap[Len(heap)])
    /\ pub \in [Pubs -> [pc : {"idle", "loop", "panicked"}, batch : Batches \cup {NoBatch},
                         arr : 1 .. Len(heap), len : Nat, i : Nat]]

\* The types of everything else.
RestType ==
    /\ streaming \in BOOLEAN /\ opener \in Elements /\ shutdown \in BOOLEAN
    /\ sent \in [Pubs -> 0 .. MaxBatches]
    /\ chan \in [Clients -> Seq(Batches)] /\ \A c \in Clients : Len(chan[c]) <= ChanCap
    /\ closed \in [Clients -> BOOLEAN]
    /\ http \in [Clients -> {"none", "upgraded", "subscribed", "registered"}]
    /\ sock \in [Clients -> {"none", "open", "closed"}]
    /\ register \in Seq(Clients) /\ clients \in SUBSET Clients
    /\ hub \in {"run", "shutdown", "close", "returned"} /\ victim \in Elements
    /\ pump \in [Clients -> {"off", "range", "write", "ended"}]
    /\ holding \in [Clients -> Batches \cup {NoBatch}]
    /\ remove \in Seq(Clients)
    /\ due \in [Clients -> SUBSET Batches] /\ lagged \in [Clients -> SUBSET Batches]
    /\ got \in [Clients -> Seq(Batches)]

LEMMA Types == TypeOK <=> HeapType /\ RestType
BY DEF TypeOK, HeapType, RestType

LEMMA BatchIsOne == \A b \in Batches : b # NoBatch
<1> SUFFICES ASSUME NEW b \in Batches PROVE b # NoBatch
  OBVIOUS
<1>1. PICK p \in Pubs, n \in 1 .. MaxBatches : b = <<p, n>>
  BY DEF Batches
<1>2. Len(<<p, n>>) = 2 /\ Len(NoBatch) = 0
  BY DEF NoBatch
<1> QED BY <1>1, <1>2

\* The fields of a handler, and the slice it walks.
LEMMA Handler ==
  ASSUME BusInv, NEW p \in Pubs
  PROVE  /\ pub[p].arr \in 1 .. Len(heap) /\ pub[p].len \in Nat /\ pub[p].i \in Nat
         /\ pub[p].len <= Len(heap[pub[p].arr])
         /\ pub[p].batch \in Batches \cup {NoBatch}
         /\ pub[p].pc \in {"idle", "loop", "panicked"}
         /\ \A i \in 1 .. pub[p].len : heap[pub[p].arr][i] \in Clients
BY DEF BusInv, TypeOK, Slices

LEMMA SubscribeBus ==
  ASSUME BusInv, NEW c \in Clients, Subscribe(c) PROVE HeapType' /\ Slices'
<1>1. /\ heap' \in Seq(Seq(Elements)) /\ Len(heap') \in Nat /\ Len(heap') >= Len(heap)
      /\ len' = len + 1 /\ len' <= Len(heap'[Len(heap')])
      /\ \A a \in 1 .. Len(heap) :
           /\ Len(heap'[a]) = Len(heap[a])
           /\ \A i \in 1 .. Len(heap[a]) : heap'[a][i] \in {c, heap[a][i]}
      /\ \A i \in 1 .. len : heap'[Len(heap')][i] = heap[Len(heap)][i]
      /\ heap'[Len(heap')][len + 1] = c
  BY SubscribeHeap
<1>2. Len(heap) \in Nat \ {0} /\ len \in Nat /\ \A a \in 1 .. Len(heap) : Len(heap[a]) \in Nat
  BY Newest
<1>3. pub' = pub
  BY DEF Subscribe, pubVars
<1> HIDE DEF Elements, Batches
<1>4. HeapType'
  <2>1. 1 .. Len(heap) \subseteq 1 .. Len(heap')
    BY <1>1, <1>2
  <2>2. pub' \in [Pubs -> [pc : {"idle", "loop", "panicked"}, batch : Batches \cup {NoBatch},
                           arr : 1 .. Len(heap'), len : Nat, i : Nat]]
    <3>1. pub \in [Pubs -> [pc : {"idle", "loop", "panicked"}, batch : Batches \cup {NoBatch},
                            arr : 1 .. Len(heap), len : Nat, i : Nat]]
      BY DEF BusInv, TypeOK
    <3> QED BY <1>3, <2>1, <3>1
  <2>3. len' \in 0 .. Len(heap'[Len(heap')])
    <3>1. Len(heap'[Len(heap')]) \in Nat
      BY <1>1, <1>2
    <3> QED BY <1>1, <1>2, <3>1
  <2> QED BY <1>1, <2>2, <2>3 DEF HeapType
<1>5. \A i \in 1 .. len' : heap'[Len(heap')][i] \in Clients
  <2>1. \A i \in 1 .. len : heap[Len(heap)][i] \in Clients
    BY DEF BusInv, Slices
  <2>2. \A i \in 1 .. len' : i \in 1 .. len \/ i = len + 1
    BY <1>1, <1>2
  <2> QED BY <1>1, <2>1, <2>2
<1>6. ASSUME NEW p \in Pubs
      PROVE  /\ pub'[p].pc = "loop" => pub'[p].i >= 1 /\ pub'[p].batch \in Batches
             /\ pub'[p].len <= Len(heap'[pub'[p].arr])
             /\ \A i \in 1 .. pub'[p].len : heap'[pub'[p].arr][i] \in Clients
  <2>1. /\ pub[p].arr \in 1 .. Len(heap) /\ pub[p].len \in Nat
        /\ pub[p].len <= Len(heap[pub[p].arr])
        /\ \A i \in 1 .. pub[p].len : heap[pub[p].arr][i] \in Clients
        /\ pub[p].pc = "loop" => pub[p].i >= 1 /\ pub[p].batch \in Batches
    BY Handler DEF BusInv, Slices
  <2>2. \A i \in 1 .. pub[p].len : i \in 1 .. Len(heap[pub[p].arr])
    BY <1>2, <2>1
  <2> QED BY <1>1, <1>3, <2>1, <2>2
<1>7. heap' # <<>>
  BY <1>1, <1>2
<1> QED BY <1>4, <1>5, <1>6, <1>7 DEF Slices

LEMMA UnsubscribeBus ==
  ASSUME BusInv, NEW c \in Clients, HubUnsubscribe(c) PROVE HeapType' /\ Slices'
<1>1. /\ heap' \in Seq(Seq(Elements)) /\ Len(heap') = Len(heap)
      /\ len' \in Nat /\ len' <= len
      /\ \A a \in 1 .. Len(heap) :
           /\ Len(heap'[a]) = Len(heap[a])
           /\ \A i \in 1 .. Len(heap[a]) :
                \/ heap'[a][i] = heap[a][i]
                \/ a = Len(heap) /\ i < len /\ heap'[a][i] = heap[a][i + 1]
  BY UnsubscribeHeap
<1>2. /\ Len(heap) \in Nat \ {0} /\ len \in Nat /\ \A a \in 1 .. Len(heap) : Len(heap[a]) \in Nat
      /\ len <= Len(heap[Len(heap)])
  BY Newest
<1>3. pub' = pub
  BY DEF HubUnsubscribe, pubVars
<1>4. \A i \in 1 .. len : heap[Len(heap)][i] \in Clients
  BY DEF BusInv, Slices
<1> HIDE DEF Elements, Batches
<1>5. \* a place that held a subscriber holds one
      \A a \in 1 .. Len(heap) : \A i \in 1 .. Len(heap[a]) :
        heap[a][i] \in Clients => heap'[a][i] \in Clients
  <2> SUFFICES ASSUME NEW a \in 1 .. Len(heap), NEW i \in 1 .. Len(heap[a]), heap[a][i] \in Clients,
                      a = Len(heap), i < len, heap'[a][i] = heap[a][i + 1]
               PROVE  heap'[a][i] \in Clients
    BY <1>1
  <2>1. i + 1 \in 1 .. len
    BY <1>2
  <2> QED BY <1>4, <2>1
<1>6. HeapType'
  <2>1. pub' \in [Pubs -> [pc : {"idle", "loop", "panicked"}, batch : Batches \cup {NoBatch},
                           arr : 1 .. Len(heap'), len : Nat, i : Nat]]
    BY <1>1, <1>3 DEF BusInv, TypeOK
  <2>2. len' \in 0 .. Len(heap'[Len(heap')])
    <3>1. Len(heap'[Len(heap')]) = Len(heap[Len(heap)])
      BY <1>1, <1>2
    <3> QED BY <1>1, <1>2, <3>1
  <2> QED BY <1>1, <2>1, <2>2 DEF HeapType
<1>7. \A i \in 1 .. len' : heap'[Len(heap')][i] \in Clients
  <2>1. \A i \in 1 .. len' : i \in 1 .. len /\ i \in 1 .. Len(heap[Len(heap)])
    BY <1>1, <1>2
  <2>2. Len(heap) \in 1 .. Len(heap)
    BY <1>2
  <2> QED BY <1>1, <1>4, <1>5, <2>1, <2>2
<1>8. ASSUME NEW p \in Pubs
      PROVE  /\ pub'[p].pc = "loop" => pub'[p].i >= 1 /\ pub'[p].batch \in Batches
             /\ pub'[p].len <= Len(heap'[pub'[p].arr])
             /\ \A i \in 1 .. pub'[p].len : heap'[pub'[p].arr][i] \in Clients
  <2>1. /\ pub[p].arr \in 1 .. Len(heap) /\ pub[p].len \in Nat
        /\ pub[p].len <= Len(heap[pub[p].arr])
        /\ \A i \in 1 .. pub[p].len : heap[pub[p].arr][i] \in Clients
        /\ pub[p].pc = "loop" => pub[p].i >= 1 /\ pub[p].batch \in Batches
    BY Handler DEF BusInv, Slices
  <2>2. \A i \in 1 .. pub[p].len : i \in 1 .. Len(heap[pub[p].arr])
    BY <1>2, <2>1
  <2> QED BY <1>1, <1>3, <1>5, <2>1, <2>2
<1>9. heap' # <<>>
  BY <1>1, <1>2
<1> QED BY <1>6, <1>7, <1>8, <1>9 DEF Slices

\* Publish takes the header of the newest slice, and its place only moves on.
LEMMA PublishBus ==
  ASSUME BusInv, NEW p \in Pubs, Publish(p) PROVE HeapType' /\ Slices'
<1> DEFINE R == [pc : {"idle", "loop", "panicked"}, batch : Batches \cup {NoBatch},
                 arr : 1 .. Len(heap), len : Nat, i : Nat]
<1>1. UNCHANGED <<heap, len>>
  BY DEF Publish, PublishStart, PublishStep, PublishReturn, busVars
<1>2. /\ Len(heap) \in Nat \ {0} /\ len \in Nat /\ len <= Len(heap[Len(heap)])
      /\ \A a \in 1 .. Len(heap) : Len(heap[a]) \in Nat
  BY Newest
<1>3. pub \in [Pubs -> R] /\ sent \in [Pubs -> 0 .. MaxBatches] /\ MaxBatches \in Nat
  BY BusAssumption DEF BusInv, TypeOK
<1>4. PICK r \in R : /\ pub' = [pub EXCEPT ![p] = r]
                     /\ \/ /\ r.arr = pub[p].arr /\ r.len = pub[p].len /\ r.batch = pub[p].batch
                           /\ pub[p].pc = "loop" /\ r.i >= pub[p].i
                        \/ r.arr = Len(heap) /\ r.len = len /\ r.i = 1 /\ r.batch \in Batches
                        \/ r.pc = "idle" /\ r.arr = 1 /\ r.len = 0
  <2>1. CASE PublishStart(p)
    <3> DEFINE r == [pc |-> "loop", batch |-> Batch(p, sent[p] + 1),
                     arr |-> Len(heap), len |-> len, i |-> 1]
    <3>1. Batch(p, sent[p] + 1) \in Batches
      BY <1>3, <2>1 DEF Batch, Batches, PublishStart
    <3>2. r \in R
      <4> HIDE DEF Batch, Batches
      <4> QED BY <1>2, <3>1
    <3>3. r.arr = Len(heap) /\ r.len = len /\ r.i = 1 /\ r.batch \in Batches
      BY <3>1
    <3>4. pub' = [pub EXCEPT ![p] = r]
      BY <2>1 DEF PublishStart
    <3> HIDE DEF r, R
    <3> QED BY <3>2, <3>3, <3>4
  <2>2. CASE PublishStep(p)
    <3> HIDE DEF Batches
    <3>1. pub[p] \in R /\ pub[p].pc = "loop" /\ pub[p].i \in Nat
      BY <1>3, <2>2 DEF PublishStep
    <3>2. CASE pub' = [pub EXCEPT ![p] = [@ EXCEPT !.pc = "panicked"]]
      <4> DEFINE r == [pub[p] EXCEPT !.pc = "panicked"]
      <4>1. r \in R /\ r.arr = pub[p].arr /\ r.len = pub[p].len /\ r.batch = pub[p].batch /\ r.i = pub[p].i
        BY <3>1
      <4>2. pub' = [pub EXCEPT ![p] = r]
        BY <3>2
      <4> HIDE DEF r, R
      <4>3. r.i >= pub[p].i
        BY <3>1, <4>1
      <4> QED BY <3>1, <4>1, <4>2, <4>3
    <3>3. CASE pub' = [pub EXCEPT ![p].i = @ + 1]
      <4> DEFINE r == [pub[p] EXCEPT !.i = @ + 1]
      <4>1. r \in R /\ r.arr = pub[p].arr /\ r.len = pub[p].len /\ r.batch = pub[p].batch /\ r.i = pub[p].i + 1
        BY <3>1
      <4>2. pub' = [pub EXCEPT ![p] = r]
        BY <3>3
      <4> HIDE DEF r, R
      <4>3. r.i >= pub[p].i
        BY <3>1, <4>1
      <4> QED BY <3>1, <4>1, <4>2, <4>3
    <3> QED BY <2>2, <3>2, <3>3 DEF PublishStep
  <2>3. CASE PublishReturn(p)
    <3>1. Idle \in R /\ Idle.pc = "idle" /\ Idle.arr = 1 /\ Idle.len = 0
      BY <1>2 DEF Idle
    <3> QED BY <2>3, <3>1 DEF PublishReturn
  <2> QED BY <2>1, <2>2, <2>3 DEF Publish
<1>5. HeapType'
  <2>1. pub' \in [Pubs -> R]
    <3> HIDE DEF R
    <3> QED BY <1>3, <1>4
  <2> QED BY <1>1, <2>1 DEF HeapType, BusInv, TypeOK
<1>6. ASSUME NEW q \in Pubs
      PROVE  /\ pub'[q].pc = "loop" => pub'[q].i >= 1 /\ pub'[q].batch \in Batches
             /\ pub'[q].len <= Len(heap[pub'[q].arr])
             /\ \A i \in 1 .. pub'[q].len : heap[pub'[q].arr][i] \in Clients
  <2>1. /\ pub[q].pc = "loop" => pub[q].i >= 1 /\ pub[q].batch \in Batches
        /\ pub[q].len <= Len(heap[pub[q].arr])
        /\ \A i \in 1 .. pub[q].len : heap[pub[q].arr][i] \in Clients
    BY DEF BusInv, Slices
  <2>2. CASE q # p
    <3>1. pub'[q] = pub[q]
      <4> HIDE DEF R
      <4> QED BY <1>3, <1>4, <2>2
    <3> QED BY <2>1, <3>1
  <2>3. CASE q = p
    <3>1. pub'[q] = r
      <4> HIDE DEF R
      <4> QED BY <1>3, <1>4, <2>3
    <3>2. r.i \in Nat /\ pub[p].i \in Nat
      BY <1>3, <1>4
    <3>3. CASE /\ r.arr = pub[p].arr /\ r.len = pub[p].len /\ r.batch = pub[p].batch
               /\ pub[p].pc = "loop" /\ r.i >= pub[p].i
      BY <2>1, <2>3, <3>1, <3>2, <3>3
    <3>4. CASE r.arr = Len(heap) /\ r.len = len /\ r.i = 1 /\ r.batch \in Batches
      BY <1>2, <2>3, <3>1, <3>4 DEF BusInv, Slices
    <3>5. CASE r.pc = "idle" /\ r.arr = 1 /\ r.len = 0
      BY <1>2, <2>3, <3>1, <3>5
    <3> QED BY <1>4, <3>3, <3>4, <3>5
  <2> QED BY <2>2, <2>3
<1> QED BY <1>1, <1>5, <1>6 DEF Slices, BusInv

\* Everything that is neither a slice nor a handler keeps its type.
LEMMA BrowserType == ASSUME BusInv, NEW c \in Clients, Browser(c) PROVE RestType'
<1> HIDE DEF Batches
<1>1. RestType /\ c \in Elements
  BY Types DEF BusInv, Elements
<1> HIDE DEF Elements
<1>2. CASE Upgrade(c)
  BY <1>1, <1>2 DEF RestType, Upgrade, busVars, pubVars, hubVars, pumpVars
<1>3. CASE Subscribe(c)
  BY <1>1, <1>3 DEF RestType, Subscribe, pubVars, hubVars, pumpVars
<1>4. CASE Register(c)
  BY <1>1, <1>4 DEF RestType, Register, busVars, pubVars, pumpVars
<1>5. CASE StartStream(c)
  BY <1>1, <1>5 DEF RestType, StartStream, busVars, pubVars, hubVars, pumpVars
<1>6. CASE BrowserCloses(c)
  BY <1>1, <1>6 DEF RestType, BrowserCloses, busVars, pubVars, hubVars, pumpVars
<1> QED BY <1>2, <1>3, <1>4, <1>5, <1>6 DEF Browser

LEMMA PumpType == ASSUME BusInv, NEW c \in Clients, Pump(c) PROVE RestType'
<1> HIDE DEF Batches, Elements, NoBatch
<1>1. RestType
  BY Types DEF BusInv
<1>2. CASE PumpTake(c)
  <2>1. chan[c] \in Seq(Batches) /\ chan[c] # <<>> /\ chan \in [Clients -> Seq(Batches)]
        /\ Len(chan[c]) <= ChanCap
    BY <1>1, <1>2 DEF RestType, PumpTake
  <2>2. Head(chan[c]) \in Batches /\ Tail(chan[c]) \in Seq(Batches) /\ Len(Tail(chan[c])) = Len(chan[c]) - 1
        /\ Len(chan[c]) \in Nat
    BY <2>1
  <2>3. chan' = [chan EXCEPT ![c] = Tail(@)]
    BY <1>2 DEF PumpTake
  <2>4. chan' \in [Clients -> Seq(Batches)]
    BY <2>1, <2>2, <2>3
  <2>5. \A d \in Clients : Len(chan'[d]) <= ChanCap
    <3>1. \A d \in Clients : Len(chan[d]) <= ChanCap
      BY <1>1 DEF RestType
    <3>2. Len(Tail(chan[c])) <= ChanCap
      BY <2>1, <2>2, BusAssumption
    <3> QED BY <2>1, <2>3, <3>1, <3>2
  <2>6. holding' \in [Clients -> Batches \cup {NoBatch}]
    BY <1>1, <1>2, <2>2 DEF RestType, PumpTake
  <2> QED BY <1>1, <1>2, <2>4, <2>5, <2>6 DEF RestType, PumpTake, pubVars, hubVars, clientVars
<1>3. CASE PumpWrite(c)
  <2>0. holding[c] \in Batches
    BY <1>1, <1>3 DEF BusInv, Pumps, RestType, PumpWrite
  <2>1. got' \in [Clients -> Seq(Batches)]
    BY <1>1, <1>3, <2>0 DEF RestType, PumpWrite
  <2> QED BY <1>1, <1>3, <2>1 DEF RestType, PumpWrite, busVars, pubVars, hubVars, clientVars
<1>4. CASE PumpEnd(c)
  BY <1>1, <1>4 DEF RestType, PumpEnd, busVars, pubVars, clientVars
<1> QED BY <1>2, <1>3, <1>4 DEF Pump

LEMMA PublishType == ASSUME BusInv, NEW p \in Pubs, Publish(p) PROVE RestType'
<1>1. RestType
  BY Types DEF BusInv
<1>2. CASE PublishStart(p)
  <2>1. sent[p] + 1 \in 1 .. MaxBatches
    BY <1>1, <1>2, BusAssumption DEF RestType, PublishStart
  <2>2. Batch(p, sent[p] + 1) \in Batches
    BY <2>1 DEF Batch, Batches
  <2> HIDE DEF Batches, Elements
  <2>3. due' \in [Clients -> SUBSET Batches]
    BY <1>1, <1>2, <2>2 DEF RestType, PublishStart
  <2>4. sent' \in [Pubs -> 0 .. MaxBatches]
    <3>1. sent[p] + 1 \in 0 .. MaxBatches
      BY <2>1
    <3> QED BY <1>1, <1>2, <3>1 DEF RestType, PublishStart
  <2> QED BY <1>1, <1>2, <2>3, <2>4 DEF RestType, PublishStart, busVars, hubVars, pumpVars, clientVars
<1>3. CASE PublishStep(p)
  <2> HIDE DEF Batches, Elements
  <2> DEFINE c == heap[pub[p].arr][pub[p].i]
  <2>1. UNCHANGED <<closed, sent, due, hubVars, pumpVars, clientVars>>
    BY <1>3 DEF PublishStep
  <2>2. pub[p].batch \in Batches
    BY <1>3 DEF PublishStep, BusInv, Slices
  <2>3. \/ UNCHANGED <<chan, lagged>>
        \/ /\ Len(chan[c]) < ChanCap
           /\ chan' = [chan EXCEPT ![c] = Append(@, pub[p].batch)] /\ lagged' = lagged
        \/ /\ lagged' = [lagged EXCEPT ![c] = @ \cup {pub[p].batch}] /\ chan' = chan
    BY <1>3 DEF PublishStep
  <2> HIDE DEF c
  <2>4. lagged' \in [Clients -> SUBSET Batches]
    <3>1. lagged \in [Clients -> SUBSET Batches]
      BY <1>1 DEF RestType
    <3>2. CASE c \in Clients /\ lagged' = [lagged EXCEPT ![c] = @ \cup {pub[p].batch}]
      <4>1. lagged[c] \cup {pub[p].batch} \in SUBSET Batches
        BY <2>2, <3>1, <3>2
      <4> QED BY <3>1, <3>2, <4>1
    <3> QED BY <2>3, <3>1, <3>2
  <2>5. chan' \in [Clients -> Seq(Batches)] /\ \A d \in Clients : Len(chan'[d]) <= ChanCap
    <3>1. chan \in [Clients -> Seq(Batches)] /\ \A d \in Clients : Len(chan[d]) <= ChanCap
      BY <1>1 DEF RestType
    <3>2. CASE c \in Clients /\ Len(chan[c]) < ChanCap /\ chan' = [chan EXCEPT ![c] = Append(@, pub[p].batch)]
      <4>1. chan'[c] = Append(chan[c], pub[p].batch) /\ chan[c] \in Seq(Batches)
        BY <3>1, <3>2
      <4>2. chan'[c] \in Seq(Batches) /\ Len(chan'[c]) = Len(chan[c]) + 1 /\ Len(chan[c]) \in Nat
        BY <2>2, <4>1
      <4>3. Len(chan'[c]) <= ChanCap
        BY <3>2, <4>2, BusAssumption
      <4> QED BY <3>1, <3>2, <4>1, <4>2, <4>3
    <3> QED BY <2>3, <3>1, <3>2
  <2> QED BY <1>1, <2>1, <2>4, <2>5 DEF RestType, hubVars, pumpVars, clientVars
<1>4. CASE PublishReturn(p)
  BY <1>1, <1>4 DEF RestType, PublishReturn, busVars, hubVars, pumpVars, clientVars
<1> QED BY <1>2, <1>3, <1>4 DEF Publish

LEMMA RunType == ASSUME BusInv, Run \/ Close PROVE RestType'
<1> HIDE DEF Batches
<1>1. RestType
  BY Types DEF BusInv
<1>2. CASE HubRegister
  <2>1. Head(register) \in Clients /\ Tail(register) \in Seq(Clients)
    BY <1>1, <1>2 DEF RestType, HubRegister
  <2> QED BY <1>1, <1>2, <2>1 DEF RestType, HubRegister, busVars, pubVars, clientVars
<1>3. CASE HubShutdown
  BY <1>1, <1>3 DEF RestType, HubShutdown, busVars, pubVars, pumpVars, clientVars
<1>4. CASE HubClose
  <2>1. NoClient \in Elements
    BY DEF Elements
  <2> HIDE DEF Elements
  <2> QED BY <1>1, <1>4, <2>1 DEF RestType, HubClose, pubVars, pumpVars
<1>5. CASE HubReturn
  BY <1>1, <1>5 DEF RestType, HubReturn, busVars, pubVars, pumpVars, clientVars
<1>6. ASSUME NEW c \in Clients, HubUnsubscribe(c) PROVE RestType'
  <2>1. victim' = c /\ c \in Elements /\ hub' = "close"
    BY <1>6 DEF HubUnsubscribe, Elements
  <2> HIDE DEF Elements
  <2>2. UNCHANGED <<chan, closed, pubVars, register, clients, shutdown, remove, pumpVars, clientVars>>
    BY <1>6 DEF HubUnsubscribe
  <2> QED BY <1>1, <2>1, <2>2 DEF RestType, pubVars, pumpVars, clientVars
<1>7. CASE Close
  BY <1>1, <1>7 DEF RestType, Close, busVars, pubVars, pumpVars, clientVars
<1> QED BY <1>2, <1>3, <1>4, <1>5, <1>6, <1>7 DEF Run

\* The pumps: a client is registered once, and its pump is started from there.
LEMMA PumpsStep == ASSUME BusInv, [Next]_vars PROVE Pumps'
<1>1. /\ register \in Seq(Clients)
      /\ http \in [Clients -> {"none", "upgraded", "subscribed", "registered"}]
      /\ sock \in [Clients -> {"none", "open", "closed"}]
      /\ pump \in [Clients -> {"off", "range", "write", "ended"}]
      /\ holding \in [Clients -> Batches \cup {NoBatch}]
      /\ chan \in [Clients -> Seq(Batches)]
  BY DEF BusInv, TypeOK
<1>b. \A b \in Batches : b # NoBatch
  BY BatchIsOne
<1>2. Pumps
  BY DEF BusInv
<1> HIDE DEF Batches, NoBatch
<1>3. ASSUME UNCHANGED <<http, pump, holding, register>>,
             \A c \in Clients : sock[c] # "none" => sock'[c] # "none"
      PROVE  Pumps'
  BY <1>2, <1>3 DEF Pumps
<1>4. ASSUME NEW c \in Clients, Upgrade(c) \/ Subscribe(c) PROVE Pumps'
  <2>1. /\ UNCHANGED <<pump, holding, register>>
        /\ http[c] \in {"none", "upgraded"} /\ http'[c] \in {"upgraded", "subscribed"}
        /\ \A d \in Clients \ {c} : http'[d] = http[d] /\ sock'[d] = sock[d]
        /\ sock'[c] # "none"
    <3>1. CASE Upgrade(c)
      BY <1>1, <3>1 DEF Upgrade, hubVars, pumpVars
    <3>2. CASE Subscribe(c)
      BY <1>1, <1>2, <3>2 DEF Subscribe, hubVars, pumpVars, Pumps
    <3> QED BY <1>4, <3>1, <3>2
  <2>2. \A i \in DOMAIN register : register[i] \in Clients
    BY <1>1
  <2> QED BY <1>2, <2>1, <2>2 DEF Pumps
<1>5. ASSUME NEW c \in Clients, Register(c) PROVE Pumps'
  <2>1. /\ UNCHANGED <<pump, holding, sock>>
        /\ http[c] = "subscribed" /\ http' = [http EXCEPT ![c] = "registered"]
        /\ register' = Append(register, c)
    BY <1>5 DEF Register, pumpVars
  <2>2. /\ DOMAIN register' = 1 .. Len(register) + 1 /\ DOMAIN register = 1 .. Len(register)
        /\ Len(register) \in Nat
        /\ \A i \in 1 .. Len(register) : register'[i] = register[i] /\ register[i] \in Clients
        /\ register'[Len(register) + 1] = c
    BY <1>1, <2>1
  <2>3. pump[c] = "off" /\ \A i \in 1 .. Len(register) : register[i] # c
    BY <1>1, <1>2, <2>1, <2>2 DEF Pumps
  <2>4. \A d \in Clients : /\ http'[d] # "none" => sock'[d] # "none"
                           /\ pump'[d] = "write" <=> holding'[d] # NoBatch
                           /\ pump'[d] # "off" => http'[d] = "registered"
    BY <1>1, <1>2, <2>1, <2>3 DEF Pumps
  <2>5. \A i \in DOMAIN register' : http'[register'[i]] = "registered" /\ pump'[register'[i]] = "off"
    <3> SUFFICES ASSUME NEW i \in 1 .. Len(register) + 1
                 PROVE  http'[register'[i]] = "registered" /\ pump[register'[i]] = "off"
      BY <2>1, <2>2
    <3>1. CASE i = Len(register) + 1
      BY <1>1, <2>1, <2>2, <2>3, <3>1
    <3>2. CASE i \in 1 .. Len(register)
      <4>1. register'[i] = register[i] /\ register[i] \in Clients \ {c}
        BY <2>2, <2>3, <3>2
      <4>2. http[register[i]] = "registered" /\ pump[register[i]] = "off"
        BY <1>2, <2>2, <3>2 DEF Pumps
      <4>3. http'[register[i]] = http[register[i]]
        BY <1>1, <2>1, <4>1
      <4> QED BY <4>1, <4>2, <4>3
    <3> QED BY <2>2, <3>1, <3>2
  <2>6. \A i, j \in DOMAIN register' : register'[i] = register'[j] => i = j
    <3> SUFFICES ASSUME NEW i \in 1 .. Len(register) + 1, NEW j \in 1 .. Len(register) + 1,
                        register'[i] = register'[j]
                 PROVE  i = j
      BY <2>2
    <3>1. \/ i = Len(register) + 1 \/ i \in 1 .. Len(register)
      BY <2>2
    <3>2. \/ j = Len(register) + 1 \/ j \in 1 .. Len(register)
      BY <2>2
    <3> QED BY <1>2, <2>2, <2>3, <3>1, <3>2 DEF Pumps
  <2> QED BY <2>4, <2>5, <2>6 DEF Pumps
<1>6. CASE HubRegister
  <2>1. /\ register # <<>> /\ register' = Tail(register)
        /\ pump' = [pump EXCEPT ![Head(register)] = "range"]
        /\ UNCHANGED <<http, sock, holding>>
    BY <1>6 DEF HubRegister, clientVars
  <2>2. /\ DOMAIN register' = 1 .. Len(register) - 1 /\ DOMAIN register = 1 .. Len(register)
        /\ Len(register) \in Nat \ {0}
        /\ \A i \in 1 .. Len(register) - 1 : register'[i] = register[i + 1]
        /\ \A i \in 1 .. Len(register) : register[i] \in Clients
        /\ Head(register) = register[1]
    BY <1>1, <2>1
  <2>3. http[register[1]] = "registered" /\ pump[register[1]] = "off" /\ register[1] \in Clients
    BY <1>2, <2>2 DEF Pumps
  <2>4. \A i \in 1 .. Len(register) - 1 : i + 1 \in 1 .. Len(register) /\ register[i + 1] # register[1]
    BY <1>2, <2>2 DEF Pumps
  <2>5. \A d \in Clients : /\ http'[d] # "none" => sock'[d] # "none"
                           /\ pump'[d] = "write" <=> holding'[d] # NoBatch
                           /\ pump'[d] # "off" => http'[d] = "registered"
    BY <1>1, <1>2, <2>1, <2>2, <2>3 DEF Pumps
  <2>6. \A i \in DOMAIN register' : http'[register'[i]] = "registered" /\ pump'[register'[i]] = "off"
    BY <1>1, <1>2, <2>1, <2>2, <2>4 DEF Pumps
  <2>7. \A i, j \in DOMAIN register' : register'[i] = register'[j] => i = j
    <3> SUFFICES ASSUME NEW i \in 1 .. Len(register) - 1, NEW j \in 1 .. Len(register) - 1,
                        register[i + 1] = register[j + 1]
                 PROVE  i = j
      BY <2>2
    <3>1. i + 1 = j + 1
      BY <1>2, <2>2, <2>4 DEF Pumps
    <3> QED BY <2>2, <3>1
  <2> QED BY <2>5, <2>6, <2>7 DEF Pumps
<1>7. ASSUME NEW c \in Clients, Pump(c) PROVE Pumps'
  <2>1. UNCHANGED <<http, sock, register>>
    BY <1>7 DEF Pump, PumpTake, PumpWrite, PumpEnd, hubVars, clientVars
  <2>2. pump[c] # "off" /\ pump'[c] # "off" /\ (pump'[c] = "write" <=> holding'[c] # NoBatch)
    <3>1. CASE PumpTake(c)
      <4>1. Head(chan[c]) \in Batches
        BY <1>1, <3>1 DEF PumpTake
      <4> QED BY <1>1, <1>b, <3>1, <4>1 DEF PumpTake
    <3>2. CASE PumpWrite(c)
      BY <1>1, <3>2 DEF PumpWrite
    <3>3. CASE PumpEnd(c)
      BY <1>1, <1>2, <3>3 DEF PumpEnd, Pumps
    <3> QED BY <1>7, <3>1, <3>2, <3>3 DEF Pump
  <2>3. \A d \in Clients \ {c} : pump'[d] = pump[d] /\ holding'[d] = holding[d]
    BY <1>1, <1>7 DEF Pump, PumpTake, PumpWrite, PumpEnd
  <2>4. \A i \in DOMAIN register : register[i] \in Clients
    BY <1>1
  <2> QED BY <1>2, <2>1, <2>2, <2>3, <2>4 DEF Pumps
<1>8. ASSUME NEW c \in Clients, StartStream(c) \/ BrowserCloses(c) \/ HubUnsubscribe(c) PROVE Pumps'
  <2>1. UNCHANGED <<http, pump, holding, register>> /\ \A d \in Clients : sock[d] # "none" => sock'[d] # "none"
    BY <1>1, <1>8 DEF StartStream, BrowserCloses, HubUnsubscribe, hubVars, pumpVars, clientVars
  <2> QED BY <1>3, <2>1
<1>9. ASSUME \/ \E p \in Pubs : Publish(p)
             \/ HubShutdown \/ HubClose \/ HubReturn \/ Close \/ UNCHANGED vars
      PROVE  Pumps'
  <2>1. UNCHANGED <<http, pump, holding, register>>
    BY <1>9 DEF Publish, PublishStart, PublishStep, PublishReturn, HubShutdown, HubClose, HubReturn, Close,
         vars, hubVars, pumpVars, clientVars
  <2>2. UNCHANGED sock \/ sock' = [sock EXCEPT ![victim] = "closed"]
    BY <1>9 DEF Publish, PublishStart, PublishStep, PublishReturn, HubShutdown, HubClose, HubReturn, Close,
         vars, hubVars, pumpVars, clientVars
  <2>3. \A d \in Clients : sock[d] # "none" => sock'[d] # "none"
    BY <1>1, <2>2
  <2> QED BY <1>3, <2>1, <2>3
<1> QED BY <1>4, <1>5, <1>6, <1>7, <1>8, <1>9 DEF Next, Browser, Run

LEMMA BusStep == BusInv /\ [Next]_vars => BusInv'
<1> SUFFICES ASSUME BusInv, [Next]_vars PROVE BusInv'
  OBVIOUS
<1>1. CASE UNCHANGED vars
  <2>1. UNCHANGED <<busVars, pubVars, hubVars, pumpVars, clientVars>>
    BY <1>1 DEF vars
  <2> QED BY <2>1 DEF BusInv, TypeOK, Slices, Pumps, busVars, pubVars, hubVars, pumpVars, clientVars
<1>2. ASSUME UNCHANGED <<heap, len, pub>> PROVE HeapType' /\ Slices'
  BY <1>2 DEF BusInv, TypeOK, HeapType, Slices
<1>3. ASSUME Next PROVE HeapType' /\ Slices'
  <2>1. ASSUME NEW c \in Clients,
               \/ Upgrade(c) \/ Register(c) \/ StartStream(c) \/ BrowserCloses(c) \/ Pump(c)
        PROVE  HeapType' /\ Slices'
    BY <1>2, <2>1 DEF Upgrade, Register, StartStream, BrowserCloses, Pump, PumpTake, PumpWrite, PumpEnd,
         busVars, pubVars
  <2>2. ASSUME HubRegister \/ HubShutdown \/ HubClose \/ HubReturn \/ Close PROVE HeapType' /\ Slices'
    BY <1>2, <2>2 DEF HubRegister, HubShutdown, HubClose, HubReturn, Close, busVars, pubVars
  <2> QED BY <1>3, <2>1, <2>2, SubscribeBus, UnsubscribeBus, PublishBus DEF Next, Browser, Run
<1>4. ASSUME Next PROVE RestType'
  BY <1>4, BrowserType, PumpType, PublishType, RunType DEF Next
<1>5. (TypeOK <=> HeapType /\ RestType)'
  BY DEF TypeOK, HeapType, RestType
<1> QED BY <1>1, <1>3, <1>4, <1>5, PumpsStep DEF BusInv

LEMMA BusInit == Init => BusInv
<1> SUFFICES ASSUME Init PROVE BusInv
  OBVIOUS
<1>1. heap = << <<>> >> /\ len = 0 /\ Len(heap) = 1 /\ heap[1] = <<>> /\ Len(heap[1]) = 0
  BY DEF Init
<1>2. heap \in Seq(Seq(Elements)) /\ heap # <<>>
  BY <1>1
<1>3. HeapType
  <2>1. Idle \in [pc : {"idle", "loop", "panicked"}, batch : Batches \cup {NoBatch},
                  arr : 1 .. Len(heap), len : Nat, i : Nat]
    BY <1>1 DEF Idle
  <2> QED BY <1>1, <1>2, <2>1 DEF HeapType, Init
<1>4. Slices
  BY <1>1, <1>2 DEF Slices, Init, Idle
<1>5. RestType
  <2>1. chan \in [Clients -> Seq(Batches)] /\ \A c \in Clients : Len(chan[c]) <= ChanCap
    BY BusAssumption DEF Init
  <2>2. got \in [Clients -> Seq(Batches)] /\ register \in Seq(Clients) /\ remove \in Seq(Clients)
    BY DEF Init
  <2>3. sent \in [Pubs -> 0 .. MaxBatches]
    BY BusAssumption DEF Init
  <2>4. /\ due \in [Clients -> SUBSET Batches] /\ lagged \in [Clients -> SUBSET Batches]
        /\ holding \in [Clients -> Batches \cup {NoBatch}]
    BY DEF Init
  <2>5. NoClient \in Elements
    BY DEF Elements
  <2> QED BY <2>1, <2>2, <2>3, <2>4, <2>5 DEF Init, RestType
<1>6. Pumps
  BY DEF Init, Pumps
<1> QED BY <1>3, <1>4, <1>5, <1>6, Types DEF BusInv

LEMMA BusAlways == Spec => []BusInv
BY BusInit, BusStep, PTL DEF Spec

\* Every variable keeps its type: no slice ever reaches past its array, and no
\* channel holds more than its capacity.
THEOREM BusTypeCorrect == Spec => []TypeOK
<1>1. BusInv => TypeOK
  BY DEF BusInv
<1> QED BY <1>1, BusAlways, PTL

-----------------------------------------------------------------------------
(* Shutdown                                                                *)

\* Only the hub's shutdown closes channels, and sockets no browser closed.
Orderly ==
    /\ hub # "run" => shutdown
    /\ \A c \in Clients : closed[c] => hub # "run"
    /\ ~shutdown => \A c \in Clients : http[c] = "none" => sock[c] = "none"
    /\ RemoveUnreachable
    /\ NoPanicBeforeShutdown

LEMMA OrderlyStep == BusInv /\ Orderly /\ [Next]_vars => Orderly'
<1> SUFFICES ASSUME BusInv, Orderly, [Next]_vars PROVE Orderly'
  OBVIOUS
<1>1. CASE UNCHANGED vars
  BY <1>1 DEF Orderly, RemoveUnreachable, NoPanicBeforeShutdown, vars, busVars, pubVars, hubVars, clientVars
<1>2. ASSUME NEW c \in Clients, Browser(c) PROVE Orderly'
  <2>1. \A d \in Clients : http'[d] = "none" => http[d] = "none" /\ sock'[d] \in {"closed", sock[d]}
                           /\ (sock'[d] = "closed" => sock[d] # "none")
    BY <1>2 DEF Browser, Upgrade, Subscribe, Register, StartStream, BrowserCloses, BusInv, TypeOK
  <2> QED BY <1>2, <2>1 DEF Browser, Upgrade, Subscribe, Register, StartStream, BrowserCloses,
       Orderly, RemoveUnreachable, NoPanicBeforeShutdown, busVars, pubVars, hubVars
<1>3. ASSUME NEW c \in Clients, Pump(c) PROVE Orderly'
  BY <1>3 DEF Pump, PumpTake, PumpWrite, PumpEnd,
       Orderly, RemoveUnreachable, NoPanicBeforeShutdown, busVars, pubVars, hubVars, clientVars
<1>4. ASSUME NEW p \in Pubs, Publish(p) PROVE Orderly'
  <2>1. UNCHANGED <<hub, shutdown, closed, remove, http, sock>>
    BY <1>4 DEF Publish, PublishStart, PublishStep, PublishReturn, busVars, hubVars, clientVars
  <2>2. ASSUME NEW q \in Pubs, pub'[q].pc = "panicked" PROVE shutdown
    <3>1. CASE q # p
      <4>1. pub'[q] = pub[q]
        BY <1>4, <3>1 DEF Publish, PublishStart, PublishStep, PublishReturn, BusInv, TypeOK
      <4> QED BY <2>2, <4>1 DEF Orderly, NoPanicBeforeShutdown
    <3>2. CASE q = p /\ PublishStart(p)
      BY <2>2, <3>2 DEF PublishStart, BusInv, TypeOK
    <3>3. CASE q = p /\ PublishReturn(p)
      BY <2>2, <3>3 DEF PublishReturn, Idle, BusInv, TypeOK
    <3>4. CASE q = p /\ PublishStep(p)
      <4> DEFINE c == heap[pub[p].arr][pub[p].i]
      <4>1. c \in Clients
        <5>1. /\ pub[p].i \in Nat /\ pub[p].len \in Nat /\ pub[p].i >= 1
              /\ pub[p].i <= pub[p].len
          BY <3>4, Handler DEF PublishStep, BusInv, Slices
        <5> QED BY <5>1, Handler
      <4>2. ASSUME ~closed[c] PROVE FALSE
        <5>1. pub' = [pub EXCEPT ![p].i = @ + 1] /\ pub[p].pc = "loop"
          BY <3>4, <4>2 DEF PublishStep
        <5>2. pub'[p].pc = pub[p].pc
          BY <5>1 DEF BusInv, TypeOK
        <5> QED BY <2>2, <3>4, <5>1, <5>2
      <4> QED BY <4>1, <4>2 DEF Orderly
    <3> QED BY <1>4, <3>1, <3>2, <3>3, <3>4 DEF Publish
  <2> QED BY <2>1, <2>2 DEF Orderly, RemoveUnreachable, NoPanicBeforeShutdown
<1>5. ASSUME Run \/ Close PROVE Orderly'
  BY <1>5 DEF Run, HubRegister, HubShutdown, HubClose, HubReturn, HubUnsubscribe, Close,
       Orderly, RemoveUnreachable, NoPanicBeforeShutdown, busVars, pubVars, clientVars
<1> QED BY <1>1, <1>2, <1>3, <1>4, <1>5 DEF Next

LEMMA OrderlyAlways == Spec => []Orderly
<1>1. Init => Orderly
  BY DEF Init, Orderly, RemoveUnreachable, NoPanicBeforeShutdown, Idle
<1> QED BY <1>1, BusAlways, OrderlyStep, PTL DEF Spec

\* No StreamMetrics handler panics while the server runs: whatever Publish reads from
\* the array others write is a subscriber, and the channel of a subscriber is open.
THEOREM NeverPanicBeforeShutdown == Spec => []NoPanicBeforeShutdown
<1>1. Orderly => NoPanicBeforeShutdown
  BY DEF Orderly
<1> QED BY <1>1, OrderlyAlways, PTL

\* The case of WSHub.Run that would close a channel for the second time is never
\* taken: by the time a pump ends, Run receives no more.
THEOREM RemoveAlwaysUnreachable == Spec => []RemoveUnreachable
<1>1. Orderly => RemoveUnreachable
  BY DEF Orderly
<1> QED BY <1>1, OrderlyAlways, PTL

-----------------------------------------------------------------------------
(* The fan-out, until the server shuts down                                *)

\* The slice lists each subscribed client once.
Listed ==
    /\ \A c \in Clients : Subscribed(c) => \E i \in 1 .. len : heap[Len(heap)][i] = c
    /\ \A i \in 1 .. len : Subscribed(heap[Len(heap)][i])
    /\ \A i, j \in 1 .. len : heap[Len(heap)][i] = heap[Len(heap)][j] => i = j

\* A handler in Publish walks an old prefix of a slice, each client once.
Views ==
    \A p \in Pubs : pub[p].pc = "loop" =>
      /\ pub[p].batch = Batch(p, sent[p])
      /\ pub[p].arr = Len(heap) => pub[p].len <= len
      /\ \A i, j \in 1 .. pub[p].len : heap[pub[p].arr][i] = heap[pub[p].arr][j] => i = j

\* The batch is on the client's way: written, held by the pump or in the channel.
InPath(c, b) ==
    \/ \E i \in DOMAIN got[c] : got[c][i] = b
    \/ holding[c] = b
    \/ \E i \in DOMAIN chan[c] : chan[c][i] = b

\* Publish has yet to come to the client.
Ahead(p, c) ==
    pub[p].pc = "loop" /\ \E k \in 1 .. pub[p].len : k >= pub[p].i /\ heap[pub[p].arr][k] = c

\* Nothing is on its way that was not published, and nothing of the batch being
\* published is on its way to a client that Publish has yet to come to.
Counted ==
    \A c \in Clients : \A b \in Batches : InPath(c, b) =>
      /\ b[2] <= sent[b[1]]
      /\ Ahead(b[1], c) => b[2] < sent[b[1]]

\* Of one handler, the earlier batch.
Precedes(a, b) == a[1] = b[1] => a[2] < b[2]

\* InOrderOnce for the three parts of a client's way.
Ordered ==
    \A c \in Clients :
      /\ \A i, j \in DOMAIN got[c] : i < j => Precedes(got[c][i], got[c][j])
      /\ \A i, j \in DOMAIN chan[c] : i < j => Precedes(chan[c][i], chan[c][j])
      /\ \A i \in DOMAIN got[c], j \in DOMAIN chan[c] : Precedes(got[c][i], chan[c][j])
      /\ holding[c] # NoBatch =>
           /\ \A i \in DOMAIN got[c] : Precedes(got[c][i], holding[c])
           /\ \A j \in DOMAIN chan[c] : Precedes(holding[c], chan[c][j])

\* What is due and neither dropped nor on its way is about to be sent.
Owed ==
    \A c \in Clients : \A b \in due[c] :
      /\ b[2] <= sent[b[1]]
      /\ sock[c] # "closed" /\ b \notin lagged[c] /\ ~InPath(c, b) =>
           Ahead(b[1], c) /\ pub[b[1]].batch = b

Fan == Listed /\ Views /\ Counted /\ Ordered /\ Owed

\* A batch names its handler and its number.
LEMMA BatchParts ==
  /\ \A b \in Batches : b[1] \in Pubs /\ b[2] \in 1 .. MaxBatches /\ b = Batch(b[1], b[2])
  /\ \A p, n : Batch(p, n)[1] = p /\ Batch(p, n)[2] = n
BY DEF Batches, Batch

\* Steps that leave the bus, the handlers and the clients' ways alone.
LEMMA QuietFan ==
  ASSUME BusInv, Fan, UNCHANGED <<heap, len, pub, sent, due, lagged, got, holding, chan>>,
         \A c \in Clients : /\ sock'[c] # "closed" => sock[c] # "closed"
                            /\ Subscribed(c)' <=> Subscribed(c)
  PROVE  Fan'
<1>1. Listed'
  <2>1. \A i \in 1 .. len : heap[Len(heap)][i] \in Clients
    BY DEF BusInv, Slices
  <2> QED BY <2>1 DEF Fan, Listed
<1>2. Views'
  BY DEF Fan, Views
<1>3. \A c \in Clients : \A b : InPath(c, b)' <=> InPath(c, b)
  BY DEF InPath
<1>4. \A p \in Pubs, c \in Clients : Ahead(p, c)' <=> Ahead(p, c)
  BY DEF Ahead
<1>5. Counted'
  BY <1>3, <1>4, BatchParts DEF Fan, Counted
<1>6. Ordered'
  BY DEF Fan, Ordered
<1>7. Owed'
  <2>1. due \in [Clients -> SUBSET Batches]
    BY DEF BusInv, TypeOK
  <2> SUFFICES ASSUME NEW c \in Clients, NEW b \in due[c]
               PROVE  /\ b[2] <= sent[b[1]]
                      /\ sock'[c] # "closed" /\ b \notin lagged[c] /\ ~InPath(c, b)' =>
                           Ahead(b[1], c)' /\ pub[b[1]].batch = b
    BY DEF Owed
  <2>2. b[1] \in Pubs
    BY <2>1, BatchParts
  <2> QED BY <1>3, <1>4, <2>2 DEF Fan, Owed
<1> QED BY <1>1, <1>2, <1>5, <1>6, <1>7 DEF Fan

\* Subscribe writes behind every slice that is being walked.
LEMMA SubscribeFan ==
  ASSUME BusInv, Fan, NEW c \in Clients, Subscribe(c)
  PROVE  Fan'
<1> DEFINE n == Len(heap)
<1>1. /\ Len(heap') \in Nat /\ Len(heap') >= n
      /\ len' = len + 1
      /\ \A a \in 1 .. n : \A i \in 1 .. Len(heap[a]) :
           heap'[a][i] = IF a = Len(heap') /\ i = len + 1 THEN c ELSE heap[a][i]
      /\ \A i \in 1 .. len : heap'[Len(heap')][i] = heap[n][i]
      /\ heap'[Len(heap')][len + 1] = c
  BY SubscribeHeap
<1>2. /\ n \in Nat \ {0} /\ len \in Nat /\ len <= Len(heap[n])
      /\ \A a \in 1 .. n : Len(heap[a]) \in Nat
  BY Newest
<1>3. /\ http[c] = "upgraded" /\ http' = [http EXCEPT ![c] = "subscribed"]
      /\ UNCHANGED <<pub, sent, due, lagged, got, holding, chan, sock>>
  BY DEF Subscribe, pubVars, pumpVars
<1>4. /\ ~Subscribed(c) /\ Subscribed(c)'
      /\ \A d \in Clients \ {c} : Subscribed(d)' <=> Subscribed(d)
  BY <1>3 DEF Subscribed, BusInv, TypeOK
<1>5. \A i \in 1 .. len' : i \in 1 .. len \/ i = len + 1
  BY <1>1, <1>2
<1>6. \A i \in 1 .. len : /\ heap[n][i] \in Clients \ {c} /\ Subscribed(heap[n][i])
                          /\ i \in 1 .. len'
  BY <1>1, <1>2, <1>4 DEF BusInv, Slices, Fan, Listed
<1>7. Listed'
  <2>1. ASSUME NEW d \in Clients, Subscribed(d)'
        PROVE  \E i \in 1 .. len' : heap'[Len(heap')][i] = d
    <3>1. CASE d = c
      <4>1. len + 1 \in 1 .. len'
        BY <1>1, <1>2
      <4> QED BY <1>1, <3>1, <4>1
    <3>2. CASE d # c
      <4>1. PICK i \in 1 .. len : heap[n][i] = d
        BY <1>4, <2>1, <3>2 DEF Fan, Listed
      <4> QED BY <1>1, <1>6, <4>1
    <3> QED BY <3>1, <3>2
  <2>2. \A i \in 1 .. len' : http'[heap'[Len(heap')][i]] \in {"subscribed", "registered"}
    <3>1. \A d \in Clients : d = c \/ Subscribed(d) => http'[d] \in {"subscribed", "registered"}
      BY <1>4 DEF Subscribed
    <3> QED BY <1>1, <1>5, <1>6, <3>1
  <2>3. \A i, j \in 1 .. len' : heap'[Len(heap')][i] = heap'[Len(heap')][j] => i = j
    BY <1>1, <1>5, <1>6 DEF Fan, Listed
  <2> QED BY <2>1, <2>2, <2>3 DEF Listed, Subscribed
<1>8. ASSUME NEW p \in Pubs, pub[p].pc = "loop"
      PROVE  /\ \A k \in 1 .. pub[p].len : heap'[pub[p].arr][k] = heap[pub[p].arr][k]
             /\ pub[p].arr = Len(heap') => pub[p].arr = n /\ pub[p].len <= len
             /\ pub[p].len \in Nat
  <2>1. /\ pub[p].arr \in 1 .. n /\ pub[p].len \in Nat /\ pub[p].len <= Len(heap[pub[p].arr])
    BY Handler
  <2>2. pub[p].arr = n => pub[p].len <= len
    BY <1>8 DEF Fan, Views
  <2>3. pub[p].arr = Len(heap') => pub[p].arr = n
    BY <1>1, <1>2, <2>1
  <2> SUFFICES ASSUME NEW k \in 1 .. pub[p].len
               PROVE  heap'[pub[p].arr][k] = heap[pub[p].arr][k]
    BY <2>1, <2>2, <2>3
  <2>4. k \in 1 .. Len(heap[pub[p].arr])
    BY <1>2, <2>1
  <2>5. ~(pub[p].arr = Len(heap') /\ k = len + 1)
    BY <1>2, <2>1, <2>2, <2>3
  <2> QED BY <1>1, <2>1, <2>4, <2>5
<1>9. Views'
  <2> SUFFICES ASSUME NEW p \in Pubs, pub[p].pc = "loop"
               PROVE  /\ pub[p].batch = Batch(p, sent[p])
                      /\ pub[p].arr = Len(heap') => pub[p].len <= len'
                      /\ \A i, j \in 1 .. pub[p].len :
                           heap'[pub[p].arr][i] = heap'[pub[p].arr][j] => i = j
    BY <1>3 DEF Views
  <2>1. pub[p].arr = Len(heap') => pub[p].len <= len'
    BY <1>1, <1>2, <1>8
  <2> QED BY <1>8, <2>1 DEF Fan, Views
<1>10. \A p \in Pubs, d \in Clients : Ahead(p, d)' <=> Ahead(p, d)
  BY <1>3, <1>8 DEF Ahead
<1>11. \A d \in Clients : \A b : InPath(d, b)' <=> InPath(d, b)
  BY <1>3 DEF InPath
<1>12. Counted'
  BY <1>3, <1>10, <1>11, BatchParts DEF Fan, Counted
<1>13. Ordered'
  BY <1>3 DEF Fan, Ordered
<1>14. Owed'
  <2>1. \A d \in Clients : \A b \in due[d] : b[1] \in Pubs
    BY BatchParts DEF BusInv, TypeOK
  <2> QED BY <1>3, <1>10, <1>11, <2>1 DEF Fan, Owed
<1> QED BY <1>7, <1>9, <1>12, <1>13, <1>14 DEF Fan

\* A pump moves batches on, in order, and loses one only if the socket is closed.
LEMMA PumpFan ==
  ASSUME BusInv, Fan, NEW c \in Clients, PumpTake(c) \/ PumpWrite(c)
  PROVE  Fan'
<1>1. UNCHANGED <<heap, len, pub, sent, due, lagged, http, sock>>
  BY DEF PumpTake, PumpWrite, busVars, pubVars, clientVars
<1>2. /\ chan \in [Clients -> Seq(Batches)] /\ got \in [Clients -> Seq(Batches)]
      /\ holding \in [Clients -> Batches \cup {NoBatch}]
      /\ sock \in [Clients -> {"none", "open", "closed"}]
      /\ due \in [Clients -> SUBSET Batches]
  BY DEF BusInv, TypeOK
<1>3. /\ pump[c] = "write" <=> holding[c] # NoBatch
      /\ pump[c] # "off" => sock[c] # "none"
  BY DEF BusInv, Pumps
<1>4. \A d \in Clients \ {c} : got'[d] = got[d] /\ holding'[d] = holding[d] /\ chan'[d] = chan[d]
  BY <1>2 DEF PumpTake, PumpWrite, busVars
<1>b. \A b \in Batches : b # NoBatch
  BY BatchIsOne
<1>o. /\ \A i, j \in DOMAIN got[c] : i < j => Precedes(got[c][i], got[c][j])
      /\ \A i, j \in DOMAIN chan[c] : i < j => Precedes(chan[c][i], chan[c][j])
      /\ \A i \in DOMAIN got[c], j \in DOMAIN chan[c] : Precedes(got[c][i], chan[c][j])
      /\ holding[c] # NoBatch =>
           /\ \A i \in DOMAIN got[c] : Precedes(got[c][i], holding[c])
           /\ \A j \in DOMAIN chan[c] : Precedes(holding[c], chan[c][j])
  BY DEF Fan, Ordered
<1> DEFINE g == got[c]
           q == chan[c]
           OrderedAt == /\ \A i, j \in DOMAIN got'[c] : i < j => Precedes(got'[c][i], got'[c][j])
                        /\ \A i, j \in DOMAIN chan'[c] : i < j => Precedes(chan'[c][i], chan'[c][j])
                        /\ \A i \in DOMAIN got'[c], j \in DOMAIN chan'[c] : Precedes(got'[c][i], chan'[c][j])
                        /\ holding'[c] # NoBatch =>
                             /\ \A i \in DOMAIN got'[c] : Precedes(got'[c][i], holding'[c])
                             /\ \A j \in DOMAIN chan'[c] : Precedes(holding'[c], chan'[c][j])
<1> HIDE DEF Batches, NoBatch, Precedes
<1>5. /\ OrderedAt
      /\ \A b \in Batches : InPath(c, b)' => InPath(c, b)
      /\ sock[c] # "closed" => \A b \in Batches : InPath(c, b) => InPath(c, b)'
  <2>1. CASE PumpTake(c)
    <3>1. /\ got'[c] = g /\ holding'[c] = q[1] /\ holding[c] = NoBatch
          /\ q \in Seq(Batches) /\ q # <<>> /\ chan'[c] = Tail(q)
      BY <1>2, <1>3, <2>1 DEF PumpTake
    <3>2. /\ Len(q) \in Nat \ {0} /\ DOMAIN q = 1 .. Len(q) /\ q[1] \in Batches
          /\ DOMAIN Tail(q) = 1 .. Len(q) - 1
          /\ \A i \in 1 .. Len(q) - 1 : Tail(q)[i] = q[i + 1]
      BY <3>1
    <3>3. \A i \in 1 .. Len(q) - 1 : i + 1 \in 1 .. Len(q) /\ 1 < i + 1
      BY <3>2
    <3>4. OrderedAt
      <4>1. \A i, j \in DOMAIN chan'[c] : i < j => Precedes(chan'[c][i], chan'[c][j])
        <5> SUFFICES ASSUME NEW i \in 1 .. Len(q) - 1, NEW j \in 1 .. Len(q) - 1, i < j
                     PROVE  Precedes(q[i + 1], q[j + 1])
          BY <3>1, <3>2
        <5>1. i + 1 < j + 1
          OBVIOUS
        <5> QED BY <1>o, <3>2, <3>3, <5>1
      <4>2. \A i \in DOMAIN got'[c], j \in DOMAIN chan'[c] : Precedes(got'[c][i], chan'[c][j])
        BY <1>o, <3>1, <3>2, <3>3
      <4>3. 1 \in DOMAIN q
        BY <3>2
      <4>4. \A i \in DOMAIN got'[c] : Precedes(got'[c][i], holding'[c])
        BY <1>o, <3>1, <4>3
      <4>5. \A j \in DOMAIN chan'[c] : Precedes(holding'[c], chan'[c][j])
        BY <1>o, <3>1, <3>2, <3>3, <4>3
      <4> QED BY <1>o, <3>1, <4>1, <4>2, <4>4, <4>5
    <3>5. \A b \in Batches : InPath(c, b)' => InPath(c, b)
      BY <3>1, <3>2, <3>3 DEF InPath
    <3>6. ASSUME NEW b \in Batches, InPath(c, b) PROVE InPath(c, b)'
      <4>1. CASE \E i \in DOMAIN q : q[i] = b
        <5>1. PICK i \in 1 .. Len(q) : q[i] = b
          BY <3>2, <4>1
        <5>2. CASE i = 1
          BY <3>1, <5>1, <5>2 DEF InPath
        <5>3. CASE i # 1
          <6>1. i - 1 \in 1 .. Len(q) - 1 /\ i = (i - 1) + 1
            BY <3>2, <5>3
          <6>2. Tail(q)[i - 1] = b /\ i - 1 \in DOMAIN chan'[c]
            BY <3>1, <3>2, <5>1, <6>1
          <6> QED BY <3>1, <6>2 DEF InPath
        <5> QED BY <5>2, <5>3
      <4> QED BY <1>b, <3>1, <3>6, <4>1 DEF InPath
    <3> QED BY <3>4, <3>5, <3>6
  <2>2. CASE PumpWrite(c)
    <3>1. /\ chan'[c] = q /\ holding'[c] = NoBatch /\ holding[c] \in Batches /\ g \in Seq(Batches)
          /\ \/ sock[c] = "open" /\ got'[c] = Append(g, holding[c])
             \/ sock[c] = "closed" /\ got'[c] = g
      BY <1>2, <1>3, <2>2 DEF PumpWrite, busVars
    <3>2. CASE sock[c] = "closed" /\ got'[c] = g
      <4>1. OrderedAt
        BY <1>o, <3>1, <3>2
      <4>2. \A b \in Batches : InPath(c, b)' => InPath(c, b)
        BY <1>b, <3>1, <3>2 DEF InPath
      <4> QED BY <3>2, <4>1, <4>2
    <3>3. CASE sock[c] = "open" /\ got'[c] = Append(g, holding[c])
      <4>1. /\ Len(g) \in Nat /\ DOMAIN g = 1 .. Len(g) /\ DOMAIN got'[c] = 1 .. Len(g) + 1
            /\ \A i \in 1 .. Len(g) : got'[c][i] = g[i]
            /\ got'[c][Len(g) + 1] = holding[c]
        BY <3>1, <3>3
      <4>2. \A i \in 1 .. Len(g) + 1 : i \in 1 .. Len(g) \/ i = Len(g) + 1
        BY <4>1
      <4>3. holding[c] # NoBatch
        BY <1>b, <3>1
      <4>4. OrderedAt
        <5>1. \A i, j \in DOMAIN got'[c] : i < j => Precedes(got'[c][i], got'[c][j])
          <6> SUFFICES ASSUME NEW i \in 1 .. Len(g) + 1, NEW j \in 1 .. Len(g) + 1, i < j
                       PROVE  Precedes(got'[c][i], got'[c][j])
            BY <4>1
          <6>1. i \in 1 .. Len(g)
            BY <4>1
          <6> QED BY <1>o, <4>1, <4>2, <4>3, <6>1
        <5>2. \A i \in DOMAIN got'[c], j \in DOMAIN chan'[c] : Precedes(got'[c][i], chan'[c][j])
          BY <1>o, <3>1, <4>1, <4>2, <4>3
        <5> QED BY <1>o, <3>1, <5>1, <5>2
      <4>5. ASSUME NEW b \in Batches PROVE InPath(c, b)' <=> InPath(c, b)
        <5>1. (\E i \in DOMAIN got'[c] : got'[c][i] = b) <=> (\E i \in DOMAIN g : g[i] = b) \/ holding[c] = b
          <6>1. Len(g) + 1 \in 1 .. Len(g) + 1 /\ \A i \in 1 .. Len(g) : i \in 1 .. Len(g) + 1
            BY <4>1
          <6> QED BY <4>1, <4>2, <6>1
        <5> QED BY <1>b, <3>1, <5>1 DEF InPath
      <4> QED BY <4>4, <4>5
    <3> QED BY <3>1, <3>2, <3>3
  <2> QED BY <2>1, <2>2
<1>6. Listed' /\ Views'
  BY <1>1 DEF Fan, Listed, Views, Subscribed
<1>7. \A p \in Pubs, d \in Clients : Ahead(p, d)' <=> Ahead(p, d)
  BY <1>1 DEF Ahead
<1>8. \A d \in Clients : \A b \in Batches : InPath(d, b)' => InPath(d, b)
  BY <1>4, <1>5 DEF InPath
<1>9. \A d \in Clients : sock[d] # "closed" => \A b \in Batches : InPath(d, b) => InPath(d, b)'
  BY <1>4, <1>5 DEF InPath
<1>10. Counted'
  BY <1>1, <1>7, <1>8, BatchParts DEF Fan, Counted
<1>11. Ordered'
  BY <1>4, <1>5 DEF Fan, Ordered
<1>12. Owed'
  <2> SUFFICES ASSUME NEW d \in Clients, NEW b \in due[d]
               PROVE  /\ b[2] <= sent[b[1]]
                      /\ sock[d] # "closed" /\ b \notin lagged[d] /\ ~InPath(d, b)' =>
                           Ahead(b[1], d)' /\ pub[b[1]].batch = b
    BY <1>1 DEF Owed
  <2>1. b \in Batches /\ b[1] \in Pubs
    BY <1>2, BatchParts
  <2> QED BY <1>7, <1>9, <2>1 DEF Fan, Owed
<1> QED BY <1>6, <1>10, <1>11, <1>12 DEF Fan

\* A new batch: Publish has yet to come to every client of the slice.
LEMMA PublishStartFan ==
  ASSUME BusInv, Fan, NEW p \in Pubs, PublishStart(p)
  PROVE  Fan'
<1> DEFINE new == Batch(p, sent[p] + 1)
<1>1. /\ UNCHANGED <<heap, len, lagged, got, holding, chan, http, sock>>
      /\ pub[p].pc = "idle" /\ sent' = [sent EXCEPT ![p] = @ + 1]
      /\ pub' = [pub EXCEPT ![p] = [pc |-> "loop", batch |-> new, arr |-> Len(heap), len |-> len, i |-> 1]]
      /\ \A c \in Clients : /\ Subscribed(c) => due'[c] = due[c] \cup {new}
                            /\ ~Subscribed(c) => due'[c] = due[c]
  BY DEF PublishStart, busVars, pumpVars, clientVars
<1>2. /\ sent \in [Pubs -> 0 .. MaxBatches] /\ due \in [Clients -> SUBSET Batches]
      /\ \A q \in Pubs : sent[q] \in Nat
      /\ \A b \in Batches : b[1] \in Pubs /\ b[2] \in Nat
      /\ len \in Nat
  <2>1. sent \in [Pubs -> 0 .. MaxBatches] /\ due \in [Clients -> SUBSET Batches]
    BY DEF BusInv, TypeOK
  <2>2. \A b \in Batches : b[1] \in Pubs /\ b[2] \in Nat
    BY BatchParts, BusAssumption
  <2>3. \A q \in Pubs : sent[q] \in Nat
    BY <2>1, BusAssumption
  <2> QED BY <2>1, <2>2, <2>3, Newest
<1>3. /\ pub'[p].pc = "loop" /\ pub'[p].batch = new /\ pub'[p].arr = Len(heap)
      /\ pub'[p].len = len /\ pub'[p].i = 1
      /\ \A q \in Pubs \ {p} : pub'[q] = pub[q] /\ sent'[q] = sent[q]
      /\ sent'[p] = sent[p] + 1
  <2>1. DOMAIN pub = Pubs
    BY DEF BusInv, TypeOK
  <2> QED BY <1>1, <1>2, <2>1
<1>4. new[1] = p /\ new[2] = sent[p] + 1
  BY BatchParts
<1> HIDE DEF new
<1>5. Listed'
  BY <1>1 DEF Fan, Listed, Subscribed
<1>6. Views'
  <2> SUFFICES ASSUME NEW q \in Pubs, pub'[q].pc = "loop"
               PROVE  /\ pub'[q].batch = Batch(q, sent'[q])
                      /\ pub'[q].arr = Len(heap) => pub'[q].len <= len
                      /\ \A i, j \in 1 .. pub'[q].len :
                           heap[pub'[q].arr][i] = heap[pub'[q].arr][j] => i = j
    BY <1>1 DEF Views
  <2>1. CASE q = p
    BY <1>2, <1>3, <2>1 DEF Fan, Listed, new
  <2>2. CASE q # p
    BY <1>3, <2>2 DEF Fan, Views
  <2> QED BY <2>1, <2>2
<1>7. \A c \in Clients : \A b : InPath(c, b)' <=> InPath(c, b)
  BY <1>1 DEF InPath
<1>8. /\ \A q \in Pubs \ {p} : \A c \in Clients : Ahead(q, c)' <=> Ahead(q, c)
      /\ \A c \in Clients : ~Ahead(p, c)
  BY <1>1, <1>3 DEF Ahead
<1>9. Counted'
  <2> SUFFICES ASSUME NEW c \in Clients, NEW b \in Batches, InPath(c, b)
               PROVE  /\ b[2] <= sent'[b[1]]
                      /\ Ahead(b[1], c)' => b[2] < sent'[b[1]]
    BY <1>7 DEF Counted
  <2>1. b[1] \in Pubs /\ b[2] <= sent[b[1]] /\ (Ahead(b[1], c) => b[2] < sent[b[1]])
    BY <1>2 DEF Fan, Counted
  <2>2. CASE b[1] = p
    BY <1>2, <1>3, <2>1, <2>2
  <2>3. CASE b[1] # p
    BY <1>3, <1>8, <2>1, <2>3
  <2> QED BY <2>2, <2>3
<1>10. Ordered'
  BY <1>1 DEF Fan, Ordered
<1>11. Owed'
  <2> SUFFICES ASSUME NEW c \in Clients, NEW b \in due'[c]
               PROVE  /\ b[2] <= sent'[b[1]]
                      /\ sock[c] # "closed" /\ b \notin lagged[c] /\ ~InPath(c, b) =>
                           Ahead(b[1], c)' /\ pub'[b[1]].batch = b
    BY <1>1, <1>7 DEF Owed
  <2>1. CASE b \in due[c]
    <3>1. b[1] \in Pubs /\ b[2] \in Nat
      BY <1>2, <2>1
    <3>2. /\ b[2] <= sent[b[1]]
          /\ sock[c] # "closed" /\ b \notin lagged[c] /\ ~InPath(c, b) =>
               Ahead(b[1], c) /\ pub[b[1]].batch = b
      BY <2>1 DEF Fan, Owed
    <3>3. CASE b[1] = p
      BY <1>2, <1>3, <1>8, <3>1, <3>2, <3>3
    <3>4. CASE b[1] # p
      BY <1>3, <1>8, <3>1, <3>2, <3>4
    <3> QED BY <3>3, <3>4
  <2>2. CASE b \notin due[c]
    <3>1. b = new /\ Subscribed(c)
      BY <1>1, <2>2
    <3>2. PICK k \in 1 .. len : heap[Len(heap)][k] = c
      BY <3>1 DEF Fan, Listed
    <3>3. k >= 1
      BY <1>2
    <3>4. Ahead(p, c)'
      BY <1>1, <1>3, <3>2, <3>3 DEF Ahead
    <3>5. b[2] <= sent'[p]
      BY <1>2, <1>3, <1>4, <3>1
    <3> QED BY <1>3, <1>4, <3>1, <3>4, <3>5
  <2> QED BY <2>1, <2>2
<1> QED BY <1>5, <1>6, <1>9, <1>10, <1>11 DEF Fan

\* One turn of the loop: the client gets the batch, or its channel is full.
LEMMA PublishStepFan ==
  ASSUME BusInv, Orderly, ~shutdown, Fan, NEW p \in Pubs, PublishStep(p)
  PROVE  Fan'
<1> DEFINE a == pub[p].arr
           b == pub[p].batch
<1>1. /\ UNCHANGED <<heap, len, closed, sent, due, got, holding, http, sock>>
      /\ pub[p].pc = "loop" /\ pub[p].i <= pub[p].len
  BY DEF PublishStep, pumpVars, clientVars
<1>2. /\ pub[p].i \in Nat /\ pub[p].len \in Nat /\ pub[p].i >= 1 /\ b \in Batches
      /\ pub[p].i \in 1 .. pub[p].len
  <2>1. pub[p].i \in Nat /\ pub[p].len \in Nat /\ pub[p].i >= 1 /\ b \in Batches
    BY <1>1, Handler DEF BusInv, Slices
  <2> QED BY <1>1, <2>1
<1>3. PICK c \in Clients : c = heap[a][pub[p].i]
  BY <1>2, Handler
<1>4. ~closed[c]
  BY <1>3 DEF Orderly
<1>5. pub' = [pub EXCEPT ![p].i = @ + 1]
  BY <1>3, <1>4 DEF PublishStep
<1>6. /\ pub'[p].pc = "loop" /\ pub'[p].batch = b /\ pub'[p].arr = a
      /\ pub'[p].len = pub[p].len /\ pub'[p].i = pub[p].i + 1
      /\ \A q \in Pubs \ {p} : pub'[q] = pub[q]
  BY <1>1, <1>5 DEF BusInv, TypeOK
<1>7. \/ chan' = [chan EXCEPT ![c] = Append(@, b)] /\ lagged' = lagged
      \/ lagged' = [lagged EXCEPT ![c] = @ \cup {b}] /\ chan' = chan
  BY <1>3, <1>4 DEF PublishStep
<1>8. /\ chan \in [Clients -> Seq(Batches)] /\ lagged \in [Clients -> SUBSET Batches]
      /\ got \in [Clients -> Seq(Batches)] /\ due \in [Clients -> SUBSET Batches]
      /\ holding \in [Clients -> Batches \cup {NoBatch}]
      /\ \A d \in Batches : d[1] \in Pubs
  BY BatchParts DEF BusInv, TypeOK
<1>9. b = Batch(p, sent[p]) /\ b[1] = p /\ b[2] = sent[p] /\ sent[p] \in Nat
  <2>1. b = Batch(p, sent[p])
    BY <1>1 DEF Fan, Views
  <2>2. sent[p] \in Nat
    BY BusAssumption DEF BusInv, TypeOK
  <2> QED BY <2>1, <2>2, BatchParts
<1>10. \A i, j \in 1 .. pub[p].len : heap[a][i] = heap[a][j] => i = j
  BY <1>1 DEF Fan, Views
<1>11. Ahead(p, c) /\ ~Ahead(p, c)'
  <2>1. Ahead(p, c)
    BY <1>1, <1>2, <1>3 DEF Ahead
  <2>2. ASSUME NEW k \in 1 .. pub[p].len, k >= pub[p].i + 1, heap[a][k] = c PROVE FALSE
    <3>1. k = pub[p].i
      BY <1>2, <1>3, <1>10, <2>2
    <3> QED BY <1>2, <2>2, <3>1
  <2> QED BY <1>1, <1>6, <2>1, <2>2 DEF Ahead
<1>12. \A d \in Clients \ {c} : Ahead(p, d)' <=> Ahead(p, d)
  <2> SUFFICES ASSUME NEW d \in Clients \ {c} PROVE Ahead(p, d)' <=> Ahead(p, d)
    OBVIOUS
  <2>1. \A k \in 1 .. pub[p].len : heap[a][k] = d => (k >= pub[p].i <=> k >= pub[p].i + 1)
    BY <1>2, <1>3
  <2> QED BY <1>1, <1>6, <2>1 DEF Ahead
<1>13. \A q \in Pubs \ {p} : \A d \in Clients : Ahead(q, d)' <=> Ahead(q, d)
  BY <1>1, <1>6 DEF Ahead
<1>14. \* what is on its way to c precedes the batch
       \A d \in Batches : InPath(c, d) => Precedes(d, b)
  BY <1>3, <1>9, <1>11 DEF Fan, Counted, Precedes
<1>15. Listed' /\ Views'
  <2>1. Listed'
    BY <1>1 DEF Fan, Listed, Subscribed
  <2>2. ASSUME NEW q \in Pubs, pub'[q].pc = "loop"
        PROVE  /\ pub'[q].batch = Batch(q, sent[q])
               /\ pub'[q].arr = Len(heap) => pub'[q].len <= len
               /\ \A i, j \in 1 .. pub'[q].len : heap[pub'[q].arr][i] = heap[pub'[q].arr][j] => i = j
    <3>1. CASE q = p
      BY <1>1, <1>6, <3>1 DEF Fan, Views
    <3>2. CASE q # p
      BY <1>6, <2>2, <3>2 DEF Fan, Views
    <3> QED BY <3>1, <3>2
  <2> QED BY <1>1, <2>1, <2>2 DEF Views
<1> HIDE DEF a, b, Batches, Precedes
<1>16. CASE chan' = [chan EXCEPT ![c] = Append(@, b)] /\ lagged' = lagged
  <2> DEFINE q == chan[c]
  <2>1. /\ q \in Seq(Batches) /\ chan'[c] = Append(q, b)
        /\ \A d \in Clients \ {c} : chan'[d] = chan[d]
    BY <1>3, <1>8, <1>16
  <2>2. /\ Len(q) \in Nat /\ DOMAIN q = 1 .. Len(q) /\ DOMAIN chan'[c] = 1 .. Len(q) + 1
        /\ \A i \in 1 .. Len(q) : chan'[c][i] = q[i]
        /\ chan'[c][Len(q) + 1] = b
    BY <1>2, <2>1
  <2>3. /\ \A i \in 1 .. Len(q) + 1 : i \in 1 .. Len(q) \/ i = Len(q) + 1
        /\ \A i \in 1 .. Len(q) : i \in 1 .. Len(q) + 1
        /\ Len(q) + 1 \in 1 .. Len(q) + 1
    BY <2>2
  <2>4. \A d : InPath(c, d)' <=> InPath(c, d) \/ d = b
    <3> SUFFICES ASSUME NEW d PROVE InPath(c, d)' <=> InPath(c, d) \/ d = b
      OBVIOUS
    <3>1. (\E i \in DOMAIN chan'[c] : chan'[c][i] = d) <=> (\E i \in DOMAIN q : q[i] = d) \/ d = b
      BY <2>2, <2>3
    <3> QED BY <1>1, <3>1 DEF InPath
  <2>5. \A e \in Clients \ {c} : \A d : InPath(e, d)' <=> InPath(e, d)
    BY <1>1, <2>1 DEF InPath
  <2>6. Counted'
    <3> SUFFICES ASSUME NEW e \in Clients, NEW d \in Batches, InPath(e, d)'
                 PROVE  d[2] <= sent[d[1]] /\ (Ahead(d[1], e)' => d[2] < sent[d[1]])
      BY <1>1 DEF Counted
    <3>1. CASE e = c /\ d = b
      BY <1>9, <1>11, <3>1
    <3>2. CASE ~(e = c /\ d = b)
      <4>1. InPath(e, d)
        BY <2>4, <2>5, <3>2
      <4>2. Ahead(d[1], e)' => Ahead(d[1], e)
        BY <1>8, <1>11, <1>12, <1>13
      <4> QED BY <4>1, <4>2 DEF Fan, Counted
    <3> QED BY <3>1, <3>2
  <2>7. Ordered'
    <3> DEFINE G == got[c]
               H == holding[c]
    <3>1. /\ \A i, j \in DOMAIN G : i < j => Precedes(G[i], G[j])
          /\ \A i, j \in DOMAIN q : i < j => Precedes(q[i], q[j])
          /\ \A i \in DOMAIN G, j \in DOMAIN q : Precedes(G[i], q[j])
          /\ H # NoBatch => /\ \A i \in DOMAIN G : Precedes(G[i], H)
                            /\ \A j \in DOMAIN q : Precedes(H, q[j])
      BY <1>3 DEF Fan, Ordered
    <3>2. \A i \in DOMAIN G : Precedes(G[i], b)
      <4>1. \A i \in DOMAIN G : G[i] \in Batches /\ InPath(c, G[i])
        BY <1>3, <1>8 DEF InPath
      <4> QED BY <1>14, <4>1
    <3>3. \A i \in DOMAIN q : Precedes(q[i], b)
      <4>1. \A i \in DOMAIN q : InPath(c, q[i])
        BY DEF InPath
      <4>2. \A i \in DOMAIN q : q[i] \in Batches
        BY <2>1
      <4> QED BY <1>14, <4>1, <4>2
    <3>4. H # NoBatch => Precedes(H, b)
      <4>1. H # NoBatch => H \in Batches /\ InPath(c, H)
        BY <1>3, <1>8 DEF InPath
      <4> QED BY <1>14, <4>1
    <3> HIDE DEF G, H, q
    <3>5. \A i, j \in DOMAIN chan'[c] : i < j => Precedes(chan'[c][i], chan'[c][j])
      <4> SUFFICES ASSUME NEW i \in 1 .. Len(q) + 1, NEW j \in 1 .. Len(q) + 1, i < j
                   PROVE  Precedes(chan'[c][i], chan'[c][j])
        BY <2>2
      <4>1. i \in 1 .. Len(q)
        BY <2>2
      <4> QED BY <2>2, <2>3, <3>1, <3>3, <4>1
    <3>6. \A i \in DOMAIN G, j \in DOMAIN chan'[c] : Precedes(G[i], chan'[c][j])
      BY <2>2, <2>3, <3>1, <3>2
    <3>7. H # NoBatch => \A j \in DOMAIN chan'[c] : Precedes(H, chan'[c][j])
      BY <2>2, <2>3, <3>1, <3>4
    <3> SUFFICES ASSUME NEW e \in Clients
                 PROVE  /\ \A i, j \in DOMAIN got[e] : i < j => Precedes(got[e][i], got[e][j])
                        /\ \A i, j \in DOMAIN chan'[e] : i < j => Precedes(chan'[e][i], chan'[e][j])
                        /\ \A i \in DOMAIN got[e], j \in DOMAIN chan'[e] : Precedes(got[e][i], chan'[e][j])
                        /\ holding[e] # NoBatch =>
                             /\ \A i \in DOMAIN got[e] : Precedes(got[e][i], holding[e])
                             /\ \A j \in DOMAIN chan'[e] : Precedes(holding[e], chan'[e][j])
      BY <1>1 DEF Ordered
    <3>8. CASE e = c
      BY <3>1, <3>5, <3>6, <3>7, <3>8 DEF G, H
    <3>9. CASE e # c
      BY <2>1, <3>9 DEF Fan, Ordered
    <3> QED BY <3>8, <3>9
  <2>8. Owed'
    <3> SUFFICES ASSUME NEW e \in Clients, NEW d \in due[e],
                        sock[e] # "closed", d \notin lagged[e], ~InPath(e, d)'
                 PROVE  Ahead(d[1], e)' /\ pub'[d[1]].batch = d
      BY <1>1, <1>16 DEF Fan, Owed
    <3>1. ~InPath(e, d) /\ ~(e = c /\ d = b) /\ d[1] \in Pubs
      BY <1>8, <2>4, <2>5
    <3>2. Ahead(d[1], e) /\ pub[d[1]].batch = d
      BY <3>1 DEF Fan, Owed
    <3>3. CASE d[1] # p
      BY <1>6, <1>13, <3>1, <3>2, <3>3
    <3>4. CASE d[1] = p
      <4>1. d = b /\ e # c
        BY <3>1, <3>2, <3>4 DEF b
      <4> QED BY <1>6, <1>12, <3>2, <3>4, <4>1
    <3> QED BY <3>3, <3>4
  <2> QED BY <1>15, <2>6, <2>7, <2>8 DEF Fan
<1>17. CASE lagged' = [lagged EXCEPT ![c] = @ \cup {b}] /\ chan' = chan
  <2>1. \A e \in Clients : \A d : InPath(e, d)' <=> InPath(e, d)
    BY <1>1, <1>17 DEF InPath
  <2>2. Ordered'
    BY <1>1, <1>17 DEF Fan, Ordered
  <2>3. Counted'
    <3> SUFFICES ASSUME NEW e \in Clients, NEW d \in Batches, InPath(e, d)
                 PROVE  d[2] <= sent[d[1]] /\ (Ahead(d[1], e)' => d[2] < sent[d[1]])
      BY <1>1, <2>1 DEF Counted
    <3>1. Ahead(d[1], e)' => Ahead(d[1], e)
      BY <1>8, <1>11, <1>12, <1>13
    <3> QED BY <3>1 DEF Fan, Counted
  <2>4. /\ b \in lagged'[c] /\ \A e \in Clients : lagged[e] \subseteq lagged'[e]
    BY <1>3, <1>8, <1>17
  <2>5. Owed'
    <3> SUFFICES ASSUME NEW e \in Clients, NEW d \in due[e],
                        sock[e] # "closed", d \notin lagged'[e], ~InPath(e, d)
                 PROVE  Ahead(d[1], e)' /\ pub'[d[1]].batch = d
      BY <1>1, <2>1 DEF Fan, Owed
    <3>1. d \notin lagged[e] /\ ~(e = c /\ d = b) /\ d[1] \in Pubs
      BY <1>8, <2>4
    <3>2. Ahead(d[1], e) /\ pub[d[1]].batch = d
      BY <3>1 DEF Fan, Owed
    <3>3. CASE d[1] # p
      BY <1>6, <1>13, <3>1, <3>2, <3>3
    <3>4. CASE d[1] = p
      <4>1. d = b /\ e # c
        BY <3>1, <3>2, <3>4 DEF b
      <4> QED BY <1>6, <1>12, <3>2, <3>4, <4>1
    <3> QED BY <3>3, <3>4
  <2> QED BY <1>15, <2>2, <2>3, <2>5 DEF Fan
<1> QED BY <1>7, <1>16, <1>17

\* Publish returns when it has come to every client of its slice.
LEMMA PublishReturnFan ==
  ASSUME BusInv, Fan, NEW p \in Pubs, PublishReturn(p)
  PROVE  Fan'
<1>1. /\ UNCHANGED <<heap, len, chan, sent, due, lagged, got, holding, http, sock>>
      /\ pub[p].pc = "loop" /\ pub[p].i > pub[p].len /\ pub' = [pub EXCEPT ![p] = Idle]
  BY DEF PublishReturn, busVars, pumpVars, clientVars
<1>2. pub'[p].pc = "idle" /\ \A q \in Pubs \ {p} : pub'[q] = pub[q]
  BY <1>1 DEF BusInv, TypeOK, Idle
<1>3. /\ \A q \in Pubs \ {p} : \A c \in Clients : Ahead(q, c)' <=> Ahead(q, c)
      /\ \A c \in Clients : ~Ahead(p, c) /\ ~Ahead(p, c)'
  <2>1. pub[p].i \in Nat /\ pub[p].len \in Nat
    BY Handler
  <2>2. \A k \in 1 .. pub[p].len : ~(k >= pub[p].i)
    BY <1>1, <2>1
  <2> QED BY <1>1, <1>2, <2>2 DEF Ahead
<1>4. \A c \in Clients : \A b : InPath(c, b)' <=> InPath(c, b)
  BY <1>1 DEF InPath
<1>5. \A b \in Batches : b[1] \in Pubs
  BY BatchParts
<1>6. Listed'
  BY <1>1 DEF Fan, Listed, Subscribed
<1>7. Views'
  <2> SUFFICES ASSUME NEW q \in Pubs, pub'[q].pc = "loop"
               PROVE  /\ pub'[q].batch = Batch(q, sent[q])
                      /\ pub'[q].arr = Len(heap) => pub'[q].len <= len
                      /\ \A i, j \in 1 .. pub'[q].len :
                           heap[pub'[q].arr][i] = heap[pub'[q].arr][j] => i = j
    BY <1>1 DEF Views
  <2> QED BY <1>2 DEF Fan, Views
<1>8. Counted'
  BY <1>1, <1>3, <1>4, <1>5 DEF Fan, Counted
<1>9. Ordered'
  BY <1>1 DEF Fan, Ordered
<1>10. Owed'
  <2> SUFFICES ASSUME NEW c \in Clients, NEW b \in due[c],
                      sock[c] # "closed", b \notin lagged[c], ~InPath(c, b)
               PROVE  Ahead(b[1], c)' /\ pub'[b[1]].batch = b
    BY <1>1, <1>4 DEF Fan, Owed
  <2>1. b[1] \in Pubs
    BY <1>5 DEF BusInv, TypeOK
  <2>2. Ahead(b[1], c) /\ pub[b[1]].batch = b
    BY DEF Fan, Owed
  <2> QED BY <1>2, <1>3, <2>1, <2>2
<1> QED BY <1>6, <1>7, <1>8, <1>9, <1>10 DEF Fan

FanInv == ~shutdown => Fan

LEMMA FanStep == BusInv /\ Orderly /\ FanInv /\ [Next]_vars => FanInv'
<1> SUFFICES ASSUME BusInv, Orderly, FanInv, [Next]_vars, ~shutdown' PROVE Fan'
  BY DEF FanInv
<1>1. ~shutdown /\ hub = "run"
  <2>1. hub # "run" => shutdown
    BY DEF Orderly
  <2>2. CASE UNCHANGED vars
    BY <2>1, <2>2 DEF vars, hubVars
  <2>3. CASE Next
    BY <2>1, <2>3 DEF Next, Browser, Upgrade, Subscribe, Register, StartStream, BrowserCloses, Pump,
         PumpTake, PumpWrite, PumpEnd, Publish, PublishStart, PublishStep, PublishReturn, Run,
         HubRegister, HubShutdown, HubClose, HubReturn, HubUnsubscribe, Close, hubVars
  <2> QED BY <2>2, <2>3
<1>2. Fan
  BY <1>1 DEF FanInv
<1>3. http \in [Clients -> {"none", "upgraded", "subscribed", "registered"}]
      /\ sock \in [Clients -> {"none", "open", "closed"}]
  BY DEF BusInv, TypeOK
<1>4. ASSUME NEW c \in Clients, Upgrade(c) \/ Register(c) \/ StartStream(c) \/ BrowserCloses(c) PROVE Fan'
  <2>1. UNCHANGED <<heap, len, pub, sent, due, lagged, got, holding, chan>>
    BY <1>4 DEF Upgrade, Register, StartStream, BrowserCloses, busVars, pubVars, pumpVars
  <2>2. \A d \in Clients : sock'[d] # "closed" => sock[d] # "closed"
    BY <1>1, <1>3, <1>4 DEF Upgrade, Register, StartStream, BrowserCloses, Orderly
  <2>3. \A d \in Clients : Subscribed(d)' <=> Subscribed(d)
    BY <1>3, <1>4 DEF Upgrade, Register, StartStream, BrowserCloses, Subscribed
  <2> QED BY <1>2, <2>1, <2>2, <2>3, QuietFan
<1>5. ASSUME HubRegister \/ (\E c \in Clients : PumpEnd(c)) \/ UNCHANGED vars PROVE Fan'
  <2>1. UNCHANGED <<heap, len, pub, sent, due, lagged, got, holding, chan, sock, http>>
    BY <1>5 DEF HubRegister, PumpEnd, vars, busVars, pubVars, pumpVars, clientVars
  <2>2. \A d \in Clients : Subscribed(d)' <=> Subscribed(d)
    BY <2>1 DEF Subscribed
  <2> QED BY <1>2, <2>1, <2>2, QuietFan
<1>6. ~Close /\ ~HubShutdown /\ ~HubClose /\ ~HubReturn /\ ~(\E c \in Clients : HubUnsubscribe(c))
  BY <1>1 DEF Close, HubShutdown, HubClose, HubReturn, HubUnsubscribe
<1> QED
  BY <1>1, <1>2, <1>4, <1>5, <1>6, SubscribeFan, PumpFan, PublishStartFan, PublishStepFan, PublishReturnFan
     DEF Next, Browser, Pump, Publish, Run

LEMMA FanAlways == Spec => []FanInv
<1>1. Init => FanInv
  <2> SUFFICES ASSUME Init PROVE Fan
    BY DEF FanInv
  <2>1. Listed /\ Views /\ Ordered
    BY DEF Init, Idle, Listed, Views, Ordered, Subscribed
  <2>2. \A c \in Clients, b \in Batches : ~InPath(c, b)
    BY BatchIsOne DEF Init, InPath
  <2>3. Counted /\ Owed
    BY <2>2 DEF Init, Counted, Owed
  <2> QED BY <2>1, <2>3 DEF Fan
<1> QED BY <1>1, BusAlways, OrderlyAlways, FanStep, PTL DEF Spec

\* A client's way is what was written, what is held and what is in the channel.
LEMMA PathParts ==
  ASSUME BusInv, NEW c \in Clients
  PROVE  LET w == IF holding[c] = NoBatch THEN 0 ELSE 1 IN
         /\ DOMAIN Path(c) = 1 .. Len(got[c]) + w + Len(chan[c])
         /\ Len(got[c]) \in Nat /\ Len(chan[c]) \in Nat
         /\ DOMAIN got[c] = 1 .. Len(got[c]) /\ DOMAIN chan[c] = 1 .. Len(chan[c])
         /\ \A i \in 1 .. Len(got[c]) : Path(c)[i] = got[c][i]
         /\ w = 1 => Path(c)[Len(got[c]) + 1] = holding[c]
         /\ \A i \in 1 .. Len(chan[c]) : Path(c)[Len(got[c]) + w + i] = chan[c][i]
<1> DEFINE g == got[c]
           q == chan[c]
           h == IF holding[c] = NoBatch THEN <<>> ELSE <<holding[c]>>
           w == IF holding[c] = NoBatch THEN 0 ELSE 1
<1>1. g \in Seq(Batches) /\ q \in Seq(Batches) /\ holding[c] \in Batches \cup {NoBatch}
  BY DEF BusInv, TypeOK
<1>2. h \in Seq(Batches) /\ Len(h) = w /\ w \in Nat /\ (w = 1 => h[1] = holding[c])
  <2>1. CASE holding[c] = NoBatch
    BY <2>1
  <2>2. CASE holding[c] # NoBatch
    BY <1>1, <2>2
  <2> QED BY <2>1, <2>2
<1>3. Path(c) = (g \o h) \o q
  BY DEF Path
<1>4. Len(g) \in Nat /\ Len(q) \in Nat /\ DOMAIN g = 1 .. Len(g) /\ DOMAIN q = 1 .. Len(q)
  BY <1>1
<1> HIDE DEF g, q, h, w
<1>5. /\ g \o h \in Seq(Batches) /\ Len(g \o h) = Len(g) + w
      /\ \A i \in 1 .. Len(g) + w : (g \o h)[i] = IF i <= Len(g) THEN g[i] ELSE h[i - Len(g)]
  BY <1>1, <1>2, ConcatProperties
<1>6. /\ Path(c) \in Seq(Batches) /\ Len(Path(c)) = Len(g) + w + Len(q)
      /\ \A i \in 1 .. Len(g) + w + Len(q) :
           Path(c)[i] = IF i <= Len(g) + w THEN (g \o h)[i] ELSE q[i - (Len(g) + w)]
  BY <1>1, <1>3, <1>5, ConcatProperties
<1>7. DOMAIN Path(c) = 1 .. Len(g) + w + Len(q)
  BY <1>6
<1>8. \A i \in 1 .. Len(g) : Path(c)[i] = g[i]
  <2> SUFFICES ASSUME NEW i \in 1 .. Len(g) PROVE Path(c)[i] = g[i]
    OBVIOUS
  <2>1. i \in 1 .. Len(g) + w + Len(q) /\ i \in 1 .. Len(g) + w /\ i <= Len(g) + w /\ i <= Len(g)
    BY <1>2, <1>4
  <2> QED BY <1>5, <1>6, <2>1
<1>9. w = 1 => Path(c)[Len(g) + 1] = holding[c]
  <2> SUFFICES ASSUME w = 1 PROVE Path(c)[Len(g) + 1] = holding[c]
    OBVIOUS
  <2>1. /\ Len(g) + 1 \in 1 .. Len(g) + w + Len(q) /\ Len(g) + 1 \in 1 .. Len(g) + w
        /\ Len(g) + 1 <= Len(g) + w /\ ~(Len(g) + 1 <= Len(g)) /\ (Len(g) + 1) - Len(g) = 1
    BY <1>4
  <2> QED BY <1>2, <1>5, <1>6, <2>1
<1>10. \A i \in 1 .. Len(q) : Path(c)[Len(g) + w + i] = q[i]
  <2> SUFFICES ASSUME NEW i \in 1 .. Len(q) PROVE Path(c)[Len(g) + w + i] = q[i]
    OBVIOUS
  <2>1. /\ Len(g) + w + i \in 1 .. Len(g) + w + Len(q)
        /\ ~(Len(g) + w + i <= Len(g) + w) /\ (Len(g) + w + i) - (Len(g) + w) = i
    BY <1>2, <1>4
  <2> QED BY <1>6, <2>1
<1> QED BY <1>4, <1>7, <1>8, <1>9, <1>10 DEF g, q, w

\* Every place on a client's way is in one of the parts.
LEMMA PathOrder ==
  ASSUME BusInv, Ordered, NEW c \in Clients,
         NEW i \in DOMAIN Path(c), NEW j \in DOMAIN Path(c), i < j
  PROVE  Precedes(Path(c)[i], Path(c)[j])
<1> DEFINE G == Len(got[c])
           Q == Len(chan[c])
           w == IF holding[c] = NoBatch THEN 0 ELSE 1
<1>1. /\ DOMAIN Path(c) = 1 .. G + w + Q
      /\ G \in Nat /\ Q \in Nat
      /\ DOMAIN got[c] = 1 .. G /\ DOMAIN chan[c] = 1 .. Q
      /\ \A k \in 1 .. G : Path(c)[k] = got[c][k]
      /\ w = 1 => Path(c)[G + 1] = holding[c]
      /\ \A k \in 1 .. Q : Path(c)[G + w + k] = chan[c][k]
  BY PathParts
<1>2. w \in {0, 1} /\ (w = 1 => holding[c] # NoBatch)
  OBVIOUS
<1>3. /\ \A k, l \in DOMAIN got[c] : k < l => Precedes(got[c][k], got[c][l])
      /\ \A k, l \in DOMAIN chan[c] : k < l => Precedes(chan[c][k], chan[c][l])
      /\ \A k \in DOMAIN got[c], l \in DOMAIN chan[c] : Precedes(got[c][k], chan[c][l])
      /\ w = 1 => /\ \A k \in DOMAIN got[c] : Precedes(got[c][k], holding[c])
                  /\ \A l \in DOMAIN chan[c] : Precedes(holding[c], chan[c][l])
  BY <1>2 DEF Ordered
<1> HIDE DEF G, Q, w, Precedes
<1>4. \A k \in 1 .. G + w + Q :
        \/ k \in 1 .. G
        \/ w = 1 /\ k = G + 1
        \/ k - (G + w) \in 1 .. Q /\ k = G + w + (k - (G + w))
  BY <1>1, <1>2
<1>5. i \in 1 .. G + w + Q /\ j \in 1 .. G + w + Q
  BY <1>1
<1>6. CASE j \in 1 .. G
  <2>1. i \in 1 .. G
    BY <1>1, <1>5, <1>6
  <2> QED BY <1>1, <1>3, <1>6, <2>1
<1>7. CASE w = 1 /\ j = G + 1
  <2>1. i \in 1 .. G
    BY <1>1, <1>5, <1>7
  <2> QED BY <1>1, <1>3, <1>7, <2>1
<1>8. CASE j - (G + w) \in 1 .. Q /\ j = G + w + (j - (G + w))
  <2> DEFINE l == j - (G + w)
  <2>1. l \in DOMAIN chan[c] /\ Path(c)[j] = chan[c][l]
    BY <1>1, <1>8
  <2>2. CASE i \in 1 .. G
    BY <1>1, <1>3, <2>1, <2>2
  <2>3. CASE w = 1 /\ i = G + 1
    BY <1>1, <1>3, <2>1, <2>3
  <2>4. CASE i - (G + w) \in 1 .. Q /\ i = G + w + (i - (G + w))
    <3>1. i - (G + w) \in DOMAIN chan[c] /\ Path(c)[i] = chan[c][i - (G + w)]
      BY <1>1, <2>4
    <3>2. i - (G + w) < l
      BY <1>1, <1>2, <1>5
    <3> QED BY <1>3, <2>1, <3>1, <3>2
  <2> QED BY <1>4, <1>5, <2>2, <2>3, <2>4
<1> QED BY <1>4, <1>5, <1>6, <1>7, <1>8

\* While the server runs every browser gets each handler's batches in the order
\* they were published and none twice, for any number of browsers and handlers:
\* the slice a Publish walks names each client once, and Subscribe only writes
\* behind it.
THEOREM AlwaysInOrderOnce == Spec => []InOrderOnce
<1>1. BusInv /\ FanInv => InOrderOnce
  <2> SUFFICES ASSUME BusInv, FanInv, ~shutdown, NEW c \in Clients,
                      NEW i \in DOMAIN Path(c), NEW j \in DOMAIN Path(c), i < j,
                      Path(c)[i][1] = Path(c)[j][1]
               PROVE  Path(c)[i][2] < Path(c)[j][2]
    BY DEF InOrderOnce
  <2>1. Precedes(Path(c)[i], Path(c)[j])
    BY PathOrder DEF FanInv, Fan
  <2> QED BY <2>1 DEF Precedes
<1> QED BY <1>1, BusAlways, FanAlways, PTL

\* While the server runs a browser misses a batch published after it subscribed
\* only if its channel was full or its socket closed, for any number of browsers
\* that subscribe meanwhile.
THEOREM NeverGapOnceSubscribed == Spec => []NoGapOnceSubscribed
<1>1. BusInv /\ FanInv => NoGapOnceSubscribed
  <2> SUFFICES ASSUME BusInv, FanInv, ~shutdown, NEW c \in Clients, sock[c] # "closed",
                      NEW b \in due[c], b \notin lagged[c],
                      ~(\E p \in Pubs : pub[p].pc = "loop" /\ pub[p].batch = b)
               PROVE  \E i \in DOMAIN Path(c) : Path(c)[i] = b
    BY DEF NoGapOnceSubscribed
  <2>1. b \in Batches /\ b[1] \in Pubs /\ b # NoBatch
    BY BatchParts, BatchIsOne DEF BusInv, TypeOK
  <2>2. InPath(c, b)
    BY <2>1 DEF FanInv, Fan, Owed, Ahead
  <2> DEFINE G == Len(got[c])
             Q == Len(chan[c])
             w == IF holding[c] = NoBatch THEN 0 ELSE 1
  <2>3. /\ DOMAIN Path(c) = 1 .. G + w + Q
        /\ G \in Nat /\ Q \in Nat
        /\ DOMAIN got[c] = 1 .. G /\ DOMAIN chan[c] = 1 .. Q
        /\ \A k \in 1 .. G : Path(c)[k] = got[c][k]
        /\ w = 1 => Path(c)[G + 1] = holding[c]
        /\ \A k \in 1 .. Q : Path(c)[G + w + k] = chan[c][k]
    BY PathParts
  <2>4. w \in {0, 1} /\ (holding[c] = b => w = 1)
    BY <2>1
  <2> HIDE DEF G, Q, w
  <2>5. /\ \A k \in 1 .. G : k \in 1 .. G + w + Q
        /\ w = 1 => G + 1 \in 1 .. G + w + Q
        /\ \A k \in 1 .. Q : G + w + k \in 1 .. G + w + Q
    BY <2>3, <2>4
  <2>6. CASE \E i \in DOMAIN got[c] : got[c][i] = b
    BY <2>3, <2>5, <2>6
  <2>7. CASE holding[c] = b
    BY <2>3, <2>4, <2>5, <2>7
  <2>8. CASE \E i \in DOMAIN chan[c] : chan[c][i] = b
    BY <2>3, <2>5, <2>8
  <2> QED BY <2>2, <2>6, <2>7, <2>8 DEF InPath
<1> QED BY <1>1, BusAlways, FanAlways, PTL

=============================================================================
