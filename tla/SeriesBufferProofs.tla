------------------------- MODULE SeriesBufferProofs -------------------------
(***************************************************************************)
(* Facts about the operators of SeriesBuffer, for every capacity.          *)
(***************************************************************************)
EXTENDS SeriesBuffer, SequenceTheorems, TLAPS

\* Two sample numbers less than Cap apart occupy different slots.
LEMMA SlotsDiffer ==
    ASSUME Cap > 0, NEW i \in Nat, NEW j \in Nat, i < j, j - i < Cap
    PROVE  i % Cap # j % Cap
<1>1. Cap \in Nat /\ Cap > 0
  BY CapAssumption
<1>2. i = Cap * (i \div Cap) + (i % Cap) /\ j = Cap * (j \div Cap) + (j % Cap)
  BY <1>1
<1>3. i \div Cap \in Int /\ j \div Cap \in Int
  BY <1>1
<1>4. SUFFICES ASSUME i % Cap = j % Cap PROVE FALSE
  OBVIOUS
<1>5. j - i = Cap * ((j \div Cap) - (i \div Cap))
  BY <1>1, <1>2, <1>3, <1>4
<1>. DEFINE d == (j \div Cap) - (i \div Cap)
<1>6. d \in Int /\ j - i = Cap * d
  BY <1>3, <1>5
<1>. HIDE DEF d
<1>7. d >= 1
  BY <1>1, <1>6
<1>8. Cap * d >= Cap
  BY <1>1, <1>6, <1>7
<1> QED
  BY <1>1, <1>6, <1>8

\* The remainder by Cap is a slot.
LEMMA SlotInRange ==
    ASSUME Cap > 0, NEW i \in Nat
    PROVE  i % Cap \in Slots
BY CapAssumption DEF Slots

\* A new ring is empty and intact.
LEMMA NewSeriesIntact == NewSeries \in SeriesType /\ RingIntact(NewSeries)
BY CapAssumption DEF NewSeries, SeriesType, Slots, RingIntact

\* Push keeps a ring well formed, stores the sample in its slot, and drops the
\* oldest unsent sample exactly when all slots hold unsent ones.
LEMMA PushIntact ==
    ASSUME NEW s \in SeriesType, RingIntact(s)
    PROVE  /\ Push(s, s.head + 1) \in SeriesType
           /\ RingIntact(Push(s, s.head + 1))
<1>1. CASE Cap = 0
  BY <1>1 DEF Push
<1>2. CASE Cap # 0
  <2>1. Cap \in Nat /\ Cap > 0
    BY <1>2, CapAssumption
  <2>2. /\ s.head \in Nat /\ s.tail \in Nat
        /\ s.samples \in [Slots -> Nat \cup {NoSample}]
        /\ s.tail <= s.head /\ s.head - s.tail <= Cap
        /\ \A i \in 0 .. s.head - 1 : s.head - i <= Cap => s.samples[i % Cap] = i + 1
    BY DEF SeriesType, RingIntact
  <2>3. s.head % Cap \in Slots
    BY <2>1, <2>2, SlotInRange
  <2> DEFINE t == Push(s, s.head + 1)
  <2>4. /\ t.head = s.head + 1
        /\ t.tail = (IF DropsOldest(s) THEN s.tail + 1 ELSE s.tail)
        /\ t.samples = [s.samples EXCEPT ![s.head % Cap] = s.head + 1]
        /\ t = [head |-> t.head, tail |-> t.tail, samples |-> t.samples]
    BY <1>2 DEF Push
  <2>5. /\ t.head \in Nat /\ t.tail \in Nat
        /\ t.tail <= t.head /\ t.head - t.tail <= Cap
    BY <2>1, <2>2, <2>4 DEF DropsOldest
  <2>6. t.samples \in [Slots -> Nat \cup {NoSample}]
    BY <2>2, <2>4
  <2>7. ASSUME NEW i \in 0 .. t.head - 1, t.head - i <= Cap
        PROVE  t.samples[i % Cap] = i + 1
    <3>1. CASE i = s.head
      BY <2>2, <2>3, <2>4, <3>1
    <3>2. CASE i # s.head
      <4>1. i \in Nat /\ i < s.head /\ s.head - i < Cap
        BY <2>1, <2>2, <2>4, <2>7, <3>2
      <4>2. i % Cap # s.head % Cap
        BY <2>1, <2>2, <4>1, SlotsDiffer
      <4>3. i % Cap \in Slots
        BY <2>1, <4>1, SlotInRange
      <4>4. t.samples[i % Cap] = s.samples[i % Cap]
        BY <2>2, <2>3, <2>4, <4>2, <4>3
      <4>5. s.samples[i % Cap] = i + 1
        BY <2>1, <2>2, <4>1
      <4> QED BY <4>4, <4>5
    <3> QED BY <3>1, <3>2
  <2>8. t \in SeriesType
    BY <2>4, <2>5, <2>6 DEF SeriesType
  <2>9. RingIntact(t)
    BY <2>5, <2>7 DEF RingIntact
  <2> QED BY <2>8, <2>9
<1> QED BY <1>1, <1>2

\* An acknowledgement of at most head samples keeps a ring well formed.
LEMMA AckIntact ==
    ASSUME NEW s \in SeriesType, RingIntact(s), NEW end \in Nat, end <= s.head
    PROVE  /\ AckSnapshot(s, end) \in SeriesType
           /\ RingIntact(AckSnapshot(s, end))
           /\ AckSnapshot(s, end).head = s.head
BY CapAssumption DEF AckSnapshot, SeriesType, RingIntact

\* A snapshot of an intact ring is the run of consecutive samples from the
\* oldest unsent one to the newest.
LEMMA SnapshotConsecutive ==
    ASSUME NEW s \in SeriesType, RingIntact(s)
    PROVE  /\ GetSnapshot(s).samples \in Seq(Nat)
           /\ Len(GetSnapshot(s).samples) = s.head - s.tail
           /\ \A j \in 1 .. s.head - s.tail : GetSnapshot(s).samples[j] = s.tail + j
           /\ GetSnapshot(s).end = s.head
<1>1. /\ s.head \in Nat /\ s.tail \in Nat /\ Cap \in Nat
      /\ s.tail <= s.head /\ s.head - s.tail <= Cap
      /\ \A i \in 0 .. s.head - 1 : s.head - i <= Cap => s.samples[i % Cap] = i + 1
  BY CapAssumption DEF SeriesType, RingIntact
<1> DEFINE n == s.head - s.tail
           f == [j \in 1 .. n |-> s.samples[(s.tail + j - 1) % Cap]]
<1>2. n \in Nat
  BY <1>1
<1>3. ASSUME NEW j \in 1 .. n
      PROVE  f[j] = s.tail + j
  <2>1. s.tail + j - 1 \in 0 .. s.head - 1 /\ s.head - (s.tail + j - 1) <= Cap
    BY <1>1, <1>3
  <2>2. s.samples[(s.tail + j - 1) % Cap] = (s.tail + j - 1) + 1
    BY <1>1, <2>1
  <2> QED BY <1>1, <2>2
<1>4. f \in [1 .. n -> Nat]
  BY <1>1, <1>3
<1>5. GetSnapshot(s).samples = f /\ GetSnapshot(s).end = s.head
  BY DEF GetSnapshot
<1> HIDE DEF f
<1>6. f \in Seq(Nat)
  BY <1>2, <1>4, SeqDef
<1>7. Len(f) = n
  BY <1>2, <1>4, <1>6, LenProperties
<1> QED BY <1>3, <1>5, <1>6, <1>7

=============================================================================
