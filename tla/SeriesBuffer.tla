---------------------------- MODULE SeriesBuffer ----------------------------
(***************************************************************************)
(* The ring buffer the agent keeps for one metric series                   *)
(* (sources/agent/src/buffer.{h,cc}, class SeriesBuffer) as operators on a *)
(* record: head and tail count the samples ever pushed and the samples     *)
(* already settled, slot i % Cap holds sample number i.  The slots         *)
(* tail .. head-1 are the unsent samples.  Every method of the class holds *)
(* the object's mutex from its first to its last line, so each operator    *)
(* stands for one atomic step.                                             *)
(*                                                                         *)
(* A sample is represented by its stamp: the n-th sample of a series has   *)
(* stamp n.  Value and wall-clock time play no part in any decision.       *)
(***************************************************************************)
EXTENDS Integers, Sequences

CONSTANTS
    Cap,       \* capacity_: the number of slots, fixed at construction
    NoSample   \* the value-initialised Sample{} in a slot never written

ASSUME CapAssumption == Cap \in Nat /\ NoSample \notin Nat

Slots == 0 .. Cap - 1

SeriesType == [head : Nat, tail : Nat, samples : [Slots -> Nat \cup {NoSample}]]

\* SeriesBuffer(capacity) / SetCapacity
NewSeries == [head |-> 0, tail |-> 0, samples |-> [i \in Slots |-> NoSample]]

\* Faulty variant: the ring is let grow one sample past its capacity.
DropsOldestLate(s) == Cap > 0 /\ s.head - s.tail > Cap

\* The guard of Push that advances tail_: the oldest unsent sample is dropped.
DropsOldest(s) == Cap > 0 /\ s.head - s.tail >= Cap

\* Push: a buffer without slots ignores the sample.
Push(s, x) ==
    IF Cap = 0
    THEN s
    ELSE [head    |-> s.head + 1,
          tail    |-> IF DropsOldest(s) THEN s.tail + 1 ELSE s.tail,
          samples |-> [s.samples EXCEPT ![s.head % Cap] = x]]

\* Latest: the last sample pushed, sent or not; NoSample before the first one.
Latest(s) == IF s.head = 0 THEN NoSample ELSE s.samples[(s.head - 1) % Cap]

\* Faulty variant: the loop runs to head_ inclusive.
GetSnapshotOneMore(s) ==
    [samples |-> [j \in 1 .. (s.head - s.tail) + 1 |-> s.samples[(s.tail + j - 1) % Cap]],
     end     |-> s.head]

\* GetSnapshot: a copy of the unsent samples and the count to acknowledge.
GetSnapshot(s) ==
    [samples |-> [j \in 1 .. (s.head - s.tail) |-> s.samples[(s.tail + j - 1) % Cap]],
     end     |-> s.head]

\* Faulty variant: everything in the ring counts as acknowledged.
AckSnapshotAll(s, end) == [s EXCEPT !.tail = s.head]

\* Faulty variant: a late acknowledgement moves tail_ back.
AckSnapshotBack(s, end) == [s EXCEPT !.tail = end]

\* AckSnapshot: tail_ never moves back, however late the acknowledgement is.
AckSnapshot(s, end) == IF end > s.tail THEN [s EXCEPT !.tail = end] ELSE s

\* The slots of the last Cap samples hold exactly those samples, so neither a
\* snapshot nor Latest ever reads a slot that was overwritten or never written.
RingIntact(s) ==
    /\ s.tail <= s.head
    /\ s.head - s.tail <= Cap
    /\ \A i \in 0 .. s.head - 1 : s.head - i <= Cap => s.samples[i % Cap] = i + 1

=============================================================================
