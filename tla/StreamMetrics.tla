---------------------------- MODULE StreamMetrics ---------------------------
(***************************************************************************)
(* The data path of Volta: from the agent's MetricsBuffer through          *)
(* StreamMetricsReactor and one StreamMetrics RPC to the server's event    *)
(* bus, and the acknowledgements back.                                     *)
(*                                                                         *)
(* Four threads of control interleave:                                     *)
(*   - the scheduler thread, which calls MetricsBuffer::AddMetrics;        *)
(*   - poll_thread_, which turns unsent samples into batches;              *)
(*   - the gRPC callback threads (OnReadDone, OnWriteDone, OnDone);        *)
(*   - the server's StreamMetrics handler.                                 *)
(* A step is a critical section of the code: snapshot_mu_, write_mu_ and   *)
(* the mutex of each SeriesBuffer are each held for the whole of one       *)
(* step and released between two of them.                                  *)
(*                                                                         *)
(* The agent opens one StreamMetrics RPC in its life                       *)
(* (Client::StreamData never resets stream_data_reactor_), so the model    *)
(* has one, which may break at any time and is never replaced.             *)
(***************************************************************************)
EXTENDS SeriesBuffer, FiniteSets

CONSTANTS
    Keys,          \* the metric series: BufferKey values
    Unspecified,   \* METRIC_TYPE_UNSPECIFIED
    MaxSamples     \* bound: MaxSamples[k], the number of samples taken of series k

\* A key is a metric type and a device of the machine, so there are finitely many.
ASSUME KeysAssumption == Unspecified \notin Keys /\ IsFiniteSet(Keys)

VARIABLES
    series,      \* series_: the ring of every key (NewSeries until the first sample)
    keys,        \* keys_: the keys that have a ring
    pollPc,      \* where poll_thread_ stands
    todo,        \* the keys EnqueueMetrics() has still to visit
    cur,         \* the batch EnqueueMetrics(key) is building
    batchId,     \* batch_id_counter_
    pending,     \* pending_snapshots_: what was sent and is not acknowledged
    writerqu,    \* writerqu_
    writing,     \* writing_
    writeOp,     \* a StartWrite whose OnWriteDone has not run yet
    writeCbs,    \* OnWriteDone callbacks that have popped and not yet called Write
    readOp,      \* a StartRead is outstanding
    rpc,         \* the RPC: open, broken (its operations fail) or done (OnDone ran)
    wire,        \* batches on their way to the server
    acks,        \* BatchAck messages on their way to the agent
    srv,         \* the server's handler: receiving, acknowledging or returned
    received,    \* history: the samples of each key in the order the server published them
    dropped      \* history: the unsent samples of each key that were overwritten

bufferVars == <<series, keys, dropped>>
pollVars   == <<pollPc, todo, cur, batchId>>
writeVars  == <<writerqu, writing, writeOp, writeCbs>>
serverVars == <<srv, received>>
vars == <<bufferVars, pollVars, pending, writeVars, readOp, rpc, wire, acks, serverVars>>

Receiving == [pc |-> "recv", id |-> 0]
Acking(id) == [pc |-> "ack", id |-> id]
Returned == [pc |-> "returned", id |-> 0]

NoBatch == [id |-> -1, key |-> Unspecified, samples |-> <<>>, end |-> 0]

\* The sample numbers in a sequence of samples.
Stamps(samples) == {samples[i] : i \in DOMAIN samples}

-----------------------------------------------------------------------------
(* Scheduler thread: one round of collection.                              *)

\* AddMetrics holds the buffer's mutex for the whole vector.  AddMetric skips
\* a metric of unspecified type; AddSample creates the ring of a new key.
AddMetrics(ms) ==
    LET ks == ms \ {Unspecified} IN
    /\ \A k \in ks : series[k].head < MaxSamples[k]
    /\ keys' = keys \cup ks
    /\ series' = [k \in Keys |->
                    IF k \in ks THEN Push(series[k], series[k].head + 1) ELSE series[k]]
    /\ dropped' = [k \in Keys |->
                     IF k \in ks /\ DropsOldest(series[k])
                     THEN dropped[k] \cup {series[k].tail + 1}
                     ELSE dropped[k]]
    /\ UNCHANGED <<pollVars, pending, writeVars, readOp, rpc, wire, acks, serverVars>>

-----------------------------------------------------------------------------
(* Write(): start sending the head of the queue unless a write is under    *)
(* way.  An operation started on a broken RPC is reported failed later.    *)
(* poll_thread_ is not told when the RPC is done and no hold keeps it      *)
(* alive, so it may still call StartWrite then: that is undefined, and the *)
(* outcomes are a crash (no further step) or an operation that never       *)
(* completes.                                                              *)

StartWrite(b) ==
    /\ wire' = IF rpc = "open" THEN Append(wire, b) ELSE wire
    /\ writeOp' = (rpc # "done")

Write ==
    \/ /\ writing \/ writerqu = <<>>
       /\ UNCHANGED <<writing, writeOp, wire>>
    \/ /\ ~writing /\ writerqu # <<>>
       /\ writing' = TRUE
       /\ StartWrite(Head(writerqu))

-----------------------------------------------------------------------------
(* poll_thread_                                                            *)

\* Faulty variant: a new round starts while batches wait for their acknowledgement.
PollCheckBlind ==
    /\ pollPc = "idle"
    /\ pollPc' = "round"
    /\ todo' = keys
    /\ UNCHANGED <<bufferVars, cur, batchId, pending, writeVars, readOp, rpc, wire, acks, serverVars>>

\* The first look at pending_snapshots_: nothing is enqueued while a batch
\* waits for its acknowledgement (the thread sleeps two seconds instead).
PollCheck ==
    /\ pollPc = "idle"
    /\ pending = {}
    /\ pollPc' = "round"
    /\ todo' = keys
    /\ UNCHANGED <<bufferVars, cur, batchId, pending, writeVars, readOp, rpc, wire, acks, serverVars>>

\* Faulty variant: batch_id_counter_ is read but not advanced.
PollSnapshotSameId(k) ==
    LET snapshot == GetSnapshot(series[k]) IN
    /\ pollPc = "round"
    /\ k \in todo
    /\ todo' = todo \ {k}
    /\ snapshot.samples # <<>>
    /\ cur' = [id |-> batchId, key |-> k, samples |-> snapshot.samples, end |-> snapshot.end]
    /\ pollPc' = "register"
    /\ UNCHANGED <<batchId, bufferVars, pending, writeVars, readOp, rpc, wire, acks, serverVars>>

\* EnqueueMetrics(key) up to the batch's id.  The order of keys_ is left open.
PollSnapshot(k) ==
    LET snapshot == GetSnapshot(series[k]) IN
    /\ pollPc = "round"
    /\ k \in todo
    /\ todo' = todo \ {k}
    /\ \/ /\ snapshot.samples = <<>>
          /\ UNCHANGED <<pollPc, cur, batchId>>
       \/ /\ snapshot.samples # <<>>
          /\ cur' = [id |-> batchId, key |-> k, samples |-> snapshot.samples,
                     end |-> snapshot.end]
          /\ batchId' = batchId + 1
          /\ pollPc' = "register"
    /\ UNCHANGED <<bufferVars, pending, writeVars, readOp, rpc, wire, acks, serverVars>>

\* pending_snapshots_.emplace, under snapshot_mu_.
PollRegister ==
    /\ pollPc = "register"
    /\ pending' = pending \cup {[id |-> cur.id, key |-> cur.key, end |-> cur.end]}
    /\ pollPc' = "push"
    /\ UNCHANGED <<bufferVars, todo, cur, batchId, writeVars, readOp, rpc, wire, acks, serverVars>>

\* writerqu_.push, under write_mu_.
PollPush ==
    /\ pollPc = "push"
    /\ writerqu' = Append(writerqu, cur)
    /\ cur' = NoBatch
    /\ pollPc' = "round"
    /\ UNCHANGED <<bufferVars, todo, batchId, pending, writing, writeOp, writeCbs,
                   readOp, rpc, wire, acks, serverVars>>

\* The second look at pending_snapshots_, after the last key.
PollRecheck ==
    /\ pollPc = "round"
    /\ todo = {}
    /\ pollPc' = IF pending = {} THEN "idle" ELSE "write"
    /\ UNCHANGED <<bufferVars, todo, cur, batchId, pending, writeVars, readOp, rpc, wire, acks, serverVars>>

PollWrite ==
    /\ pollPc = "write"
    /\ Write
    /\ pollPc' = "idle"
    /\ UNCHANGED <<bufferVars, todo, cur, batchId, pending, writerqu, writeCbs,
                   readOp, rpc, acks, serverVars>>

Poll ==
    \/ PollCheck
    \/ \E k \in Keys : PollSnapshot(k)
    \/ PollRegister
    \/ PollPush
    \/ PollRecheck
    \/ PollWrite

-----------------------------------------------------------------------------
(* gRPC callback threads                                                   *)

\* OnWriteDone(true), its critical section: the message sent leaves the queue.
OnWriteDone ==
    /\ writeOp
    /\ writeOp' = FALSE
    /\ writerqu' = Tail(writerqu)
    /\ writing' = FALSE
    /\ writeCbs' = writeCbs + 1
    /\ UNCHANGED <<bufferVars, pollVars, pending, readOp, rpc, wire, acks, serverVars>>

\* Faulty variant: the callback does not call Write().
OnWriteDoneNoWrite ==
    /\ writeCbs > 0
    /\ writeCbs' = writeCbs - 1
    /\ UNCHANGED <<bufferVars, pollVars, pending, writerqu, writing, writeOp, wire,
                   readOp, rpc, acks, serverVars>>

\* The call of Write() that ends OnWriteDone, after write_mu_ was released.
OnWriteDoneWrite ==
    /\ writeCbs > 0
    /\ writeCbs' = writeCbs - 1
    /\ Write
    /\ UNCHANGED <<bufferVars, pollVars, pending, writerqu, readOp, rpc, acks, serverVars>>

\* OnWriteDone(false) leaves writing_ set and the queue as it is.
OnWriteDoneFail ==
    /\ writeOp
    /\ rpc = "broken"
    /\ writeOp' = FALSE
    /\ UNCHANGED <<bufferVars, pollVars, pending, writerqu, writing, writeCbs,
                   readOp, rpc, wire, acks, serverVars>>

\* Faulty variant: an acknowledgement settles its snapshot and forgets the others.
OnReadDoneClear ==
    /\ readOp
    /\ acks # <<>>
    /\ acks' = Tail(acks)
    /\ pending' = {}
    /\ series' = [k \in Keys |->
                    IF \E p \in pending : p.id = Head(acks).id /\ p.key = k
                    THEN AckSnapshot(series[k], (CHOOSE p \in pending : p.id = Head(acks).id).end)
                    ELSE series[k]]
    /\ UNCHANGED <<keys, dropped, pollVars, writeVars, readOp, rpc, wire, serverVars>>

\* Faulty variant: the callback does not start the next read.
OnReadDoneOnce ==
    /\ readOp
    /\ readOp' = FALSE
    /\ acks # <<>>
    /\ acks' = Tail(acks)
    /\ LET it == {p \in pending : p.id = Head(acks).id} IN
       /\ pending' = pending \ it
       /\ series' = [k \in Keys |->
                       IF \E p \in it : p.key = k
                       THEN AckSnapshot(series[k], (CHOOSE p \in it : p.key = k).end)
                       ELSE series[k]]
    /\ UNCHANGED <<keys, dropped, pollVars, writeVars, rpc, wire, serverVars>>

\* OnReadDone(true): an acknowledgement settles its snapshot, or is unknown.
\* snapshot_mu_ is held around find, AckSnapshot and erase.
OnReadDone ==
    /\ readOp
    /\ acks # <<>>
    /\ acks' = Tail(acks)
    /\ LET it == {p \in pending : p.id = Head(acks).id} IN
       /\ pending' = pending \ it
       /\ series' = [k \in Keys |->
                       IF \E p \in it : p.key = k
                       THEN AckSnapshot(series[k], (CHOOSE p \in it : p.key = k).end)
                       ELSE series[k]]
    /\ UNCHANGED <<keys, dropped, pollVars, writeVars, readOp, rpc, wire, serverVars>>

\* OnReadDone(false) does not start another read.
OnReadDoneFail ==
    /\ readOp
    /\ rpc = "broken"
    /\ readOp' = FALSE
    /\ UNCHANGED <<bufferVars, pollVars, pending, writeVars, rpc, wire, acks, serverVars>>

\* gRPC calls OnDone when the RPC has ended and no operation or callback of it
\* is outstanding.
OnDone ==
    /\ rpc = "broken"
    /\ ~readOp /\ ~writeOp /\ writeCbs = 0
    /\ rpc' = "done"
    /\ UNCHANGED <<bufferVars, pollVars, pending, writeVars, readOp, wire, acks, serverVars>>

Callback == OnWriteDone \/ OnWriteDoneWrite \/ OnReadDone \/ OnWriteDoneFail \/ OnReadDoneFail \/ OnDone

-----------------------------------------------------------------------------
(* The server's StreamMetrics handler: receive, publish, acknowledge.      *)

ServerRecv ==
    /\ srv = Receiving
    /\ wire # <<>>
    /\ wire' = Tail(wire)
    /\ received' = [received EXCEPT ![Head(wire).key] = @ \o Head(wire).samples]
    /\ srv' = Acking(Head(wire).id)
    /\ UNCHANGED <<bufferVars, pollVars, pending, writeVars, readOp, rpc, acks>>

ServerAck ==
    /\ srv.pc = "ack"
    /\ rpc = "open"
    /\ acks' = Append(acks, [id |-> srv.id])
    /\ srv' = Receiving
    /\ UNCHANGED <<bufferVars, pollVars, pending, writeVars, readOp, rpc, wire, received>>

\* Recv or Send returns an error and the handler with it.
ServerReturn ==
    /\ srv # Returned
    /\ rpc # "open"
    /\ srv' = Returned
    /\ UNCHANGED <<bufferVars, pollVars, pending, writeVars, readOp, rpc, wire, acks, received>>

Server == ServerRecv \/ ServerAck \/ ServerReturn

-----------------------------------------------------------------------------
(* The environment: the connection is lost or the server stops the RPC.    *)

Break ==
    /\ rpc = "open"
    /\ rpc' = "broken"
    /\ UNCHANGED <<bufferVars, pollVars, pending, writeVars, readOp, wire, acks, serverVars>>

-----------------------------------------------------------------------------
Init ==
    /\ series = [k \in Keys |-> NewSeries]
    /\ keys = {}
    /\ pollPc = "idle"
    /\ todo = {}
    /\ cur = NoBatch
    /\ batchId = 0
    /\ pending = {}
    /\ writerqu = <<>>
    /\ writing = FALSE
    /\ writeOp = FALSE
    /\ writeCbs = 0
    /\ readOp = TRUE
    /\ rpc = "open"
    /\ wire = <<>>
    /\ acks = <<>>
    /\ srv = Receiving
    /\ received = [k \in Keys |-> <<>>]
    /\ dropped = [k \in Keys |-> {}]

Next ==
    \/ \E ms \in SUBSET (Keys \cup {Unspecified}) : AddMetrics(ms)
    \/ Poll
    \/ Callback
    \/ Server
    \/ Break

\* poll_thread_ loops for ever with finite sleeps; gRPC completes every
\* operation of an open RPC and runs each callback on a thread of its pool; the
\* handler never blocks on the bus.  Nothing obliges the scheduler to produce a
\* sample or the connection to break.
Fairness ==
    /\ WF_vars(Poll)
    /\ WF_vars(OnWriteDone) /\ WF_vars(OnWriteDoneWrite) /\ WF_vars(OnReadDone)
    /\ WF_vars(ServerRecv) /\ WF_vars(ServerAck)

Spec == Init /\ [][Next]_vars

FairSpec == Spec /\ Fairness

-----------------------------------------------------------------------------
(* Properties                                                              *)

BatchType == [id : Nat, key : Keys, samples : Seq(Nat), end : Nat]

\* Every variable has its type; in particular a batch never carries the content
\* of a slot of the ring that was never written (GetSnapshot, buffer.cc).
TypeOK ==
    /\ series \in [Keys -> SeriesType]
    /\ keys \in SUBSET Keys
    /\ pollPc \in {"idle", "round", "register", "push", "write"}
    /\ todo \in SUBSET Keys
    /\ cur \in BatchType \cup {NoBatch}
    /\ pollPc \in {"register", "push"} <=> cur # NoBatch
    /\ batchId \in Nat
    /\ pending \in SUBSET [id : Nat, key : Keys, end : Nat]
    /\ writerqu \in Seq(BatchType)
    /\ writing \in BOOLEAN
    /\ writeOp \in BOOLEAN
    /\ writeCbs \in Nat
    /\ readOp \in BOOLEAN
    /\ rpc \in {"open", "broken", "done"}
    /\ wire \in Seq(BatchType)
    /\ acks \in Seq([id : Nat])
    /\ srv \in [pc : {"recv", "ack", "returned"}, id : Nat]
    /\ received \in [Keys -> Seq(Nat)]
    /\ dropped \in [Keys -> SUBSET Nat]

\* Whatever the scheduler, the poll thread and a late acknowledgement do to it,
\* a ring holds at most Cap unsent samples and its last Cap samples are the
\* ones last pushed: no snapshot and no LatestSamples reads a stale slot.
RingsIntact == \A k \in Keys : RingIntact(series[k])

\* The batch ids in a sequence of batches or of acknowledgements.
IdsOf(msgs) == {msgs[i].id : i \in DOMAIN msgs}

\* The batch the server has published and not yet acknowledged.
ServerIds == IF srv.pc = "ack" THEN {srv.id} ELSE {}

\* An acknowledgement always finds its snapshot in pending_snapshots_: the batch
\* is registered before any thread can send it.  (OnReadDone has a branch for
\* "ACK for unknown batch_id" with a comment that it may be a normal occurrence.)
AckKnown ==
    \A id \in IdsOf(acks) \cup ServerIds : \E p \in pending : p.id = id

\* A sample below tail_ is settled: the server published it, or the agent
\* overwrote it when the ring was full.  No acknowledgement settles a sample
\* that was pushed after its snapshot.
NothingLostSilently ==
    \A k \in Keys : \A n \in 1 .. series[k].tail : n \in Stamps(received[k]) \cup dropped[k]

\* No lost wakeup between the queue and the three places that call Write: a
\* queued batch that nobody is sending always has a thread about to send it.
NoLostWrite ==
    writerqu # <<>> /\ ~writing => writeCbs > 0 \/ pollPc # "idle"

\* writerqu_ stays bounded even when the connection hangs: at most one batch per
\* series, and the batch whose acknowledgement overtook its OnWriteDone.
BoundedQueue == Len(writerqu) <= Cardinality(Keys) + 1

\* The batches of writerqu_ that no StartWrite has been called for.
Unsent == IF writing THEN Tail(writerqu) ELSE writerqu

CurIds == IF pollPc \in {"register", "push"} THEN {cur.id} ELSE {}
PendingIds == {p.id : p \in pending}

Ascending(msgs) == \A i, j \in DOMAIN msgs : i < j => msgs[i].id < msgs[j].id
Below(S, T) == \A x \in S, y \in T : x < y

\* A write under way is the write of the head of writerqu_.
WriterOK ==
    /\ writeOp => writing
    /\ writing => writerqu # <<>>

\* A snapshot never ends beyond the samples that exist.
SnapshotsOK ==
    /\ \A p \in pending : p.end <= series[p.key].head
    /\ cur # NoBatch => cur.end <= series[cur.key].head

\* A batch travels from the poll thread through the queue, the connection and
\* the server back to the agent in the order of its id, is in one place at a
\* time, and is registered from before it is queued until it is acknowledged.
PipelineOK ==
    /\ Ascending(acks) /\ Ascending(wire) /\ Ascending(Unsent)
    /\ Below(IdsOf(acks), ServerIds \cup IdsOf(wire) \cup IdsOf(Unsent) \cup CurIds)
    /\ Below(ServerIds, IdsOf(wire) \cup IdsOf(Unsent) \cup CurIds)
    /\ Below(IdsOf(wire), IdsOf(Unsent) \cup CurIds)
    /\ Below(IdsOf(Unsent), CurIds)
    /\ Below(IdsOf(acks) \cup ServerIds \cup IdsOf(wire) \cup IdsOf(Unsent) \cup CurIds
               \cup PendingIds, {batchId})
    /\ IdsOf(acks) \cup ServerIds \cup IdsOf(wire) \cup IdsOf(Unsent) \subseteq PendingIds
    /\ pollPc = "push" => cur.id \in PendingIds

\* The inductive invariant behind the theorems of StreamMetricsProofs: what the
\* reactor's two locks, three callers of Write and FIFO stream keep together.
IndInv == TypeOK /\ RingsIntact /\ WriterOK /\ SnapshotsOK /\ PipelineOK /\ NoLostWrite

Stream == INSTANCE SampleStream
            WITH produced  <- [k \in Keys |-> series[k].head],
                 published <- received

\* The data path implements the abstract stream: the bus sees runs of
\* consecutive samples, in order, none twice, whatever is dropped or broken.
StreamSpec == Stream!Spec

\* While the RPC lives, every sample taken is eventually published or, when the
\* ring overflows first, dropped.
EverySampleSettled ==
    \A k \in Keys : \A n \in 1 .. MaxSamples[k] :
        series[k].head >= n ~> n \in Stamps(received[k]) \cup dropped[k] \/ rpc # "open"

=============================================================================
