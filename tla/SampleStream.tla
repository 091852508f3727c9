---------------------------- MODULE SampleStream ----------------------------
(***************************************************************************)
(* What the metric stream promises to whoever reads the server's event     *)
(* bus, with none of the machinery that delivers it.  For every series the *)
(* agent produces samples 1, 2, 3, ...; what the server has published so   *)
(* far only ever grows by whole runs of consecutive samples, each run      *)
(* after everything published before it.  Samples may be skipped (the      *)
(* agent's ring is finite), but never repeated, reordered or invented.     *)
(***************************************************************************)
EXTENDS Integers, Sequences

CONSTANT Keys        \* the metric series (metric type and device)

VARIABLES
    produced,        \* produced[k]: the number of samples of k ever taken
    published        \* published[k]: the sample numbers put on the bus, in order

vars == <<produced, published>>

Init ==
    /\ produced = [k \in Keys |-> 0]
    /\ published = [k \in Keys |-> <<>>]

\* One collection round: each series gains at most one sample.
Produce ==
    /\ \E ks \in SUBSET Keys :
         produced' = [k \in Keys |-> IF k \in ks THEN produced[k] + 1 ELSE produced[k]]
    /\ UNCHANGED published

\* The consecutive samples lo .. hi.
Run(lo, hi) == [i \in 1 .. hi - lo + 1 |-> lo + i - 1]

\* One batch: a run of one series, after everything published of it.
Publish ==
    /\ \E k \in Keys : \E hi \in 1 .. produced[k] : \E lo \in 1 .. hi :
         /\ \A i \in DOMAIN published[k] : published[k][i] < lo
         /\ published' = [published EXCEPT ![k] = @ \o Run(lo, hi)]
    /\ UNCHANGED produced

Next == Produce \/ Publish

Spec == Init /\ [][Next]_vars

=============================================================================
