--------------------------- MODULE MCEventBusHub ----------------------------
(* Model values for the runs of EventBusHub.                               *)
EXTENDS EventBusHub, TLC

CONSTANTS c1, c2, p1

MCClients == {c1, c2}

\* Browsers are interchangeable.
MCSymmetry == Permutations(MCClients)

=============================================================================
