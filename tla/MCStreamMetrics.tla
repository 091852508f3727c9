--------------------------- MODULE MCStreamMetrics --------------------------
(* Model values and bounds for the runs of StreamMetrics.                  *)
EXTENDS StreamMetrics

CONSTANTS k1, k2

MCKeys == {k1, k2}

\* One series that overflows a ring of two slots twice over, beside another one that fills it.
MCOverflow == [k \in MCKeys |-> IF k = k1 THEN 4 ELSE 2]

\* Two series that both overflow a ring of one slot.
MCBoth == [k \in MCKeys |-> 2]

=============================================================================
