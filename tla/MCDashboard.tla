----------------------------- MODULE MCDashboard ----------------------------
(* Model values for the run of Dashboard.                                  *)
EXTENDS Dashboard

CONSTANTS s1, s2, a, b, both

MCServers == {s1, s2}

\* Two agents at each server, one of them at both.
MCAgentsOf == [u \in MCServers |-> IF u = s1 THEN {a, both} ELSE {b, both}]

=============================================================================
