--------------------------- MODULE MCControlPlane ---------------------------
(* Model values for the runs of ControlPlane.                              *)
EXTENDS ControlPlane, TLC

CONSTANTS u1, u2, u3

MCIds == {u1, u2, u3}

\* No file yet, or a file left by an earlier installation.  The file becomes an
\* empty one when SaveUUID fails to write it, and the second start finds that.
MCFiles == {NoId, u1}

\* The UUIDs no file holds are interchangeable.
MCSymmetry == Permutations({u2, u3})

=============================================================================
