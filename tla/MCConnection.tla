---------------------------- MODULE MCConnection ----------------------------
(* Instances of Connection for TLC: attempts are interchangeable.          *)
EXTENDS Connection, TLC

Symmetry == Permutations(Attempts)

=============================================================================
