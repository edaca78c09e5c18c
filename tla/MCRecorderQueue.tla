-------------------------- MODULE MCRecorderQueue ---------------------------
(* Instances of RecorderQueue for TLC.                                     *)
EXTENDS RecorderQueue, TLC

\* Deadline timers are interchangeable, and so are the calls of _rotate.
Symmetry == Permutations(Timers) \cup Permutations(Rotors)

=============================================================================
