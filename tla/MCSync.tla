------------------------------- MODULE MCSync -------------------------------
(* Instances of Sync for TLC.                                              *)
EXTENDS Sync, TLC

CONSTANTS d1, d2, s, t

TwoDevices == {d1, d2}
Swap == Permutations(TwoDevices)

=============================================================================
