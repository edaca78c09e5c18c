------------------------------ MODULE MCUnlock ------------------------------
(* Instances of Unlock for TLC.                                            *)
EXTENDS Unlock

AllKinds == {"keychain", "keychain_password", "hardware", "paranoid"}

=============================================================================
