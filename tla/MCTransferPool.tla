--------------------------- MODULE MCTransferPool ---------------------------
(* Small instances of TransferPool for TLC.                                *)
EXTENDS TransferPool

SshUp    == [kind |-> "upload", via |-> "ssh", name |-> "a"]
HttpUp   == [kind |-> "upload", via |-> "provider", name |-> "a"]
HttpDown == [kind |-> "download", via |-> "provider", name |-> "a"]

\* Staged and promoted remotely, not staged, staged and promoted locally.
EveryPath == {SshUp, HttpUp, HttpDown}
OnlySshUp == {SshUp}
=============================================================================
