---------------------------- MODULE MCUploadSync ----------------------------
(* Small instances of UploadSync for TLC.                                  *)
EXTENDS UploadSync, TLC

Uploaders == Permutations(Client)

=============================================================================
