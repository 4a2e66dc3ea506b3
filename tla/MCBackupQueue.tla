---------------------------- MODULE MCBackupQueue ----------------------------
(* Instance of the retry queue for TLC: two destinations.                   *)
EXTENDS BackupProperties
=============================================================================
