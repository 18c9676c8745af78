------------------------ MODULE MCJsonlSnapshotFile -------------------------
(* JsonlSnapshotFile for TLC: two snapshots and files of a few lines, enough *)
(* for two broken writes with complete ones before, between and after.       *)
EXTENDS JsonlSnapshotFile
=============================================================================
