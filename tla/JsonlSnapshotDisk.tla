------------------------- MODULE JsonlSnapshotDisk --------------------------
(***************************************************************************)
(* A JSONL snapshot journal as its owners use it: the summary of module    *)
(* JsonlSnapshotStore, changed by appends that return and by appends that  *)
(* break off.                                                              *)
(***************************************************************************)
EXTENDS JsonlSnapshotStore

CONSTANTS Payloads, Blank

VARIABLE disk

Init == disk = Settled(Blank)

Next == \E s \in Payloads : disk' = Appended(disk, s) \/ disk' \in BrokenOff(disk, s)

Spec == Init /\ [][Next]_disk
=============================================================================
