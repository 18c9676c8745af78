--------------------- MODULE JsonlSnapshotStoreTheorems ---------------------
(* Facts about the operators of JsonlSnapshotStore that the proofs of its    *)
(* users cite.                                                               *)
EXTENDS JsonlSnapshotStore, TLAPS

\* A settled journal, an append that returns and an append that breaks off all
\* leave a disk of snapshots, and a restart restores one of them.
LEMMA DiskTypes ==
  ASSUME NEW S, NEW s \in S, NEW d \in DiskOf(S)
  PROVE  /\ Settled(s) \in DiskOf(S)
         /\ Appended(d, s) \in DiskOf(S)
         /\ BrokenOff(d, s) \subseteq DiskOf(S)
         /\ Restored(d) \in S
<1>1. Settled(s) \in DiskOf(S)
  BY DEF Settled, DiskOf, TailKinds
<1>2. d.base \in S /\ d.tip \in S
  BY DEF DiskOf
<1>3. Appended(d, s) \in DiskOf(S)
  BY <1>1, <1>2 DEF Appended, Settled, DiskOf, TailKinds
<1>4. BrokenOff(d, s) \subseteq DiskOf(S)
  BY <1>2 DEF BrokenOff, DiskOf, TailKinds
<1>5. Restored(d) \in S
  BY <1>2 DEF Restored
<1> QED BY <1>1, <1>3, <1>4, <1>5

\* What a restart reads back is a snapshot or the blank one.
LEMMA ReadTypes ==
  ASSUME NEW S, NEW d \in DiskOf(S), NEW blank \in S, NEW canFail
  PROVE  ReadBack(d, blank, canFail) \subseteq S
BY DiskTypes DEF ReadBack, DiskOf
=============================================================================
