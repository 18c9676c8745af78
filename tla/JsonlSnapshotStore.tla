------------------------- MODULE JsonlSnapshotStore -------------------------
(***************************************************************************)
(* What one JSONL snapshot journal (core/persistence/JsonlSnapshotStore)   *)
(* holds, as far as a restart can tell.  Every append writes the complete  *)
(* state of its owner as one line, and a restart keeps the newest line     *)
(* that still parses.  A write that breaks off leaves a line without its   *)
(* newline; nothing repairs that tail, so the next append is glued to it.  *)
(*                                                                         *)
(* A disk is summarised by three fields:                                   *)
(*   base  the newest snapshot on a line that ends in a newline,           *)
(*   tail  what follows the last newline: nothing ("clean"), a fragment    *)
(*         that does not parse ("torn"), or a whole snapshot whose newline *)
(*         is missing ("open"),                                            *)
(*   tip   that unterminated snapshot when tail = "open", base otherwise.  *)
(* Module JsonlSnapshotFile models the file line by line and implements    *)
(* this summary.                                                           *)
(***************************************************************************)

TailKinds == {"clean", "torn", "open"}

DiskOf(S) == [base : S, tail : TailKinds, tip : S]

\* A journal whose newest terminated snapshot is s and whose tail is clean.
Settled(s) == [base |-> s, tail |-> "clean", tip |-> s]

\* Seeded fault: the reader drops a line without its newline.
RestoredTerminated(d) == d.base

\* readAll().at(-1): a final line parses without its newline, a torn one is
\* counted as malformed and skipped.
Restored(d) == IF d.tail = "open" THEN d.tip ELSE d.base

\* readAll() itself, whose catch block turns a file that cannot be read into an
\* empty journal: the owner starts from `blank'.
ReadBack(d, blank, canFail) == {Restored(d)} \cup (IF canFail THEN {blank} ELSE {})

\* Seeded fault: append() is believed to start a line of its own.
AppendedAlways(d, s) == Settled(s)

\* append(s) returning normally.  On an unterminated tail the new line is glued
\* to the old fragment and the two parse as nothing.
Appended(d, s) == IF d.tail = "clean" THEN Settled(s) ELSE Settled(d.base)

\* The disks append(s) can leave behind when the write throws or the process
\* dies in it: nothing written, a fragment, or everything but the newline.
BrokenOff(d, s) ==
  {d, [base |-> d.base, tail |-> "torn", tip |-> d.base]}
    \cup (IF d.tail = "clean"
            THEN {[base |-> d.base, tail |-> "open", tip |-> s]} ELSE {})

=============================================================================
