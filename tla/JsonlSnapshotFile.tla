------------------------- MODULE JsonlSnapshotFile --------------------------
(***************************************************************************)
(* The file behind core/persistence/JsonlSnapshotStore: what append()      *)
(* leaves in it, complete or broken off, and what readAll().at(-1) makes   *)
(* of it.                                                                  *)
(*                                                                         *)
(* The file is a sequence of symbols: a snapshot is one symbol, a fragment *)
(* of a snapshot is another, and NewLine ends a line.  A line parses       *)
(* exactly when it is a single snapshot; two snapshots, or a fragment and  *)
(* a snapshot, on one line do not.                                         *)
(***************************************************************************)
EXTENDS Integers, Sequences, FiniteSetsExt, JsonlSnapshotStore

CONSTANTS
  Payloads,    \* complete states an owner may append
  Blank,       \* what a restart assumes when no line parses
  MaxLength    \* bound on the file's symbols

NewLine == "newline"
Fragment == "fragment"

ASSUME PayloadsAssumption == {NewLine, Fragment, Blank} \cap Payloads = {}

VARIABLE file

\* append(payload): one line, written by one appendFileSync.
Append1(s) ==
  /\ Len(file) + 2 <= MaxLength
  /\ file' = file \o <<s, NewLine>>

\* The write throws, or the process dies in it, after some of the line.
AppendBreaksOff(s) ==
  /\ Len(file) + 1 <= MaxLength
  /\ file' \in {file, file \o <<Fragment>>, file \o <<s>>}

Init == file = <<>>
Next == \E s \in Payloads : Append1(s) \/ AppendBreaksOff(s)
Spec == Init /\ [][Next]_file

\* Reading splits at newlines and keeps the lines that parse.
Starts(i) == i = 1 \/ file[i - 1] = NewLine
Ends(i) == i = Len(file) \/ file[i + 1] = NewLine
Parses(i) == file[i] \in Payloads /\ Starts(i) /\ Ends(i)
Newest(S) == IF S = {} THEN Blank ELSE file[Max(S)]

ReadLast == Newest({i \in DOMAIN file : Parses(i)})

\* The summary of module JsonlSnapshotStore.
Terminated(i) == i < Len(file) /\ Parses(i)
Base == Newest({i \in DOMAIN file : Terminated(i)})
Tail1 ==
  IF file = <<>> \/ file[Len(file)] = NewLine THEN "clean"
  ELSE IF Parses(Len(file)) THEN "open" ELSE "torn"

Summary == [base |-> Base, tail |-> Tail1,
            tip |-> IF Tail1 = "open" THEN file[Len(file)] ELSE Base]

Disk == INSTANCE JsonlSnapshotDisk WITH disk <- Summary

\* Every append, complete or not, changes the file as the summary says: the
\* three fields are all a restart and the next append depend on.
SummaryIsExact == Disk!Spec

\* A restart reads what the summary restores.
RestartReadsSummary == ReadLast = Restored(Summary)
=============================================================================
