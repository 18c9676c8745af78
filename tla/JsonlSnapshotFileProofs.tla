---------------------- MODULE JsonlSnapshotFileProofs -----------------------
(***************************************************************************)
(* Proofs about JsonlSnapshotFile, for any snapshots and files of any      *)
(* length: the three fields of the summary are exactly what a restart      *)
(* reads and what the next append depends on.                              *)
(***************************************************************************)
EXTENDS JsonlSnapshotFile, FiniteSums

-----------------------------------------------------------------------------
(* Files *)

Symbols == Payloads \cup {NewLine, Fragment}
TypeOK == file \in Seq(Symbols)

\* The lines that parse, and those of them that end in a newline.
Parsed == {i \in DOMAIN file : Parses(i)}
Complete == {i \in DOMAIN file : Terminated(i)}

\* Neither a fragment nor a newline parses, and they differ.
LEMMA SymbolsDiffer ==
  /\ NewLine \notin Payloads /\ Fragment \notin Payloads
  /\ NewLine # Fragment
  BY PayloadsAssumption DEF NewLine, Fragment

\* What a file is after symbols were added to it.
LEMMA Extended ==
  ASSUME TypeOK, NEW x \in Symbols, NEW y \in Symbols
  PROVE  LET f == file \o <<x>>
             g == file \o <<x, y>>
         IN  /\ f \in Seq(Symbols) /\ g \in Seq(Symbols)
             /\ Len(f) = Len(file) + 1 /\ Len(g) = Len(file) + 2
             /\ \A i \in 1..Len(file) : f[i] = file[i] /\ g[i] = file[i]
             /\ f[Len(file) + 1] = x /\ g[Len(file) + 1] = x /\ g[Len(file) + 2] = y
  BY DEF TypeOK

\* A file is what it was, or grew by a line, or by a part of one.
LEMMA Grown ==
  ASSUME TypeOK, NEW s \in Payloads, Append1(s) \/ AppendBreaksOff(s)
  PROVE  /\ TypeOK'
         /\ \/ Append1(s) /\ file' = file \o <<s, NewLine>>
            \/ file' = file
            \/ \E c \in {s, Fragment} : file' = file \o <<c>>
<1>1. s \in Symbols /\ NewLine \in Symbols /\ Fragment \in Symbols
  BY DEF Symbols
<1>2. \/ Append1(s) /\ file' = file \o <<s, NewLine>>
      \/ file' = file
      \/ \E c \in {s, Fragment} : file' = file \o <<c>>
  BY DEF Append1, AppendBreaksOff
<1>3. /\ file \o <<s, NewLine>> \in Seq(Symbols)
      /\ file \o <<s>> \in Seq(Symbols) /\ file \o <<Fragment>> \in Seq(Symbols)
  BY <1>1, Extended
<1>4. TypeOK'
  BY <1>2, <1>3 DEF TypeOK
<1> QED BY <1>2, <1>4

\* A file is a sequence of symbols.
THEOREM FileTypes == Spec => []TypeOK
<1>1. Init => TypeOK
  BY DEF Init, TypeOK
<1>2. TypeOK /\ [Next]_file => TypeOK'
  BY Grown DEF Next, TypeOK
<1> QED BY <1>1, <1>2, PTL DEF Spec

-----------------------------------------------------------------------------
(* What a restart reads *)

\* Only the last line can parse without its newline.
LEMMA OnlyTheLastIsOpen ==
  ASSUME TypeOK
  PROVE  /\ Complete \subseteq Parsed
         /\ \A i \in Parsed : i # Len(file) => i \in Complete
         /\ Tail1 = "open" => Len(file) \in Parsed
         /\ Tail1 # "open" => Len(file) \notin Parsed
<1>1. DOMAIN file = 1..Len(file) /\ Len(file) \in Nat
  BY DEF TypeOK
<1>2. Complete \subseteq Parsed /\ \A i \in Parsed : i # Len(file) => i \in Complete
  BY <1>1 DEF Complete, Parsed, Terminated
<1>3. file # <<>> => Len(file) \in DOMAIN file
  BY DEF TypeOK
<1>4. Tail1 = "open" => Len(file) \in Parsed
  BY <1>3 DEF Tail1, Parsed
<1>5. Tail1 # "open" => Len(file) \notin Parsed
  <2>1. file = <<>> => DOMAIN file = {}
    OBVIOUS
  <2>2. Parses(Len(file)) => file[Len(file)] # NewLine
    BY SymbolsDiffer DEF Parses
  <2> QED BY <2>1, <2>2 DEF Tail1, Parsed
<1> QED BY <1>2, <1>4, <1>5

\* The newest of a set of lines is one of them.
LEMMA NewestIsIn ==
  ASSUME TypeOK, NEW S \in SUBSET DOMAIN file, S # {}
  PROVE  Max(S) \in S /\ \A i \in S : i <= Max(S)
<1>1. S \in SUBSET Nat /\ Len(file) \in Nat /\ \A i \in S : i <= Len(file)
  BY DEF TypeOK
<1> QED BY <1>1, GreatestNatural

\* readAll().at(-1) of the file is what the summary restores.
LEMMA ReadsSummary ==
  ASSUME TypeOK
  PROVE  RestartReadsSummary
<1>1. ReadLast = Newest(Parsed) /\ Base = Newest(Complete)
  BY DEF ReadLast, Base, Parsed, Complete
<1>2. Restored(Summary) = IF Tail1 = "open" THEN file[Len(file)] ELSE Base
  BY DEF Restored, Summary
<1>3. CASE Tail1 = "open"
  <2>1. Len(file) \in Parsed /\ Len(file) \in Nat /\ Parsed \in SUBSET DOMAIN file
        /\ \A i \in Parsed : i \in Nat /\ i <= Len(file)
    BY <1>3, OnlyTheLastIsOpen DEF TypeOK, Parsed
  <2>2. Max(Parsed) \in Parsed /\ Len(file) <= Max(Parsed)
    BY <2>1, NewestIsIn
  <2>3. Max(Parsed) = Len(file)
    BY <2>1, <2>2
  <2>4. Newest(Parsed) = file[Len(file)]
    BY <2>1, <2>3 DEF Newest
  <2> QED BY <1>1, <1>2, <1>3, <2>4 DEF RestartReadsSummary
<1>4. CASE Tail1 # "open"
  <2>1. Parsed = Complete
    BY <1>4, OnlyTheLastIsOpen
  <2> QED BY <1>1, <1>2, <1>4, <2>1 DEF RestartReadsSummary
<1> QED BY <1>3, <1>4

\* A restart reads what the summary restores: no line that lost its newline, and no
\* line that was glued to another, is counted or missed.
THEOREM RestartsReadTheSummary == Spec => []RestartReadsSummary
<1>1. TypeOK => RestartReadsSummary
  BY ReadsSummary
<1> QED BY <1>1, FileTypes, PTL

-----------------------------------------------------------------------------
(* What an append does to the summary *)

\* An empty file is a journal in which nothing was recorded.
LEMMA SummaryInit ==
  ASSUME file = <<>>
  PROVE  Summary = Settled(Blank)
<1>1. DOMAIN file = {}
  OBVIOUS
<1>2. Base = Blank
  BY <1>1 DEF Base, Newest
<1> QED BY <1>2 DEF Summary, Tail1, Settled

\* Files with the same complete lines have the same newest one.
LEMMA SameBase ==
  ASSUME TypeOK, TypeOK', Complete' = Complete,
         \A i \in DOMAIN file : i \in DOMAIN file' /\ file'[i] = file[i]
  PROVE  Base' = Base
<1>1. Complete \in SUBSET DOMAIN file
  BY DEF Complete
<1>2. Complete # {} => Max(Complete) \in DOMAIN file
  BY <1>1, NewestIsIn
<1>3. Base = (IF Complete = {} THEN Blank ELSE file[Max(Complete)])
  BY DEF Base, Newest, Complete
<1>4. Base' = (IF Complete' = {} THEN Blank ELSE file'[Max(Complete')])
  BY DEF Base, Newest, Complete
<1> QED BY <1>2, <1>3, <1>4

\* What is written after the last symbol, if it is not a newline, keeps the
\* complete lines before it.
LEMMA SameTerminated ==
  ASSUME TypeOK, TypeOK', Len(file) < Len(file'),
         \A i \in DOMAIN file : file'[i] = file[i],
         file'[Len(file) + 1] # NewLine
  PROVE  \A i \in DOMAIN file : i \in DOMAIN file' /\ (Terminated(i)' <=> Terminated(i))
<1>1. /\ Len(file) \in Nat /\ DOMAIN file = 1..Len(file)
      /\ Len(file') \in Nat /\ DOMAIN file' = 1..Len(file')
  BY DEF TypeOK
<1>d. Len(file') # Len(file)
  <2>1. \A a, b \in Nat : a < b => a # b
    OBVIOUS
  <2> QED BY <1>1, <2>1
<1> SUFFICES ASSUME NEW i \in DOMAIN file
             PROVE  i \in DOMAIN file' /\ (Terminated(i)' <=> Terminated(i))
  OBVIOUS
<1>2. i \in DOMAIN file' /\ file'[i] = file[i] /\ (i # 1 => file'[i - 1] = file[i - 1])
  BY <1>1
<1>3. CASE i = Len(file)
  <2>1. ~Terminated(i)
    BY <1>1, <1>3 DEF Terminated
  <2>2. i # Len(file')
    BY <1>d, <1>3
  <2>3. file'[i + 1] # NewLine
    BY <1>3
  <2> QED BY <1>2, <2>1, <2>2, <2>3 DEF Terminated, Parses, Ends
<1>4. CASE i # Len(file)
  <2>1. /\ i + 1 \in DOMAIN file /\ file'[i + 1] = file[i + 1]
        /\ i < Len(file) /\ i < Len(file') /\ i # Len(file')
    BY <1>1, <1>4
  <2> QED BY <1>2, <1>4, <2>1 DEF Terminated, Parses, Starts, Ends
<1> QED BY <1>3, <1>4

\* A whole line on a file that ends in a newline, or is empty, becomes its newest
\* complete line.
LEMMA AppendsToClean ==
  ASSUME TypeOK, TypeOK', NEW s \in Payloads, file' = file \o <<s, NewLine>>, Tail1 = "clean"
  PROVE  Base' = s
<1>0. PICK n \in Nat : n = Len(file)
  BY DEF TypeOK
<1>1. /\ Len(file') = n + 2 /\ DOMAIN file' = 1..(n + 2)
      /\ \A i \in 1..n : file'[i] = file[i]
      /\ file'[n + 1] = s /\ file'[n + 2] = NewLine
  <2>1. s \in Symbols /\ NewLine \in Symbols
    BY DEF Symbols
  <2> QED BY <1>0, <2>1, Extended DEF TypeOK
<1>2. n = 0 \/ file'[n] = NewLine
  BY <1>0, <1>1 DEF TypeOK, Tail1
<1>3. n + 1 = 1 \/ file'[(n + 1) - 1] = NewLine
  <2>1. (n + 1) - 1 = n /\ (n = 0 => n + 1 = 1)
    OBVIOUS
  <2> QED BY <1>2, <2>1
<1>4. file'[n + 1] \in Payloads /\ file'[(n + 1) + 1] = NewLine /\ n + 1 < Len(file')
  <2>1. (n + 1) + 1 = n + 2 /\ n + 1 < n + 2
    OBVIOUS
  <2> QED BY <1>1, <2>1
<1>5. n + 1 \in DOMAIN file'
  BY <1>1
<1>6. n + 1 \in Complete'
  BY <1>3, <1>4, <1>5 DEF Complete, Terminated, Parses, Starts, Ends
<1>7. \A i \in Complete' : i \in Nat /\ i <= n + 1
  BY <1>1 DEF Complete, Terminated
<1> DEFINE S == Complete'
<1>8. S \in SUBSET Nat /\ S # {} /\ n + 1 \in Nat /\ \A i \in S : i <= n + 1
  BY <1>1, <1>6, <1>7
<1>9. Base' = IF S = {} THEN Blank ELSE file'[Max(S)]
  BY DEF Base, Newest, Complete
<1>10. n + 1 \in S
  BY <1>6
<1> HIDE DEF S
<1>11. Max(S) \in S /\ \A i \in S : i <= Max(S)
  BY <1>8, GreatestNatural
<1>12. Max(S) = n + 1
  <2>1. Max(S) \in Nat /\ Max(S) <= n + 1 /\ n + 1 <= Max(S)
    BY <1>8, <1>10, <1>11
  <2> QED BY <2>1
<1> QED BY <1>1, <1>8, <1>9, <1>12

\* A whole line on an unterminated one is glued to it: the two parse as nothing.
LEMMA AppendsToUnterminated ==
  ASSUME TypeOK, TypeOK', NEW s \in Payloads, file' = file \o <<s, NewLine>>, Tail1 # "clean"
  PROVE  Base' = Base
<1>0. PICK n \in Nat : n = Len(file)
  BY DEF TypeOK
<1>1. /\ Len(file') = n + 2 /\ DOMAIN file' = 1..(n + 2) /\ DOMAIN file = 1..n
      /\ \A i \in 1..n : file'[i] = file[i]
      /\ file'[n + 1] = s /\ file'[n + 2] = NewLine
  <2>1. s \in Symbols /\ NewLine \in Symbols
    BY DEF Symbols
  <2> QED BY <1>0, <2>1, Extended DEF TypeOK
<1>2. n # 0 /\ file'[n] # NewLine
  BY <1>0, <1>1 DEF TypeOK, Tail1
<1>3. s # NewLine
  BY SymbolsDiffer
<1>4. \A i \in DOMAIN file : i \in DOMAIN file' /\ (Terminated(i)' <=> Terminated(i))
  BY <1>1, <1>3, SameTerminated
<1>5. ~Parses(n + 1)' /\ ~Parses(n + 2)'
  <2>1. n + 1 # 1 /\ file'[(n + 1) - 1] # NewLine /\ file'[n + 2] \notin Payloads
    BY <1>1, <1>2, SymbolsDiffer
  <2> QED BY <2>1 DEF Parses, Starts
<1>6. \A i \in DOMAIN file' : i \in DOMAIN file \/ i = n + 1 \/ i = n + 2
  <2>1. \A i \in 1..(n + 2) : i \in 1..n \/ i = n + 1 \/ i = n + 2
    OBVIOUS
  <2> QED BY <1>1, <2>1
<1>7. Complete' = Complete
  BY <1>4, <1>5, <1>6 DEF Complete, Terminated
<1>8. \A i \in DOMAIN file : i \in DOMAIN file' /\ file'[i] = file[i]
  BY <1>1
<1> QED BY <1>7, <1>8, SameBase

\* A complete append changes the summary as Appended() says.
LEMMA AppendStep ==
  ASSUME TypeOK, TypeOK', NEW s \in Payloads, file' = file \o <<s, NewLine>>
  PROVE  Summary' = Appended(Summary, s)
<1>1. Tail1' = "clean"
  <2>1. file' # <<>> /\ file'[Len(file')] = NewLine
    BY DEF TypeOK
  <2> QED BY <2>1 DEF Tail1
<1>2. Summary' = Settled(Base')
  BY <1>1 DEF Summary, Settled
<1>3. Appended(Summary, s) = IF Tail1 = "clean" THEN Settled(s) ELSE Settled(Base)
  BY DEF Appended, Summary
<1> QED BY <1>2, <1>3, AppendsToClean, AppendsToUnterminated

\* An append that breaks off changes it as BrokenOff() says: a fragment tears the
\* tail, and everything but the newline leaves it open if it was clean.
LEMMA BreakStep ==
  ASSUME TypeOK, TypeOK', NEW s \in Payloads, NEW c \in {s, Fragment}, file' = file \o <<c>>
  PROVE  Summary' \in BrokenOff(Summary, s)
<1>0. PICK n \in Nat : n = Len(file)
  BY DEF TypeOK
<1>1. /\ Len(file') = n + 1 /\ DOMAIN file' = 1..(n + 1) /\ DOMAIN file = 1..n
      /\ \A i \in 1..n : file'[i] = file[i]
      /\ file'[n + 1] = c
  <2>1. c \in Symbols
    BY DEF Symbols
  <2> QED BY <1>0, <2>1, Extended DEF TypeOK
<1>2. c # NewLine
  BY SymbolsDiffer
<1>3. \A i \in DOMAIN file : i \in DOMAIN file' /\ (Terminated(i)' <=> Terminated(i))
  BY <1>1, <1>2, SameTerminated
<1>4. Base' = Base
  <2>1. \A i \in DOMAIN file' : i \in DOMAIN file \/ i = n + 1
    <3>1. \A i \in 1..(n + 1) : i \in 1..n \/ i = n + 1
      OBVIOUS
    <3> QED BY <1>1, <3>1
  <2>2. ~Terminated(n + 1)'
    BY <1>1 DEF Terminated
  <2>3. Complete' = Complete
    BY <1>3, <2>1, <2>2 DEF Complete
  <2>4. \A i \in DOMAIN file : i \in DOMAIN file' /\ file'[i] = file[i]
    BY <1>1
  <2> QED BY <2>3, <2>4, SameBase
<1>5. Tail1' = IF c = s /\ Tail1 = "clean" THEN "open" ELSE "torn"
  <2>1. file' # <<>> /\ file'[Len(file')] = c
    BY <1>1
  <2>2. Starts(n + 1)' <=> Tail1 = "clean"
    <3>1. (n + 1) - 1 = n /\ (n + 1 = 1 <=> file = <<>>) /\ (n # 0 => file'[n] = file[n])
      BY <1>0, <1>1 DEF TypeOK
    <3>2. Starts(n + 1)' <=> (file = <<>> \/ file[n] = NewLine)
      BY <1>0, <1>1, <3>1 DEF Starts
    <3> QED BY <1>0, <3>2 DEF Tail1
  <2>3. Ends(n + 1)'
    BY <1>1 DEF Ends
  <2>4. Parses(n + 1)' <=> c \in Payloads /\ Tail1 = "clean"
    BY <1>1, <2>2, <2>3 DEF Parses
  <2>5. c \in Payloads <=> c = s
    BY SymbolsDiffer
  <2>6. Len(file') = n + 1
    BY <1>1
  <2> QED BY <1>2, <2>1, <2>4, <2>5, <2>6 DEF Tail1
<1>6. file'[Len(file')] = c
  BY <1>1
<1>7. Summary' = [base |-> Base, tail |-> Tail1', tip |-> IF Tail1' = "open" THEN c ELSE Base]
  BY <1>4, <1>6 DEF Summary
<1>8. Summary.base = Base /\ Summary.tail = Tail1
  BY DEF Summary
<1> QED BY <1>5, <1>7, <1>8 DEF BrokenOff

\* The file implements the journal its owners use: each append, complete or broken
\* off, changes what a restart and the next append depend on as JsonlSnapshotDisk
\* says, for any snapshots and however often writes break off.
THEOREM SummaryStaysExact == Spec => SummaryIsExact
<1>1. Init => Disk!Init
  BY SummaryInit DEF Init, Disk!Init, Disk!Settled, Settled
<1>2. TypeOK /\ [Next]_file => [Disk!Next]_Summary
  <2> SUFFICES ASSUME TypeOK, [Next]_file PROVE [Disk!Next]_Summary
    OBVIOUS
  <2>1. CASE file' = file
    BY <2>1 DEF Summary, Base, Tail1, Newest, Terminated, Parses, Starts, Ends
  <2>2. ASSUME NEW s \in Payloads, Append1(s) \/ AppendBreaksOff(s), file' # file
        PROVE  Summary' = Appended(Summary, s) \/ Summary' \in BrokenOff(Summary, s)
    <3>1. /\ TypeOK'
          /\ \/ file' = file \o <<s, NewLine>>
             \/ \E c \in {s, Fragment} : file' = file \o <<c>>
      BY <2>2, Grown
    <3> QED BY <3>1, AppendStep, BreakStep
  <2>3. CASE Next /\ file' # file
    <3>1. PICK s \in Payloads : Summary' = Appended(Summary, s) \/ Summary' \in BrokenOff(Summary, s)
      BY <2>2, <2>3 DEF Next
    <3> QED BY <3>1 DEF Disk!Next, Disk!Appended, Disk!BrokenOff, Disk!Settled,
                        Appended, BrokenOff, Settled
  <2> QED BY <2>1, <2>3
<1> QED BY <1>1, <1>2, FileTypes, PTL DEF Spec, SummaryIsExact, Disk!Spec
=============================================================================
