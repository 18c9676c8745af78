---------------------- MODULE StrategyOneTinyLiveProofs ---------------------
(***************************************************************************)
(* Proofs about StrategyOneTinyLive, for any number of attempts, any daily *)
(* cap, any number of crashes and every fault: one attempt at a time, each *)
(* dispatch authorized, verdicts and resolutions that agree with the two   *)
(* exchanges, a gate that exposure keeps closed, and the daily cap.        *)
(***************************************************************************)
EXTENDS StrategyOneTinyLive, FiniteSetTheorems, TLAPS

-----------------------------------------------------------------------------
(* The authority's journal *)

Logs == [Attempts -> Seq(AuthorityStates)]

\* An append is the new state of its authority and of no other, and keeps what
\* was ever recorded.
LEMMA JournalsRecords ==
  ASSUME journal \in Logs, NEW a \in Attempts, NEW state \in AuthorityStates,
         Journals(a, state)
  PROVE  /\ journal' \in Logs
         /\ State(a)' = state
         /\ \A b \in Attempts \ {a} : State(b)' = State(b)
         /\ Ever(a, state)'
         /\ \A b \in Attempts, s \in AuthorityStates : Ever(b, s) => Ever(b, s)'
<1> DEFINE log == Append(journal[a], state)
<1>1. /\ log \in Seq(AuthorityStates) /\ Len(log) = Len(journal[a]) + 1
      /\ log[Len(log)] = state /\ log # <<>>
      /\ \A i \in DOMAIN journal[a] : i \in DOMAIN log /\ log[i] = journal[a][i]
      /\ Len(log) \in DOMAIN log
  BY DEF Logs
<1>2. journal'[a] = log /\ \A b \in Attempts \ {a} : journal'[b] = journal[b]
  BY DEF Journals, Logs
<1>3. journal' \in Logs
  BY <1>1 DEF Journals, Logs
<1> HIDE DEF log
<1>4. Ever(a, state)'
  BY <1>1, <1>2 DEF Ever
<1>5. ASSUME NEW b \in Attempts, NEW s \in AuthorityStates, Ever(b, s) PROVE Ever(b, s)'
  <2>1. CASE b = a
    BY <1>1, <1>2, <1>5, <2>1 DEF Ever
  <2>2. CASE b # a
    BY <1>2, <1>5, <2>2 DEF Ever
  <2> QED BY <2>1, <2>2
<1>6. State(a)' = state /\ \A b \in Attempts \ {a} : State(b)' = State(b)
  BY <1>1, <1>2 DEF State
<1> QED BY <1>3, <1>4, <1>5, <1>6

\* No append leaves every state as it was.
LEMMA JournalKept ==
  ASSUME UNCHANGED journal
  PROVE  /\ \A a \in Attempts : State(a)' = State(a)
         /\ \A a \in Attempts, s \in AuthorityStates : Ever(a, s)' = Ever(a, s)
BY DEF State, Ever

-----------------------------------------------------------------------------
(* One attempt at a time *)

\* What hasBlockingAuthority looks for.
Blocks(a) ==
  \/ State(a) = "AUTHORIZED" /\ a \notin lapsed
  \/ State(a) \in Unsettled

\* Inductive: consume() looks for no other attempt, but what it consumes is itself
\* an authority that blocked every other since it was issued.
OneInv ==
  /\ journal \in Logs
  /\ \A a, b \in Attempts : Blocks(a) /\ Blocks(b) => a = b

\* The actions that append to the authority journal.
Records(a) ==
  \/ Preview(a) \/ Authorize(a) \/ Cancel(a) \/ Resolve(a)
  \/ Consume(a) \/ Block(a) \/ BindPair(a) \/ Finalize(a)

\* Every step that is not one of them, nor a lapse, leaves journal and TTLs alone.
LEMMA OthersKeepAuthorities ==
  ASSUME [Next]_vars, \A a \in Attempts : ~Records(a) /\ ~Lapse(a)
  PROVE  UNCHANGED authorityVars
<1>1. ASSUME NEW a \in Attempts, Operator(a) \/ Coordinator(a) PROVE UNCHANGED authorityVars
  BY <1>1 DEF Operator, Coordinator, Records, Prepare
<1>2. ASSUME NEW a \in Attempts, Pair(a) PROVE UNCHANGED authorityVars
  BY <1>2 DEF Pair, CrossBoundary, FinishPair
<1>3. ASSUME NEW a \in Attempts, Resolution(a) PROVE UNCHANGED authorityVars
  BY <1>3 DEF Resolution, ResolveSession, PersistResolution
<1>4. ASSUME NEW a \in Attempts, NEW l \in Legs, Leg(a, l) PROVE UNCHANGED authorityVars
  BY <1>4 DEF Leg, CallLeg, CreateAccepted, CreateRefused, ReplyLost, PollEnds, ReadEnds, Decide
<1>5. CASE Restart
  BY <1>5 DEF Restart
<1>6. CASE UNCHANGED vars
  BY <1>6 DEF vars
<1> QED BY <1>1, <1>2, <1>3, <1>4, <1>5, <1>6 DEF Next

\* What any of them does: nothing, or the append of a state that blocks only if its
\* attempt did, or if nothing did.
LEMMA RecordsBlock ==
  ASSUME NEW a \in Attempts, Records(a)
  PROVE  /\ UNCHANGED lapsed
         /\ \/ UNCHANGED journal
            \/ \E state \in AuthorityStates :
                 /\ Journals(a, state)
                 /\ state \in Unsettled \cup {"AUTHORIZED"} =>
                      Blocks(a) \/ \A b \in Attempts : ~Blocks(b)
<1> USE DEF AuthorityStates, Unsettled
<1>1. CASE Preview(a)
  BY <1>1 DEF Preview
<1>2. CASE Authorize(a)
  BY <1>2 DEF Authorize, hasBlockingAuthority, Blocks
<1>3. CASE Cancel(a)
  BY <1>3 DEF Cancel
<1>4. CASE Resolve(a)
  BY <1>4 DEF Resolve
<1>5. CASE Consume(a)
  BY <1>5 DEF Consume, Blocks
<1>6. CASE Block(a)
  BY <1>6 DEF Block
<1>7. CASE BindPair(a)
  BY <1>7 DEF BindPair, Blocks
<1>8. CASE Finalize(a)
  BY <1>8 DEF Finalize, Blocks
<1> QED BY <1>1, <1>2, <1>3, <1>4, <1>5, <1>6, <1>7, <1>8 DEF Records

\* Every step keeps the one-attempt invariant.
LEMMA OneStep == OneInv /\ [Next]_vars => OneInv'
<1> SUFFICES ASSUME OneInv, [Next]_vars PROVE OneInv'
  OBVIOUS
<1>1. ASSUME NEW a \in Attempts, Records(a) PROVE OneInv'
  <2>0. UNCHANGED lapsed
    BY <1>1, RecordsBlock
  <2>1. CASE UNCHANGED journal
    BY <2>0, <2>1, JournalKept DEF OneInv, Blocks
  <2>2. ASSUME NEW state \in AuthorityStates, Journals(a, state),
               state \in Unsettled \cup {"AUTHORIZED"} =>
                 Blocks(a) \/ \A b \in Attempts : ~Blocks(b)
        PROVE  OneInv'
    <3>1. /\ journal' \in Logs /\ State(a)' = state
          /\ \A b \in Attempts \ {a} : State(b)' = State(b)
      BY <2>2, JournalsRecords DEF OneInv
    <3>2. ASSUME NEW b \in Attempts \ {a} PROVE Blocks(b)' => Blocks(b)
      BY <2>0, <3>1 DEF Blocks
    <3>3. Blocks(a)' => Blocks(a) \/ \A b \in Attempts : ~Blocks(b)
      BY <2>2, <3>1 DEF Blocks
    <3> QED BY <3>1, <3>2, <3>3 DEF OneInv
  <2> QED BY <1>1, <2>1, <2>2, RecordsBlock
<1>2. ASSUME NEW a \in Attempts, Lapse(a) PROVE OneInv'
  BY <1>2, JournalKept DEF Lapse, OneInv, Blocks
<1>3. CASE \A a \in Attempts : ~Records(a) /\ ~Lapse(a)
  BY <1>3, OthersKeepAuthorities, JournalKept DEF OneInv, Blocks, authorityVars
<1> QED BY <1>1, <1>2, <1>3

\* At most one attempt is between its consumption and its settlement, whatever
\* crashes, appends that fail and authorities that expire come in between.
THEOREM AtMostOneAttempt == Spec => []OneAttemptAtATime
<1>1. Init => OneInv
  BY DEF Init, OneInv, Logs, Blocks, State, Unsettled
<1>2. OneInv => OneAttemptAtATime
  BY DEF OneInv, OneAttemptAtATime, Blocks
<1> QED BY <1>1, <1>2, OneStep, PTL DEF Spec

-----------------------------------------------------------------------------
(* Type correctness *)

\* The constants and what is built from typed parts.
LEMMA BlockTypes ==
  /\ NoSession \in Sessions /\ NoRun \in Runs
  /\ \A fresh \in BOOLEAN : Starting(fresh) \in Runs
  /\ Blocked \in Answers /\ Rejected \in Answers /\ Uncertain \in Answers
  /\ \A r \in Outcomes : Incomplete(r) \in Answers /\ Enriched(r) \in Answers
BY DEF NoSession, Sessions, SessionStates, Outcomes, Final, NoRun, Runs, Starting, Blocked,
       Rejected, Uncertain, Incomplete, Enriched, Answers

\* A verdict is a state of the session.
LEMMA VerdictType ==
  ASSUME NEW got, NEW results
  PROVE  Verdict(got, results) \in SessionStates \ {"NONE", "PREPARED"}
BY DEF Verdict, SessionStates

\* Where a run may be, and what its legs may wait for.
Points == {"idle", "boundary", "await"} \cup Legs
Kinds == {"no", "create", "poll", "read"}

\* A run moves on; the call of a leg is awaited.
Moved(R, a, at) == [R EXCEPT ![a].at = at]
Waiting(a, l, kind) == [run EXCEPT ![a].wait[l] = kind]

\* What two runs have in common that only differ in where they are.
SameCalls(r, s) == r.wait = s.wait /\ r.got = s.got /\ r.fresh = s.fresh

\* A run that moves on keeps what it waits for.
LEMMA RunMoves ==
  ASSUME NEW R \in [Attempts -> Runs], NEW a \in Attempts,
         NEW at \in Points,
         NEW next, next = Moved(R, a, at)
  PROVE  /\ next \in [Attempts -> Runs]
         /\ next[a].at = at /\ SameCalls(next[a], R[a])
         /\ \A b \in Attempts \ {a} : next[b] = R[b]
<1> DEFINE moved == [R[a] EXCEPT !.at = at]
<1>1. moved \in Runs /\ moved.at = at /\ SameCalls(moved, R[a])
  BY DEF Runs, Points, SameCalls
<1>2. next = [R EXCEPT ![a] = moved]
  BY DEF Moved
<1> HIDE DEF moved
<1> QED BY <1>1, <1>2

\* A run that awaits the call of a leg stays where it is.
LEMMA RunWaits ==
  ASSUME run \in [Attempts -> Runs], NEW a \in Attempts, NEW l \in Legs,
         NEW kind \in Kinds,
         NEW next, next = Waiting(a, l, kind)
  PROVE  /\ next \in [Attempts -> Runs]
         /\ next[a].at = run[a].at
         /\ next[a].wait = [run[a].wait EXCEPT ![l] = kind]
         /\ next[a].got = run[a].got /\ next[a].fresh = run[a].fresh
         /\ \A b \in Attempts \ {a} : next[b] = run[b]
<1> DEFINE wait == [run[a].wait EXCEPT ![l] = kind]
           waits == [run[a] EXCEPT !.wait = wait]
<1>0. run[a] \in Runs
  OBVIOUS
<1>1. wait \in [Legs -> Kinds]
  BY <1>0 DEF Runs, Kinds
<1>2. next = [run EXCEPT ![a] = waits]
  BY DEF Waiting
<1> HIDE DEF wait
<1>3. /\ waits \in Runs /\ waits.at = run[a].at /\ waits.wait = wait
      /\ waits.got = run[a].got /\ waits.fresh = run[a].fresh
  BY <1>0, <1>1 DEF Runs, Kinds
<1> HIDE DEF waits
<1>4. /\ [run EXCEPT ![a] = waits] \in [Attempts -> Runs]
      /\ [run EXCEPT ![a] = waits][a] = waits
      /\ \A b \in Attempts \ {a} : [run EXCEPT ![a] = waits][b] = run[b]
  BY <1>3
<1> QED BY <1>2, <1>3, <1>4 DEF wait

\* The same for one whose leg is answered.
LEMMA RunAnswered ==
  ASSUME run \in [Attempts -> Runs], NEW a \in Attempts, NEW l \in Legs, NEW g \in Answers,
         NEW next, next = Answered(a, l, g)
  PROVE  /\ next \in [Attempts -> Runs]
         /\ next[a].at = run[a].at
         /\ next[a].wait = [run[a].wait EXCEPT ![l] = "no"]
         /\ next[a].got = [run[a].got EXCEPT ![l] = g]
         /\ next[a].fresh = run[a].fresh
         /\ \A b \in Attempts \ {a} : next[b] = run[b]
<1> DEFINE wait == [run[a].wait EXCEPT ![l] = "no"]
           got == [run[a].got EXCEPT ![l] = g]
           answered == [run[a] EXCEPT !.wait = wait, !.got = got]
<1>0. run[a] \in Runs
  OBVIOUS
<1>1. wait \in [Legs -> {"no", "create", "poll", "read"}] /\ got \in [Legs -> Answers]
  BY <1>0 DEF Runs
<1>2. next = [run EXCEPT ![a] = answered]
  BY <1>0 DEF Answered, Runs
<1> HIDE DEF wait, got
<1>3. /\ answered \in Runs /\ answered.at = run[a].at /\ answered.wait = wait
      /\ answered.got = got /\ answered.fresh = run[a].fresh
  BY <1>0, <1>1 DEF Runs
<1> HIDE DEF answered
<1>4. /\ [run EXCEPT ![a] = answered] \in [Attempts -> Runs]
      /\ [run EXCEPT ![a] = answered][a] = answered
      /\ \A b \in Attempts \ {a} : [run EXCEPT ![a] = answered][b] = run[b]
  BY <1>3
<1> QED BY <1>2, <1>3, <1>4 DEF wait, got

\* The record of a leg is written.
LEMMA NotesType ==
  ASSUME TypeOK, NEW a \in Attempts, NEW l \in Legs, NEW r \in LegRecords, Notes(a, l, r)
  PROVE  /\ record' \in [Attempts -> [Legs -> LegRecords]]
         /\ record'[a][l] = r
         /\ \A k \in Legs \ {l} : record'[a][k] = record[a][k]
         /\ \A b \in Attempts \ {a} : record'[b] = record[b]
<1>1. record[a] \in [Legs -> LegRecords] /\ record \in [Attempts -> [Legs -> LegRecords]]
  BY DEF TypeOK
<1>2. record' = [record EXCEPT ![a] = [record[a] EXCEPT ![l] = r]]
  BY DEF Notes
<1> QED BY <1>1, <1>2

\* The exchange's order for a leg changes.
LEMMA OrderType ==
  ASSUME TypeOK, NEW a \in Attempts, NEW l \in Legs, NEW s \in LegOrders,
         order' = [order EXCEPT ![a][l] = s]
  PROVE  /\ order' \in [Attempts -> [Legs -> LegOrders]]
         /\ order'[a][l] = s
         /\ \A k \in Legs \ {l} : order'[a][k] = order[a][k]
         /\ \A b \in Attempts \ {a} : order'[b] = order[b]
<1>1. order[a] \in [Legs -> LegOrders] /\ order \in [Attempts -> [Legs -> LegOrders]]
  BY DEF TypeOK
<1>2. order' = [order EXCEPT ![a] = [order[a] EXCEPT ![l] = s]]
  OBVIOUS
<1> QED BY <1>1, <1>2

\* Only a leg with a recorded result is read.
Read == {"OPEN", "FILLED", "CANCELLED"}
ReadsKnown == \A a \in Attempts, l \in Legs : run[a].wait[l] = "read" => record[a][l] \in Read

\* What a step of leg l of attempt a does to the records ...
RecordsLeg(a, l) ==
  /\ record' \in [Attempts -> [Legs -> LegRecords]]
  /\ \A k \in Legs \ {l} : record'[a][k] = record[a][k]
  /\ \A b \in Attempts \ {a} : record'[b] = record[b]

\* ... to the orders: none appears unless the call of the leg was awaited ...
OrdersLeg(a, l) ==
  /\ order' \in [Attempts -> [Legs -> LegOrders]]
  /\ order'[a][l] # "NONE" => order[a][l] # "NONE" \/ run[a].wait[l] # "no"
  /\ \A k \in Legs \ {l} : order'[a][k] = order[a][k]
  /\ \A b \in Attempts \ {a} : order'[b] = order[b]

\* Where a run goes once it has called leg l.
NextPoint(l) == IF l = "buy" THEN "sell" ELSE "await"

\* ... and to the runs: only the synchronous part begins to await anything.
RunsLeg(a, l) ==
  /\ run' \in [Attempts -> Runs]
  /\ run'[a].fresh = run[a].fresh
  /\ \A k \in Legs \ {l} : run'[a].wait[k] = run[a].wait[k] /\ run'[a].got[k] = run[a].got[k]
  /\ \/ run'[a].at = run[a].at /\ (run'[a].wait[l] # "no" => run[a].wait[l] # "no")
     \/ run[a].at = l /\ run'[a].at = NextPoint(l)
  /\ run'[a].wait[l] = "read" => record'[a][l] \in Read
  /\ \A b \in Attempts \ {a} : run'[b] = run[b]

\* A step that answers the call of a leg does to the runs what a leg's step does.
LEMMA AnswerRuns ==
  ASSUME TypeOK, NEW a \in Attempts, NEW l \in Legs, NEW g \in Answers,
         run' = Answered(a, l, g)
  PROVE  RunsLeg(a, l) /\ run'[a].at = run[a].at /\ run'[a].wait[l] = "no" /\ run'[a].got[l] = g
<1>1. /\ run \in [Attempts -> Runs]
      /\ run[a].wait \in [Legs -> {"no", "create", "poll", "read"}]
      /\ run[a].got \in [Legs -> Answers]
  BY DEF TypeOK, Runs
<1>2. /\ run'[a].at = run[a].at /\ run'[a].wait = [run[a].wait EXCEPT ![l] = "no"]
      /\ run'[a].got = [run[a].got EXCEPT ![l] = g] /\ run'[a].fresh = run[a].fresh
      /\ run' \in [Attempts -> Runs] /\ \A b \in Attempts \ {a} : run'[b] = run[b]
  BY <1>1, RunAnswered
<1> QED BY <1>1, <1>2 DEF RunsLeg

\* A result that was received is recorded and answered.
LEMMA ReceivesLeg ==
  ASSUME TypeOK, NEW a \in Attempts, NEW l \in Legs, NEW result \in Outcomes,
         Receives(a, l, result)
  PROVE  RecordsLeg(a, l) /\ RunsLeg(a, l)
<1>1. /\ {result, "UNKNOWN", "UNSAVED"} \subseteq LegRecords
      /\ Tells(result) \subseteq Answers
  BY BlockTypes DEF LegRecords, Outcomes, Final, Tells
<1>2. PICK r \in {result, "UNKNOWN", "UNSAVED"} : Notes(a, l, r)
  BY DEF Receives
<1>3. \E g \in Answers : run' = Answered(a, l, g)
  BY <1>1, BlockTypes DEF Receives
<1>4. RecordsLeg(a, l)
  BY <1>1, <1>2, NotesType DEF RecordsLeg
<1> QED BY <1>3, <1>4, AnswerRuns

\* A leg that is called and answered at once.
LEMMA CallAnswers ==
  ASSUME TypeOK, NEW a \in Attempts, NEW l \in Legs, NEW g \in Answers, run[a].at = l,
         run' = Moved(Answered(a, l, g), a, NextPoint(l))
  PROVE  /\ RunsLeg(a, l)
         /\ run'[a].at = NextPoint(l) /\ run'[a].wait[l] = "no" /\ run'[a].got[l] = g
<1> DEFINE R == Answered(a, l, g)
<1>0. /\ run \in [Attempts -> Runs]
      /\ run[a].wait \in [Legs -> Kinds] /\ run[a].got \in [Legs -> Answers]
      /\ NextPoint(l) \in Points
  BY DEF TypeOK, Runs, Kinds, NextPoint, Points, Legs
<1>1. /\ R \in [Attempts -> Runs] /\ R[a].wait = [run[a].wait EXCEPT ![l] = "no"]
      /\ R[a].got = [run[a].got EXCEPT ![l] = g] /\ R[a].fresh = run[a].fresh
      /\ \A b \in Attempts \ {a} : R[b] = run[b]
  BY <1>0, RunAnswered
<1>2. run' = Moved(R, a, NextPoint(l))
  OBVIOUS
<1> HIDE DEF R
<1>3. /\ run' \in [Attempts -> Runs] /\ run'[a].at = NextPoint(l) /\ SameCalls(run'[a], R[a])
      /\ \A b \in Attempts \ {a} : run'[b] = R[b]
  BY <1>0, <1>1, <1>2, RunMoves
<1> QED BY <1>0, <1>1, <1>3 DEF RunsLeg, SameCalls

\* A leg that is called and awaited.
LEMMA CallWaits ==
  ASSUME TypeOK, NEW a \in Attempts, NEW l \in Legs, run[a].at = l,
         NEW kind \in {"create", "read"}, kind = "read" => record'[a][l] \in Read,
         run' = Moved(Waiting(a, l, kind), a, NextPoint(l))
  PROVE  /\ RunsLeg(a, l)
         /\ run'[a].at = NextPoint(l) /\ run'[a].wait[l] = kind
<1> DEFINE R == Waiting(a, l, kind)
<1>0. /\ run \in [Attempts -> Runs] /\ run[a].wait \in [Legs -> Kinds]
      /\ NextPoint(l) \in Points /\ kind \in Kinds
  BY DEF TypeOK, Runs, Kinds, NextPoint, Points, Legs
<1>1. /\ R \in [Attempts -> Runs] /\ R[a].wait = [run[a].wait EXCEPT ![l] = kind]
      /\ R[a].got = run[a].got /\ R[a].fresh = run[a].fresh
      /\ \A b \in Attempts \ {a} : R[b] = run[b]
  BY <1>0, RunWaits
<1>2. run' = Moved(R, a, NextPoint(l))
  OBVIOUS
<1> HIDE DEF R
<1>3. /\ run' \in [Attempts -> Runs] /\ run'[a].at = NextPoint(l) /\ SameCalls(run'[a], R[a])
      /\ \A b \in Attempts \ {a} : run'[b] = R[b]
  BY <1>0, <1>1, <1>2, RunMoves
<1> QED BY <1>0, <1>1, <1>3 DEF RunsLeg, SameCalls

\* The run and the record that the call of a leg leaves behind.
CalledAndAnswered(a, l, g) == run' = Moved(Answered(a, l, g), a, NextPoint(l))
CalledAndAwaited(a, l, kind) == run' = Moved(Waiting(a, l, kind), a, NextPoint(l))

\* The synchronous part of a gateway call.
LEMMA CallLegStep ==
  ASSUME TypeOK, NEW a \in Attempts, NEW l \in Legs, CallLeg(a, l)
  PROVE  RecordsLeg(a, l) /\ RunsLeg(a, l) /\ UNCHANGED order
<1> DEFINE known == record[a][l]
           answers(g) == CalledAndAnswered(a, l, g)
           waits(kind) == CalledAndAwaited(a, l, kind)
<1>0. run[a].at = l
  BY DEF CallLeg
<1>r. "UNKNOWN" \in LegRecords /\ "UNSAVED" \in LegRecords
  BY DEF LegRecords
<1>u. UNCHANGED record => RecordsLeg(a, l)
  BY DEF RecordsLeg, TypeOK
<1>1. \/ \E g \in Answers : answers(g) /\ UNCHANGED record
      \/ Notes(a, l, "UNKNOWN") /\ waits("create")
      \/ Notes(a, l, "UNSAVED") /\ answers(Rejected)
      \/ known \in Read /\ waits("read") /\ UNCHANGED record
  <2>1. "FAILED" \in Outcomes
    BY DEF Outcomes, Final
  <2> QED BY <2>1, BlockTypes DEF CallLeg, Read, CalledAndAnswered, CalledAndAwaited, Moved, Waiting, NextPoint
<1>2. UNCHANGED order
  BY DEF CallLeg
<1>3. CASE \E g \in Answers : answers(g) /\ UNCHANGED record
  BY <1>0, <1>2, <1>3, <1>u, CallAnswers DEF CalledAndAnswered
<1>4. CASE Notes(a, l, "UNKNOWN") /\ waits("create")
  BY <1>0, <1>2, <1>4, <1>r, NotesType, CallWaits DEF RecordsLeg, CalledAndAwaited
<1>5. CASE Notes(a, l, "UNSAVED") /\ answers(Rejected)
  BY <1>0, <1>2, <1>5, <1>r, NotesType, BlockTypes, CallAnswers DEF RecordsLeg, CalledAndAnswered
<1>6. CASE known \in Read /\ waits("read") /\ UNCHANGED record
  BY <1>0, <1>2, <1>6, <1>u, CallWaits DEF CalledAndAwaited
<1> QED BY <1>1, <1>3, <1>4, <1>5, <1>6

\* Every step of a leg.
LEMMA LegStep ==
  ASSUME TypeOK, ReadsKnown, NEW a \in Attempts, NEW l \in Legs, Leg(a, l)
  PROVE  RecordsLeg(a, l) /\ OrdersLeg(a, l) /\ RunsLeg(a, l)
<1> USE DEF LegOrders, Outcomes, Final
<1>o. UNCHANGED order => OrdersLeg(a, l)
  BY DEF OrdersLeg, TypeOK
<1>p. ASSUME NEW s \in LegOrders, order' = [order EXCEPT ![a][l] = s],
             run[a].wait[l] # "no" \/ order[a][l] # "NONE"
      PROVE  OrdersLeg(a, l) /\ order'[a][l] = s
  <2>1. /\ order' \in [Attempts -> [Legs -> LegOrders]] /\ order'[a][l] = s
        /\ \A k \in Legs \ {l} : order'[a][k] = order[a][k]
        /\ \A b \in Attempts \ {a} : order'[b] = order[b]
    BY <1>p, OrderType
  <2> QED BY <1>p, <2>1 DEF OrdersLeg
<1>1. CASE CallLeg(a, l)
  BY <1>1, <1>o, CallLegStep
<1>2. CASE CreateAccepted(a, l)
  <2>1. OrdersLeg(a, l)
    BY <1>2, <1>p DEF CreateAccepted, Places
  <2>2. RecordsLeg(a, l)
    BY <1>2 DEF CreateAccepted, RecordsLeg, TypeOK
  <2>3. /\ run \in [Attempts -> Runs] /\ run[a].wait[l] = "create"
        /\ run[a].wait \in [Legs -> {"no", "create", "poll", "read"}]
        /\ run' = Waiting(a, l, "poll") /\ "poll" \in Kinds
    BY <1>2 DEF CreateAccepted, TypeOK, Runs, Waiting, Kinds
  <2>4. /\ run' \in [Attempts -> Runs] /\ run'[a].at = run[a].at
        /\ run'[a].wait = [run[a].wait EXCEPT ![l] = "poll"]
        /\ run'[a].got = run[a].got /\ run'[a].fresh = run[a].fresh
        /\ \A b \in Attempts \ {a} : run'[b] = run[b]
    BY <2>3, RunWaits
  <2> QED BY <2>1, <2>2, <2>3, <2>4 DEF RunsLeg
<1>3. CASE CreateRefused(a, l)
  BY <1>3, <1>o, ReceivesLeg DEF CreateRefused
<1>4. CASE ReplyLost(a, l)
  BY <1>4, <1>o, <1>p, ReceivesLeg DEF ReplyLost, Places
<1>5. CASE PollEnds(a, l)
  <2>1. OrdersLeg(a, l) /\ order'[a][l] \in LegOrders
    BY <1>5, <1>o, <1>p DEF PollEnds, TypeOK
  <2>2. order'[a][l] \in Outcomes /\ Receives(a, l, order'[a][l])
    BY <1>5, <2>1 DEF PollEnds
  <2> QED BY <2>1, <2>2, ReceivesLeg
<1>6. CASE ReadEnds(a, l)
  <2>1. /\ order[a][l] \in LegRecords \cap Outcomes /\ Tells(order[a][l]) \subseteq Answers
        /\ record[a][l] \in Outcomes
    BY <1>6, BlockTypes DEF ReadEnds, TypeOK, LegRecords, Tells, ReadsKnown, Read
  <2>2. RecordsLeg(a, l)
    BY <1>6, <2>1, NotesType DEF ReadEnds, RecordsLeg, TypeOK
  <2>3. \E g \in Answers : run' = Answered(a, l, g)
    BY <1>6, <2>1, BlockTypes DEF ReadEnds
  <2> QED BY <1>6, <1>o, <2>2, <2>3, AnswerRuns DEF ReadEnds
<1>7. CASE Decide(a, l)
  <2>1. OrdersLeg(a, l)
    BY <1>7, <1>p DEF Decide
  <2>2. UNCHANGED <<record, run>>
    BY <1>7 DEF Decide, pairVars
  <2> QED BY <2>1, <2>2 DEF RecordsLeg, RunsLeg, TypeOK, ReadsKnown
<1> QED BY <1>1, <1>2, <1>3, <1>4, <1>5, <1>6, <1>7 DEF Leg


-----------------------------------------------------------------------------
(* Nothing reaches an exchange without a journaled binding and boundary *)

Past == {"buy", "sell", "await"}

\* Inductive: a session exists only for a bound authority, a run only for a session,
\* and it is past its boundary, which no crash takes back, before it awaits a leg.
DispatchParts ==
  /\ \A a \in Attempts : attempt[a] = "bound" => Ever(a, "PAIR_BOUND")
  /\ \A a \in Attempts : session[a].state # "NONE" => Ever(a, "PAIR_BOUND")
  /\ \A a \in Attempts : run[a].at # "idle" => session[a].state # "NONE"
  /\ \A a \in Attempts : run[a].at \in Past => session[a].state # "PREPARED"
  /\ \A a \in Attempts, l \in Legs : run[a].wait[l] # "no" => run[a].at \in Past
  /\ \A a \in Attempts, l \in Legs :
       order[a][l] # "NONE" => session[a].state \notin {"NONE", "PREPARED"}

DispatchInv == TypeOK /\ ReadsKnown /\ DispatchParts

\* Every append to the authority journal, and the coordinator's step with it.
LEMMA RecordsStep ==
  ASSUME DispatchInv, NEW a \in Attempts, Records(a)
  PROVE  DispatchInv'
<1>1. /\ journal' \in Logs
      /\ \A b \in Attempts, s \in AuthorityStates : Ever(b, s) => Ever(b, s)'
  BY RecordsBlock, JournalsRecords, JournalKept DEF DispatchInv, TypeOK, Logs
<1>2. UNCHANGED <<lapsed, pairVars, resolutionVars, gatewayVars, restarts>>
  BY DEF Records, Preview, Authorize, Cancel, Resolve, Consume, Block, BindPair, Finalize
<1>3. /\ attempt' \in [Attempts -> Steps]
      /\ \A b \in Attempts : attempt'[b] = "bound" => attempt[b] = "bound" \/ BindPair(b)
  BY DEF Records, Preview, Authorize, Cancel, Resolve, Consume, Block, BindPair, Finalize,
         Goes, Steps, DispatchInv, TypeOK
<1>4. ASSUME NEW b \in Attempts, BindPair(b) PROVE Ever(b, "PAIR_BOUND")'
  BY <1>4, JournalsRecords DEF BindPair, DispatchInv, TypeOK, Logs, AuthorityStates
<1>5. "PAIR_BOUND" \in AuthorityStates
  BY DEF AuthorityStates
<1> QED
  BY <1>1, <1>2, <1>3, <1>4, <1>5
  DEF DispatchInv, TypeOK, Logs, ReadsKnown, DispatchParts, pairVars, resolutionVars, gatewayVars

\* Attempt a gets the session s and the run r, which fit what is recorded of it.
Becomes(a, s, r) ==
  /\ s \in Sessions /\ r \in Runs
  /\ session' = [session EXCEPT ![a] = s] /\ run' = [run EXCEPT ![a] = r]
  /\ s.state # "NONE" => Ever(a, "PAIR_BOUND")
  /\ r.at # "idle" => s.state # "NONE"
  /\ r.at \in Past => s.state # "PREPARED"
  /\ \A l \in Legs : r.wait[l] # "no" => r.at \in Past
  /\ \A l \in Legs : r.wait[l] # "read" \/ r.wait[l] = run[a].wait[l]
  /\ s.state \in {"NONE", "PREPARED"} => \A l \in Legs : order[a][l] = "NONE"

\* What a pair's own steps do to its session, its run and whoever waits for it.
LEMMA PairStep ==
  ASSUME DispatchInv, NEW a \in Attempts, Pair(a) \/ Prepare(a)
  PROVE  DispatchInv'
<1>0. /\ session[a] \in Sessions /\ session \in [Attempts -> Sessions]
      /\ run \in [Attempts -> Runs] /\ run[a] \in Runs
      /\ NoRun \in Runs /\ Starting(TRUE) \in Runs
      /\ \A b \in Attempts, s \in AuthorityStates : Ever(b, s)' = Ever(b, s)
      /\ "PAIR_BOUND" \in AuthorityStates
  BY BlockTypes, JournalKept
  DEF DispatchInv, TypeOK, Pair, CrossBoundary, FinishPair, Prepare, authorityVars, AuthorityStates
<1>1. UNCHANGED <<authorityVars, gatewayVars, restarts>>
  BY DEF Pair, CrossBoundary, FinishPair, Prepare
<1>2. /\ attempt' \in [Attempts -> Steps] /\ writeFailed' \in BOOLEAN
      /\ resolver' \in [Attempts -> {"idle", "waiting", "ready"}]
      /\ resolved' \in SUBSET Attempts
      /\ \A b \in Attempts : attempt'[b] = "bound" => attempt[b] = "bound"
  BY DEF Pair, CrossBoundary, FinishPair, Prepare, Wakes, Writes, WriteBreaks, Goes, Steps,
         DispatchInv, TypeOK, resolutionVars
<1>3. ASSUME NEW s, NEW r, Becomes(a, s, r) PROVE DispatchInv'
  <2>1. /\ session' \in [Attempts -> Sessions] /\ run' \in [Attempts -> Runs]
        /\ session'[a] = s /\ run'[a] = r
        /\ \A b \in Attempts \ {a} : session'[b] = session[b] /\ run'[b] = run[b]
    BY <1>0, <1>3 DEF Becomes
  <2>2. TypeOK'
    BY <1>1, <1>2, <2>1 DEF DispatchInv, TypeOK, authorityVars, gatewayVars
  <2>3. ReadsKnown'
    BY <1>1, <1>3, <2>1 DEF DispatchInv, ReadsKnown, gatewayVars, Becomes
  <2>4. DispatchParts'
    BY <1>0, <1>1, <1>2, <1>3, <2>1
    DEF DispatchInv, DispatchParts, gatewayVars, Becomes
  <2> QED BY <2>2, <2>3, <2>4 DEF DispatchInv
<1>4. \A l \in Legs : NoRun.wait[l] = "no" /\ Starting(TRUE).wait[l] = "no"
  BY DEF NoRun, Starting
<1>5. NoRun.at = "idle" /\ Starting(TRUE).at = "boundary"
  BY DEF NoRun, Starting
<1>6. ASSUME WriteBreaks(a) PROVE DispatchInv'
  <2>1. Becomes(a, session[a], NoRun)
    BY <1>0, <1>4, <1>5, <1>6 DEF WriteBreaks, DispatchInv, DispatchParts, Past, Becomes
  <2> QED BY <1>3, <2>1
<1>7. CASE Prepare(a)
  <2>1. CASE UNCHANGED <<session, run>>
    <3>1. Becomes(a, session[a], run[a])
      BY <1>0, <2>1 DEF DispatchInv, DispatchParts, Becomes
    <3> QED BY <1>3, <3>1
  <2>2. CASE ~UNCHANGED <<session, run>>
    <3> DEFINE s == [session[a] EXCEPT !.state = "PREPARED"]
    <3>1. /\ attempt[a] = "bound" /\ session[a].state = "NONE"
          /\ session' = [session EXCEPT ![a] = s] /\ run' = [run EXCEPT ![a] = Starting(TRUE)]
      BY <1>7, <2>2 DEF Prepare
    <3>2. s \in Sessions /\ s.state = "PREPARED"
      BY <1>0 DEF Sessions, SessionStates
    <3> HIDE DEF s
    <3>3. Becomes(a, s, Starting(TRUE))
      BY <1>0, <1>4, <1>5, <3>1, <3>2 DEF DispatchInv, DispatchParts, Past, Becomes
    <3> QED BY <1>3, <3>3
  <2> QED BY <2>1, <2>2
<1>8. CASE CrossBoundary(a)
  <2>1. CASE ~WriteBreaks(a)
    <3> DEFINE s == [session[a] EXCEPT !.state = "DISPATCHING"]
               r == [run[a] EXCEPT !.at = "buy"]
    <3>1. /\ run[a].at = "boundary"
          /\ session' = [session EXCEPT ![a] = s] /\ run' = [run EXCEPT ![a] = r]
      BY <1>8, <2>1 DEF CrossBoundary, Writes
    <3>2. s \in Sessions /\ s.state = "DISPATCHING"
      BY <1>0 DEF Sessions, SessionStates
    <3>3. r \in Runs /\ r.at = "buy" /\ r.wait = run[a].wait
      BY <1>0 DEF Runs, Legs
    <3> HIDE DEF s, r
    <3>4. Becomes(a, s, r)
      BY <1>0, <3>1, <3>2, <3>3 DEF DispatchInv, DispatchParts, Past, Becomes
    <3> QED BY <1>3, <3>4
  <2> QED BY <1>6, <2>1
<1>9. CASE FinishPair(a)
  <2>1. CASE ~WriteBreaks(a)
    <3> DEFINE results == [l \in Legs |-> run[a].got[l].result]
               verdict == Verdict(run[a].got, results)
               s == [state |-> verdict, results |-> results]
    <3>1. /\ run[a].at = "await"
          /\ session' = [session EXCEPT ![a] = s] /\ run' = [run EXCEPT ![a] = NoRun]
      BY <1>9, <2>1 DEF FinishPair, Writes
    <3>2. results \in [Legs -> Outcomes]
      BY <1>0 DEF Runs, Answers
    <3>3. verdict \in SessionStates \ {"NONE", "PREPARED"}
      BY VerdictType
    <3> HIDE DEF results, verdict
    <3>4. s \in Sessions /\ s.state \notin {"NONE", "PREPARED"}
      BY <3>2, <3>3 DEF Sessions
    <3> HIDE DEF s
    <3>5. Ever(a, "PAIR_BOUND")
      BY <3>1 DEF DispatchInv, DispatchParts
    <3>6. Becomes(a, s, NoRun)
      BY <1>0, <1>4, <1>5, <3>1, <3>4, <3>5 DEF Past, Becomes
    <3> QED BY <1>3, <3>6
  <2> QED BY <1>6, <2>1
<1> QED BY <1>7, <1>8, <1>9 DEF Pair

\* A resolution starts a run for a session that is past its boundary, or none.
LEMMA ResolutionStep ==
  ASSUME DispatchInv, NEW a \in Attempts, Resolution(a)
  PROVE  DispatchInv'
<1>1. UNCHANGED <<authorityVars, attempt, session, writeFailed, gatewayVars, restarts>>
  BY DEF Resolution, ResolveSession, PersistResolution, pairVars
<1>2. /\ resolver' \in [Attempts -> {"idle", "waiting", "ready"}]
      /\ resolved' \in SUBSET Attempts
  BY DEF Resolution, ResolveSession, PersistResolution, DispatchInv, TypeOK
<1>3. \A b \in Attempts : Ever(b, "PAIR_BOUND")' = Ever(b, "PAIR_BOUND")
  BY <1>1, JournalKept DEF authorityVars, AuthorityStates
<1>4. CASE UNCHANGED run
  BY <1>1, <1>2, <1>3, <1>4
  DEF DispatchInv, TypeOK, ReadsKnown, DispatchParts, authorityVars, gatewayVars
<1>5. CASE ~UNCHANGED run
  <2>1. /\ session[a].state \in UNRESOLVED_STATES
        /\ run' = [run EXCEPT ![a] = Starting(FALSE)]
    BY <1>5 DEF Resolution, ResolveSession, PersistResolution, pairVars
  <2>2. /\ Starting(FALSE) \in Runs /\ Starting(FALSE).at = "boundary"
        /\ \A l \in Legs : Starting(FALSE).wait[l] = "no"
    BY BlockTypes DEF Starting, NoRun
  <2>3. /\ run' \in [Attempts -> Runs] /\ run'[a] = Starting(FALSE)
        /\ \A b \in Attempts \ {a} : run'[b] = run[b]
    BY <2>1, <2>2 DEF DispatchInv, TypeOK
  <2>4. TypeOK' /\ ReadsKnown'
    BY <1>1, <1>2, <2>2, <2>3
    DEF DispatchInv, TypeOK, ReadsKnown, authorityVars, gatewayVars
  <2>5. DispatchParts'
    BY <1>1, <1>3, <2>1, <2>2, <2>3
    DEF DispatchInv, DispatchParts, gatewayVars, UNRESOLVED_STATES, Past
  <2> QED BY <2>4, <2>5 DEF DispatchInv
<1> QED BY <1>4, <1>5

\* A leg's step sends an order only where one was awaited, past the boundary.
LEMMA LegKeeps ==
  ASSUME DispatchInv, NEW a \in Attempts, NEW l \in Legs, Leg(a, l)
  PROVE  DispatchInv'
<1>1. UNCHANGED <<authorityVars, attempt, session, writeFailed, resolutionVars, restarts>>
  BY DEF Leg, CallLeg, CreateAccepted, CreateRefused, ReplyLost, PollEnds, ReadEnds, Decide,
         pairVars
<1>2. RecordsLeg(a, l) /\ OrdersLeg(a, l) /\ RunsLeg(a, l)
  BY LegStep DEF DispatchInv
<1>3. \A b \in Attempts : Ever(b, "PAIR_BOUND")' = Ever(b, "PAIR_BOUND")
  BY <1>1, JournalKept DEF authorityVars, AuthorityStates
<1>4. TypeOK'
  BY <1>1, <1>2
  DEF DispatchInv, TypeOK, RecordsLeg, OrdersLeg, RunsLeg, authorityVars, resolutionVars
<1>5. ReadsKnown'
  <2>1. ASSUME NEW b \in Attempts, NEW k \in Legs, run'[b].wait[k] = "read"
        PROVE  record'[b][k] \in Read
    <3>1. CASE b # a
      BY <1>2, <2>1, <3>1 DEF DispatchInv, ReadsKnown, RecordsLeg, RunsLeg
    <3>2. CASE b = a /\ k # l
      BY <1>2, <2>1, <3>2 DEF DispatchInv, ReadsKnown, RecordsLeg, RunsLeg
    <3>3. CASE b = a /\ k = l
      BY <1>2, <2>1, <3>3 DEF RunsLeg
    <3> QED BY <3>1, <3>2, <3>3
  <2> QED BY <2>1 DEF ReadsKnown
<1>6. run'[a].at = run[a].at \/ (run[a].at \in Past /\ run'[a].at \in Past)
  BY <1>2 DEF RunsLeg, Past, Legs, NextPoint
<1>7. \A k \in Legs : run'[a].wait[k] # "no" => run'[a].at \in Past
  BY <1>2 DEF RunsLeg, DispatchInv, DispatchParts, Past, Legs, NextPoint
<1>8. \A b \in Attempts : run'[b].at # "idle" => run[b].at # "idle"
  BY <1>2, <1>6 DEF RunsLeg, Past
<1>9. \A b \in Attempts : run'[b].at \in Past => run[b].at \in Past
  BY <1>2, <1>6 DEF RunsLeg
<1>10. ASSUME NEW b \in Attempts, NEW k \in Legs, order'[b][k] # "NONE"
       PROVE  session[b].state \notin {"NONE", "PREPARED"}
  <2>1. CASE order[b][k] # "NONE"
    BY <2>1 DEF DispatchInv, DispatchParts
  <2>2. CASE order[b][k] = "NONE"
    <3>1. b = a /\ run[a].wait[l] # "no"
      BY <1>2, <1>10, <2>2 DEF OrdersLeg
    <3> QED BY <3>1 DEF DispatchInv, DispatchParts, Past
  <2> QED BY <2>1, <2>2
<1>11. \A b \in Attempts, k \in Legs : run'[b].wait[k] # "no" => run'[b].at \in Past
  BY <1>2, <1>7 DEF RunsLeg, DispatchInv, DispatchParts
<1>12. DispatchParts'
  BY <1>1, <1>3, <1>8, <1>9, <1>10, <1>11 DEF DispatchInv, DispatchParts
<1> QED BY <1>4, <1>5, <1>12 DEF DispatchInv

\* A crash takes back nothing that the journals hold.
LEMMA RestartStep ==
  ASSUME DispatchInv, Restart
  PROVE  DispatchInv'
<1>1. /\ attempt' = [b \in Attempts |-> "idle"] /\ run' = [b \in Attempts |-> NoRun]
      /\ resolver' = [b \in Attempts |-> "idle"]
      /\ writeFailed' = FALSE /\ restarts' = restarts + 1
      /\ UNCHANGED <<authorityVars, session, resolved, order>>
  BY DEF Restart
<1>2. record' \in [Attempts -> [Legs -> LegRecords]]
  <2>1. PICK older \in [Unsaved -> LegRecords] : record' = Reread(older)
    BY DEF Restart
  <2>2. ASSUME NEW b \in Attempts, NEW l \in Legs
        PROVE  (IF <<b, l>> \in Unsaved THEN older[<<b, l>>] ELSE record[b][l]) \in LegRecords
    BY DEF DispatchInv, TypeOK
  <2> QED BY <2>1, <2>2 DEF Reread
<1>3. NoRun \in Runs /\ NoRun.at = "idle" /\ \A l \in Legs : NoRun.wait[l] = "no"
  BY BlockTypes DEF NoRun
<1>4. \A b \in Attempts : Ever(b, "PAIR_BOUND")' = Ever(b, "PAIR_BOUND")
  BY <1>1, JournalKept DEF authorityVars, AuthorityStates
<1>5. TypeOK'
  <2>1. /\ attempt' \in [Attempts -> Steps] /\ run' \in [Attempts -> Runs]
        /\ resolver' \in [Attempts -> {"idle", "waiting", "ready"}]
    BY <1>1, <1>3 DEF Steps
  <2>2. writeFailed' \in BOOLEAN
    BY <1>1
  <2>3. restarts' \in Nat
    <3>1. restarts \in Nat
      BY DEF DispatchInv, TypeOK
    <3> QED BY <1>1, <3>1
  <2> QED BY <1>1, <1>2, <2>1, <2>2, <2>3 DEF DispatchInv, TypeOK, authorityVars
<1>6. ReadsKnown' /\ DispatchParts'
  BY <1>1, <1>3, <1>4 DEF DispatchInv, ReadsKnown, DispatchParts, Past
<1> QED BY <1>5, <1>6 DEF DispatchInv

\* Every step keeps the dispatch invariant.
LEMMA DispatchStep == DispatchInv /\ [Next]_vars => DispatchInv'
<1> SUFFICES ASSUME DispatchInv, [Next]_vars PROVE DispatchInv'
  OBVIOUS
<1>1. ASSUME NEW a \in Attempts, Lapse(a) PROVE DispatchInv'
  <2>1. \A b \in Attempts : Ever(b, "PAIR_BOUND")' = Ever(b, "PAIR_BOUND")
    BY <1>1, JournalKept DEF Lapse, AuthorityStates
  <2>2. lapsed' \in SUBSET Attempts
    BY <1>1 DEF Lapse, DispatchInv, TypeOK
  <2> QED BY <1>1, <2>1, <2>2
    DEF Lapse, DispatchInv, TypeOK, ReadsKnown, DispatchParts, pairVars, resolutionVars, gatewayVars
<1>2. ASSUME NEW a \in Attempts, Operator(a) \/ Coordinator(a) PROVE DispatchInv'
  BY <1>1, <1>2, RecordsStep, PairStep DEF Operator, Coordinator, Records
<1>3. ASSUME NEW a \in Attempts, Pair(a) \/ Resolution(a) PROVE DispatchInv'
  BY <1>3, PairStep, ResolutionStep
<1>4. ASSUME NEW a \in Attempts, NEW l \in Legs, Leg(a, l) PROVE DispatchInv'
  BY <1>4, LegKeeps
<1>5. CASE Restart
  BY <1>5, RestartStep
<1>6. CASE UNCHANGED vars
  <2>1. \A b \in Attempts : Ever(b, "PAIR_BOUND")' = Ever(b, "PAIR_BOUND")
    BY <1>6, JournalKept DEF vars, authorityVars, AuthorityStates
  <2> QED BY <1>6, <2>1
    DEF vars, authorityVars, pairVars, resolutionVars, gatewayVars, DispatchInv, TypeOK,
        ReadsKnown, DispatchParts
<1> QED BY <1>2, <1>3, <1>4, <1>5, <1>6 DEF Next

\* It holds initially.
LEMMA DispatchInit == Init => DispatchInv
<1> SUFFICES ASSUME Init PROVE DispatchInv
  OBVIOUS
<1>1. TypeOK
  <2>1. journal \in [Attempts -> Seq(AuthorityStates)]
    BY DEF Init
  <2>2. /\ attempt \in [Attempts -> Steps]
        /\ resolver \in [Attempts -> {"idle", "waiting", "ready"}]
    BY DEF Init, Steps
  <2>3. session \in [Attempts -> Sessions] /\ run \in [Attempts -> Runs]
    BY BlockTypes DEF Init
  <2>4. /\ record \in [Attempts -> [Legs -> LegRecords]]
        /\ order \in [Attempts -> [Legs -> LegOrders]]
    BY DEF Init, LegRecords, LegOrders
  <2>5. /\ lapsed \in SUBSET Attempts /\ resolved \in SUBSET Attempts
        /\ writeFailed \in BOOLEAN /\ restarts \in Nat
    BY DEF Init
  <2> QED BY <2>1, <2>2, <2>3, <2>4, <2>5 DEF TypeOK
<1>2. ReadsKnown /\ DispatchParts
  BY DEF Init, ReadsKnown, DispatchParts, NoRun, NoSession, Past
<1> QED BY <1>1, <1>2 DEF DispatchInv

\* Every state is well typed.
THEOREM TypeCorrect == Spec => []TypeOK
<1>1. DispatchInv => TypeOK
  BY DEF DispatchInv
<1> QED BY <1>1, DispatchInit, DispatchStep, PTL DEF Spec

\* An order at an exchange has a journaled pair binding and a session past its
\* boundary, whatever appends fail and wherever the process dies.
THEOREM DispatchAuthorized == Spec => []DispatchIsAuthorized
<1>1. DispatchInv => DispatchIsAuthorized
  BY DEF DispatchInv, DispatchParts, DispatchIsAuthorized
<1> QED BY <1>1, DispatchInit, DispatchStep, PTL DEF Spec

-----------------------------------------------------------------------------
(* What the pair knows is true of the exchange *)

\* Before an attempt is consumed, and when it never will be.
Early == {"NONE", "PREVIEWED", "AUTHORIZED", "CANCELLED"}
NoResults == [l \in Legs |-> "NONE"]

OrdersBalanced(ord) ==
  /\ \A l \in Legs : ord[l] # "OPEN"
  /\ ord["buy"] = "FILLED" <=> ord["sell"] = "FILLED"
OrdersDenied(rec, ord) == \E l \in Legs : rec[l] = "FAILED" /\ ord[l] # "NONE"

\* How far the authority, its coordinator, the session and the run are, together:
\* only the one run the coordinator waits for may submit, its session has no result
\* yet and is not resolved, and its authority stays bound until it returns.
StageFits(st, step, s, r, res) ==
  /\ st \in Early => step = "idle" /\ s.state = "NONE"
  /\ step = "consumed" => st = "CONSUMED" /\ s.state = "NONE"
  /\ step = "bound" => st = "PAIR_BOUND" /\ s.state = "NONE"
  /\ step = "waiting" <=> r.fresh
  /\ r.fresh => /\ st = "PAIR_BOUND" /\ ~res /\ r.at # "idle"
                /\ s.state \in {"PREPARED", "DISPATCHING"} /\ s.results = NoResults
  /\ step = "returned" => s.state \notin {"NONE", "PREPARED", "DISPATCHING"} /\ r.at = "idle"
  /\ s.state \in {"NONE", "PREPARED"} => s.results = NoResults
  /\ res => s.state = "PREPARED" \/ terminalBalancedEvidence(s.results)

\* An authority that is settled has its two legs settled.
SettledFits(st, rec, ord) ==
  st \in {"FINALIZED", "RESOLVED"} => OrdersBalanced(ord) \/ OrdersDenied(rec, ord)

\* The gateway's record of a leg and what its call awaits.
RecordFits(r, rec, ord, l) ==
  /\ rec[l] = "NONE" => ord[l] = "NONE"
  /\ rec[l] = "OPEN" => ord[l] # "NONE"
  /\ rec[l] \in {"FILLED", "CANCELLED"} => ord[l] = rec[l]
  /\ r.wait[l] = "create" => rec[l] = "UNKNOWN" /\ ord[l] = "NONE" /\ r.fresh
  /\ r.wait[l] = "poll" => rec[l] = "UNKNOWN" /\ ord[l] # "NONE"

ResultIsTrue(result, rec, ord, l) ==
  /\ result \in {"FILLED", "CANCELLED"} => ord[l] = result
  /\ result = "FAILED" => rec[l] = "FAILED"

\* What a call that has been made and is not awaited told the run.
HasCalled(r, l) == r.at = "await" \/ (r.at = "sell" /\ l = "buy")
AnswerFits(r, rec, ord, l) ==
  HasCalled(r, l) /\ r.wait[l] = "no" =>
    /\ ResultIsTrue(r.got[l].result, rec, ord, l)
    /\ r.got[l].result = "OPEN" => r.got[l].possibleExposure
    /\ r.got[l].result = "NONE" /\ ~r.got[l].possibleExposure => ord[l] = "NONE" /\ ~r.fresh

\* What the pair's journal says of a leg.
SessionFits(s, rec, ord, l) ==
  /\ ResultIsTrue(s.results[l], rec, ord, l)
  /\ s.state = "COMPLETED" => s.results[l] = "FILLED"
  /\ s.state = "FAILED" => s.results[l] \in {"NONE", "CANCELLED", "FAILED"}
  /\ s.state = "FAILED" /\ s.results[l] = "NONE" => ord[l] = "NONE"

Fits(st, step, s, r, rec, ord, res) ==
  /\ StageFits(st, step, s, r, res)
  /\ SettledFits(st, rec, ord)
  /\ \A l \in Legs :
       RecordFits(r, rec, ord, l) /\ AnswerFits(r, rec, ord, l) /\ SessionFits(s, rec, ord, l)

AttemptFits(a) ==
  Fits(State(a), attempt[a], session[a], run[a], record[a], order[a], a \in resolved)

\* Inductive: what the records, the answers, the session and the authority claim of
\* the two legs is so at the exchange, and no order can still appear behind them.
PairInv == DispatchInv /\ \A a \in Attempts : AttemptFits(a)

\* An attempt of which nothing changed fits as it did.
Untouched(a) ==
  /\ State(a)' = State(a) /\ attempt'[a] = attempt[a] /\ session'[a] = session[a]
  /\ run'[a] = run[a] /\ record'[a] = record[a] /\ order'[a] = order[a]
  /\ (a \in resolved') = (a \in resolved)

\* Such a step keeps what is said of the attempt.
LEMMA UntouchedFits ==
  ASSUME NEW a \in Attempts, AttemptFits(a), Untouched(a)
  PROVE  AttemptFits(a)'
BY DEF AttemptFits, Untouched

\* What a step may do to the record and the order of a leg: a final order, and an
\* order that no run may create, stay as they are; so does a record of a failure.
LegProgress(r, rec, rec2, ord, ord2, l) ==
  /\ ord[l] \in {"FILLED", "CANCELLED"} => ord2[l] = ord[l]
  /\ ord[l] # "NONE" => ord2[l] # "NONE"
  /\ ord[l] = "NONE" /\ ~r.fresh => ord2[l] = "NONE"
  /\ rec[l] = "FAILED" => rec2[l] = "FAILED"

\* A step of one leg keeps the fit of its attempt when it keeps that of the leg.
LEMMA LegFits ==
  ASSUME NEW st, NEW step, NEW s, NEW res, NEW r, NEW r2, NEW rec, NEW rec2,
         NEW ord \in [Legs -> LegOrders], NEW ord2, NEW l \in Legs,
         Fits(st, step, s, r, rec, ord, res),
         r2.at = r.at \/ (r.at # "idle" /\ r2.at # "idle"), r2.fresh = r.fresh,
         \A k \in Legs \ {l} :
           /\ rec2[k] = rec[k] /\ ord2[k] = ord[k]
           /\ r2.wait[k] = r.wait[k] /\ r2.got[k] = r.got[k]
           /\ HasCalled(r2, k) <=> HasCalled(r, k),
         LegProgress(r, rec, rec2, ord, ord2, l),
         RecordFits(r2, rec2, ord2, l), AnswerFits(r2, rec2, ord2, l)
  PROVE  Fits(st, step, s, r2, rec2, ord2, res)
<1>1. StageFits(st, step, s, r2, res)
  BY DEF Fits, StageFits
<1>2. \A k \in Legs : LegProgress(r, rec, rec2, ord, ord2, k)
  BY DEF LegProgress
<1>3. ASSUME NEW k \in Legs PROVE RecordFits(r2, rec2, ord2, k) /\ AnswerFits(r2, rec2, ord2, k)
  BY DEF Fits, RecordFits, AnswerFits, ResultIsTrue
<1>4. ASSUME NEW k \in Legs PROVE SessionFits(s, rec2, ord2, k)
  <2>1. SessionFits(s, rec, ord, k) /\ StageFits(st, step, s, r, res)
    BY DEF Fits
  <2>2. s.state = "FAILED" => ~r.fresh
    BY <2>1 DEF StageFits
  <2> QED BY <1>2, <2>1, <2>2 DEF SessionFits, ResultIsTrue, LegProgress
<1>5. SettledFits(st, rec2, ord2)
  <2>1. CASE st \in {"FINALIZED", "RESOLVED"}
    <3>1. ~r.fresh
      BY <2>1 DEF Fits, StageFits
    <3>2. OrdersBalanced(ord) => ord2["buy"] = ord["buy"] /\ ord2["sell"] = ord["sell"]
      BY <1>2, <3>1 DEF OrdersBalanced, LegProgress, Legs, LegOrders
    <3>3. OrdersBalanced(ord) => OrdersBalanced(ord2)
      BY <3>2 DEF OrdersBalanced, Legs
    <3>4. OrdersDenied(rec, ord) => OrdersDenied(rec2, ord2)
      BY <1>2 DEF OrdersDenied, LegProgress
    <3> QED BY <2>1, <3>3, <3>4 DEF Fits, SettledFits
  <2> QED BY <2>1 DEF SettledFits
<1> QED BY <1>1, <1>3, <1>4, <1>5 DEF Fits
\* Nothing but the leg's record, order, call and answer changes with its step.
LEMMA LegStepFits ==
  ASSUME PairInv, NEW a \in Attempts, NEW l \in Legs, Leg(a, l),
         LegProgress(run[a], record[a], record'[a], order[a], order'[a], l),
         RecordFits(run'[a], record'[a], order'[a], l),
         AnswerFits(run'[a], record'[a], order'[a], l)
  PROVE  \A b \in Attempts : AttemptFits(b)'
<1>1. UNCHANGED <<authorityVars, attempt, session, writeFailed, resolutionVars, restarts>>
  BY DEF Leg, CallLeg, CreateAccepted, CreateRefused, ReplyLost, PollEnds, ReadEnds, Decide,
         pairVars
<1>2. RecordsLeg(a, l) /\ OrdersLeg(a, l) /\ RunsLeg(a, l)
  BY LegStep DEF PairInv, DispatchInv
<1>3. \A b \in Attempts : State(b)' = State(b)
  BY <1>1, JournalKept DEF authorityVars
<1>4. ASSUME NEW b \in Attempts \ {a} PROVE AttemptFits(b)'
  <2>1. Untouched(b)
    BY <1>1, <1>2, <1>3 DEF Untouched, RecordsLeg, OrdersLeg, RunsLeg, resolutionVars
  <2> QED BY <2>1, UntouchedFits DEF PairInv
<1>5. AttemptFits(a)'
  <2> DEFINE res == a \in resolved
             st == State(a)
             r == run[a]
             r2 == run'[a]
             rec2 == record'[a]
             ord2 == order'[a]
  <2>1. /\ order[a] \in [Legs -> LegOrders]
        /\ Fits(st, attempt[a], session[a], r, record[a], order[a], res)
    BY DEF PairInv, DispatchInv, TypeOK, AttemptFits
  <2>2. /\ r2.at = r.at \/ (r.at # "idle" /\ r2.at # "idle")
        /\ r2.fresh = r.fresh
        /\ \A k \in Legs \ {l} :
             /\ rec2[k] = record[a][k] /\ ord2[k] = order[a][k]
             /\ r2.wait[k] = r.wait[k] /\ r2.got[k] = r.got[k]
             /\ HasCalled(r2, k) <=> HasCalled(r, k)
    BY <1>2 DEF RecordsLeg, OrdersLeg, RunsLeg, NextPoint, HasCalled, Legs
  <2>3. /\ LegProgress(r, record[a], rec2, order[a], ord2, l)
        /\ RecordFits(r2, rec2, ord2, l) /\ AnswerFits(r2, rec2, ord2, l)
    OBVIOUS
  <2>4. /\ State(a)' = State(a) /\ attempt'[a] = attempt[a] /\ session'[a] = session[a]
        /\ (a \in resolved') = (a \in resolved)
    BY <1>1, <1>3 DEF resolutionVars
  <2> HIDE DEF res, st, r, r2, rec2, ord2
  <2>5. Fits(st, attempt[a], session[a], r2, rec2, ord2, res)
    BY <2>1, <2>2, <2>3, LegFits
  <2> QED BY <2>4, <2>5 DEF AttemptFits, res, st, r2, rec2, ord2
<1> QED BY <1>4, <1>5

\* What holds of a leg before its step.
LEMMA LegBefore ==
  ASSUME PairInv, NEW a \in Attempts, NEW l \in Legs
  PROVE  /\ RecordFits(run[a], record[a], order[a], l)
         /\ AnswerFits(run[a], record[a], order[a], l)
         /\ order[a][l] \in LegOrders /\ record[a][l] \in LegRecords
         /\ run[a].wait[l] \in Kinds /\ run[a].got[l] \in Answers
         /\ run[a].wait[l] = "read" => record[a][l] \in Read
<1>1. /\ run[a] \in Runs /\ order[a] \in [Legs -> LegOrders] /\ record[a] \in [Legs -> LegRecords]
      /\ AttemptFits(a) /\ ReadsKnown
  BY DEF PairInv, DispatchInv, TypeOK
<1>2. run[a].wait \in [Legs -> Kinds] /\ run[a].got \in [Legs -> Answers]
  BY <1>1 DEF Runs, Kinds
<1> QED BY <1>1, <1>2 DEF AttemptFits, Fits, ReadsKnown

\* What a gateway answers about a result of a leg.
AnswerSays(g, result) ==
  /\ g.result \in {"NONE", result}
  /\ g.possibleExposure \/ (g.result = result /\ result # "OPEN")

\* Each answer about a result names that result or admits possible exposure.
LEMMA TellsWhatItHas ==
  ASSUME NEW result \in Outcomes \ {"NONE"}, NEW g \in Tells(result) \cup {Uncertain, Rejected}
  PROVE  g \in Answers /\ AnswerSays(g, result)
<1>1. /\ Uncertain \in Answers /\ Rejected \in Answers
      /\ Incomplete(result) \in Answers /\ Enriched(result) \in Answers
  BY BlockTypes
<1>2. g \in {Enriched(result), Incomplete(result), Uncertain, Rejected}
  BY DEF Tells
<1>3. AnswerSays(Uncertain, result) /\ AnswerSays(Rejected, result)
  BY DEF Uncertain, Rejected, AnswerSays
<1>4. AnswerSays(Incomplete(result), result)
  BY DEF Incomplete, AnswerSays
<1>5. AnswerSays(Enriched(result), result)
  BY DEF Enriched, AnswerSays
<1> QED BY <1>1, <1>2, <1>3, <1>4, <1>5

\* A reply to an awaited submission leaves a record and an answer that are true, if
\* the result in it is.
LEMMA ReceivesFits ==
  ASSUME PairInv, NEW a \in Attempts, NEW l \in Legs, NEW result \in Outcomes \ {"NONE"},
         Receives(a, l, result), run[a].wait[l] \in {"create", "poll"},
         result \in {"FILLED", "CANCELLED"} => order'[a][l] = result,
         result = "OPEN" => order'[a][l] # "NONE"
  PROVE  /\ RecordFits(run'[a], record'[a], order'[a], l)
         /\ AnswerFits(run'[a], record'[a], order'[a], l)
         /\ record[a][l] = "UNKNOWN"
<1>0. record[a][l] = "UNKNOWN"
  BY LegBefore DEF RecordFits
<1>1. /\ result \in LegRecords /\ "UNKNOWN" \in LegRecords /\ "UNSAVED" \in LegRecords
      /\ TypeOK
  BY DEF LegRecords, Outcomes, Final, PairInv, DispatchInv
<1>2. \/ record'[a][l] = result /\ \E g \in Tells(result) : run' = Answered(a, l, g)
      \/ /\ record'[a][l] \in {"UNKNOWN", "UNSAVED"}
         /\ \E g \in {Uncertain, Rejected} : run' = Answered(a, l, g)
  BY <1>1, NotesType DEF Receives
<1>3. PICK g \in Tells(result) \cup {Uncertain, Rejected} :
        /\ run' = Answered(a, l, g)
        /\ \/ record'[a][l] = result
           \/ record'[a][l] \in {"UNKNOWN", "UNSAVED"} /\ g \in {Uncertain, Rejected}
  BY <1>2
<1>4. g \in Answers /\ AnswerSays(g, result)
  BY TellsWhatItHas
<1>5. run'[a].wait[l] = "no" /\ run'[a].got[l] = g
  BY <1>1, <1>3, <1>4, AnswerRuns
<1>6. RecordFits(run'[a], record'[a], order'[a], l)
  BY <1>3, <1>5 DEF RecordFits, Outcomes, Final
<1>7. g \in {Uncertain, Rejected} => g.result = "NONE" /\ g.possibleExposure
  BY DEF Uncertain, Rejected
<1>8. AnswerFits(run'[a], record'[a], order'[a], l)
  BY <1>3, <1>4, <1>5, <1>7 DEF AnswerFits, AnswerSays, ResultIsTrue
<1> QED BY <1>0, <1>6, <1>8
\* An answer that says no more than is so.
LEMMA CallFits ==
  ASSUME PairInv, NEW a \in Attempts, NEW l \in Legs, CallLeg(a, l)
  PROVE  /\ LegProgress(run[a], record[a], record'[a], order[a], order'[a], l)
         /\ RecordFits(run'[a], record'[a], order'[a], l)
         /\ AnswerFits(run'[a], record'[a], order'[a], l)
<1> DEFINE known == record[a][l]
           held == order[a][l]
<1>0. /\ TypeOK /\ run[a].at = l /\ order' = order
      /\ known = "NONE" => held = "NONE"
      /\ known = "OPEN" => held # "NONE"
      /\ known \in {"FILLED", "CANCELLED"} => held = known
      /\ run'[a].fresh = run[a].fresh
  <2>1. RecordFits(run[a], record[a], order[a], l)
    BY LegBefore
  <2>2. TypeOK /\ RunsLeg(a, l)
    BY CallLegStep DEF PairInv, DispatchInv
  <2> QED BY <2>1, <2>2 DEF RecordFits, RunsLeg, CallLeg
<1>1. \/ known = "NONE" /\ ~run[a].fresh /\ CalledAndAnswered(a, l, Blocked) /\ UNCHANGED record
      \/ known = "NONE" /\ run[a].fresh /\ Notes(a, l, "UNKNOWN") /\ CalledAndAwaited(a, l, "create")
      \/ known # "FAILED" /\ CalledAndAnswered(a, l, Rejected) /\ Notes(a, l, "UNSAVED")
      \/ CalledAndAnswered(a, l, Rejected) /\ UNCHANGED record
      \/ CalledAndAnswered(a, l, Uncertain) /\ UNCHANGED record
      \/ known = "FAILED" /\ CalledAndAnswered(a, l, Enriched("FAILED")) /\ UNCHANGED record
      \/ known \in Read /\ CalledAndAwaited(a, l, "read") /\ UNCHANGED record
  BY DEF CallLeg, Read, CalledAndAnswered, CalledAndAwaited, Moved, Waiting, NextPoint
<1>2. /\ "UNKNOWN" \in LegRecords /\ "UNSAVED" \in LegRecords /\ "FAILED" \in Outcomes
      /\ Blocked \in Answers /\ Rejected \in Answers /\ Uncertain \in Answers
      /\ Enriched("FAILED") \in Answers
  BY BlockTypes DEF LegRecords, Outcomes, Final
<1>3. ASSUME NEW g \in Answers, CalledAndAnswered(a, l, g)
      PROVE  run'[a].wait[l] = "no" /\ run'[a].got[l] = g
  BY <1>0, <1>3, CallAnswers DEF CalledAndAnswered
<1>4. /\ Blocked.result = "NONE" /\ Rejected.result = "NONE" /\ Rejected.possibleExposure
      /\ Uncertain.result = "NONE" /\ Uncertain.possibleExposure
      /\ Enriched("FAILED").result = "FAILED"
  BY DEF Blocked, Rejected, Uncertain, Enriched
<1> DEFINE Goal == /\ LegProgress(run[a], record[a], record'[a], order[a], order'[a], l)
                   /\ RecordFits(run'[a], record'[a], order'[a], l)
                   /\ AnswerFits(run'[a], record'[a], order'[a], l)
<1>5. CASE known = "NONE" /\ ~run[a].fresh /\ CalledAndAnswered(a, l, Blocked) /\ UNCHANGED record
  <2>1. run'[a].wait[l] = "no" /\ run'[a].got[l] = Blocked
    BY <1>2, <1>3, <1>5
  <2> QED BY <1>0, <1>4, <1>5, <2>1 DEF LegProgress, RecordFits, AnswerFits, ResultIsTrue
<1>6. CASE known = "NONE" /\ run[a].fresh /\ Notes(a, l, "UNKNOWN") /\ CalledAndAwaited(a, l, "create")
  <2>1. run'[a].wait[l] = "create"
    BY <1>0, <1>6, CallWaits DEF CalledAndAwaited
  <2>2. record'[a][l] = "UNKNOWN"
    BY <1>0, <1>2, <1>6, NotesType
  <2> QED BY <1>0, <1>6, <2>1, <2>2 DEF LegProgress, RecordFits, AnswerFits
<1>7. CASE known # "FAILED" /\ CalledAndAnswered(a, l, Rejected) /\ Notes(a, l, "UNSAVED")
  <2>1. run'[a].wait[l] = "no" /\ run'[a].got[l] = Rejected
    BY <1>2, <1>3, <1>7
  <2>2. record'[a][l] = "UNSAVED"
    BY <1>0, <1>2, <1>7, NotesType
  <2> QED BY <1>0, <1>4, <1>7, <2>1, <2>2 DEF LegProgress, RecordFits, AnswerFits, ResultIsTrue
<1>8. ASSUME NEW g \in {Rejected, Uncertain}, CalledAndAnswered(a, l, g), UNCHANGED record PROVE Goal
  <2>1. run'[a].wait[l] = "no" /\ run'[a].got[l] = g
    BY <1>2, <1>3, <1>8
  <2> QED BY <1>0, <1>4, <1>8, <2>1 DEF LegProgress, RecordFits, AnswerFits, ResultIsTrue
<1>9. CASE known = "FAILED" /\ CalledAndAnswered(a, l, Enriched("FAILED")) /\ UNCHANGED record
  <2>1. run'[a].wait[l] = "no" /\ run'[a].got[l] = Enriched("FAILED")
    BY <1>2, <1>3, <1>9
  <2> QED BY <1>0, <1>4, <1>9, <2>1 DEF LegProgress, RecordFits, AnswerFits, ResultIsTrue
<1>10. CASE known \in Read /\ CalledAndAwaited(a, l, "read") /\ UNCHANGED record
  <2>1. run'[a].wait[l] = "read"
    BY <1>0, <1>10, CallWaits DEF CalledAndAwaited
  <2> QED BY <1>0, <1>10, <2>1 DEF LegProgress, RecordFits, AnswerFits, Read
<1> QED BY <1>1, <1>5, <1>6, <1>7, <1>8, <1>9, <1>10

\* Every step of a leg.
LEMMA LegKeepsFit ==
  ASSUME PairInv, NEW a \in Attempts, NEW l \in Legs, Leg(a, l)
  PROVE  \A b \in Attempts : AttemptFits(b)'
<1> DEFINE Goal == /\ LegProgress(run[a], record[a], record'[a], order[a], order'[a], l)
                   /\ RecordFits(run'[a], record'[a], order'[a], l)
                   /\ AnswerFits(run'[a], record'[a], order'[a], l)
<1>0. /\ RecordFits(run[a], record[a], order[a], l)
      /\ AnswerFits(run[a], record[a], order[a], l)
      /\ order[a][l] \in LegOrders /\ TypeOK
      /\ run[a].wait[l] = "read" => record[a][l] \in Read
  BY LegBefore DEF PairInv, DispatchInv
<1>f. {"FAILED", "OPEN", "FILLED", "CANCELLED"} = Outcomes \ {"NONE"}
  BY DEF Outcomes, Final
<1>o. ASSUME NEW s \in LegOrders, order' = [order EXCEPT ![a][l] = s] PROVE order'[a][l] = s
  BY <1>0, <1>o, OrderType
<1>1. CASE CallLeg(a, l)
  BY <1>1, CallFits, LegStepFits
<1>2. CASE CreateAccepted(a, l)
  <2>1. order'[a][l] = "OPEN" /\ run[a].wait[l] = "create" /\ UNCHANGED record
    BY <1>2, <1>o DEF CreateAccepted, Places, LegOrders
  <2>2. run'[a].wait[l] = "poll"
    <3>1. run \in [Attempts -> Runs] /\ run' = Waiting(a, l, "poll") /\ "poll" \in Kinds
      BY <1>0, <1>2 DEF CreateAccepted, TypeOK, Waiting, Kinds
    <3>2. run[a] \in Runs
      BY <3>1
    <3>3. run[a].wait \in [Legs -> Kinds]
      BY <3>2 DEF Runs, Kinds
    <3>4. run'[a].wait = [run[a].wait EXCEPT ![l] = "poll"]
      BY <3>1, RunWaits
    <3> QED BY <3>3, <3>4
  <2>3. Goal
    BY <1>0, <2>1, <2>2 DEF LegProgress, RecordFits, AnswerFits
  <2> QED BY <2>3, LegStepFits
<1>3. CASE CreateRefused(a, l)
  <2>1. run[a].wait[l] = "create" /\ Receives(a, l, "FAILED") /\ UNCHANGED order
    BY <1>3 DEF CreateRefused
  <2>2. Goal
    BY <1>f, <2>1, ReceivesFits DEF LegProgress
  <2> QED BY <2>2, LegStepFits
<1>4. CASE ReplyLost(a, l)
  <2>1. /\ Receives(a, l, "FAILED") /\ run[a].wait[l] \in {"create", "poll"}
        /\ UNCHANGED order \/ (run[a].wait[l] = "create" /\ order'[a][l] = "OPEN")
    BY <1>4, <1>o DEF ReplyLost, Places, LegOrders
  <2>2. /\ record[a][l] = "UNKNOWN"
        /\ RecordFits(run'[a], record'[a], order'[a], l)
        /\ AnswerFits(run'[a], record'[a], order'[a], l)
    BY <1>f, <2>1, ReceivesFits
  <2>3. run[a].wait[l] = "create" => order[a][l] = "NONE" /\ run[a].fresh
    BY <1>0 DEF RecordFits
  <2>4. Goal
    BY <2>1, <2>2, <2>3 DEF LegProgress
  <2> QED BY <2>4, LegStepFits
<1>5. CASE PollEnds(a, l)
  <2>1. /\ run[a].wait[l] = "poll" /\ Receives(a, l, order'[a][l])
        /\ UNCHANGED order \/ (order[a][l] = "OPEN" /\ order'[a][l] = "CANCELLED")
    BY <1>5, <1>o DEF PollEnds, LegOrders
  <2>2. order[a][l] # "NONE" /\ order'[a][l] \in Outcomes \ {"NONE"}
    BY <1>0, <1>f, <2>1 DEF RecordFits, LegOrders
  <2>3. Goal
    BY <2>1, <2>2, ReceivesFits DEF LegProgress
  <2> QED BY <2>3, LegStepFits
<1>6. CASE ReadEnds(a, l)
  <2>1. order[a][l] \in {"OPEN", "FILLED", "CANCELLED"} /\ record[a][l] \in Read /\ UNCHANGED order
    BY <1>0, <1>6 DEF ReadEnds, RecordFits, Read, LegOrders
  <2>2. PICK result \in Read : /\ record'[a][l] = result
                               /\ result = order[a][l] \/ result = record[a][l]
                               /\ \E g \in Tells(result) \cup {Rejected, Incomplete(result)} :
                                    run' = Answered(a, l, g)
    <3>1. CASE Notes(a, l, order[a][l]) /\ \E g \in Tells(order[a][l]) : run' = Answered(a, l, g)
      <4>1. order[a][l] \in LegRecords /\ order[a][l] \in Read
        BY <2>1 DEF LegRecords, Read
      <4> QED BY <1>0, <3>1, <4>1, NotesType
    <3>2. CASE /\ \E g \in {Rejected, Incomplete(record[a][l])} : run' = Answered(a, l, g)
               /\ UNCHANGED record
      BY <2>1, <3>2
    <3> QED BY <1>6, <3>1, <3>2 DEF ReadEnds
  <2>3. PICK g \in Tells(result) \cup {Rejected, Incomplete(result)} : run' = Answered(a, l, g)
    BY <2>2
  <2>4. result \in Outcomes \ {"NONE"} /\ Incomplete(result) \in Tells(result)
    BY <1>f DEF Read, Tells
  <2>5. g \in Answers /\ AnswerSays(g, result)
    BY <2>4, TellsWhatItHas
  <2>6. run'[a].wait[l] = "no" /\ run'[a].got[l] = g
    BY <1>0, <2>3, <2>5, AnswerRuns
  <2>7. Goal
    <3>1. LegProgress(run[a], record[a], record'[a], order[a], order'[a], l)
      BY <2>1 DEF LegProgress, Read
    <3>2. result \in {"FILLED", "CANCELLED"} => order'[a][l] = result
      BY <1>0, <2>1, <2>2 DEF RecordFits
    <3>3. RecordFits(run'[a], record'[a], order'[a], l)
      BY <2>1, <2>2, <2>6, <3>2 DEF RecordFits, Read
    <3>4. AnswerFits(run'[a], record'[a], order'[a], l)
      BY <2>5, <2>6, <3>2 DEF AnswerFits, AnswerSays, ResultIsTrue, Read
    <3> QED BY <3>1, <3>3, <3>4
  <2> QED BY <2>7, LegStepFits
<1>7. CASE Decide(a, l)
  <2>1. /\ order[a][l] = "OPEN" /\ order'[a][l] \in {"FILLED", "CANCELLED"}
        /\ UNCHANGED <<run, record>>
    BY <1>7, <1>o DEF Decide, LegOrders, pairVars
  <2>2. Goal
    BY <1>0, <2>1 DEF LegProgress, RecordFits, AnswerFits, ResultIsTrue
  <2> QED BY <2>2, LegStepFits
<1> QED BY <1>1, <1>2, <1>3, <1>4, <1>5, <1>6, <1>7 DEF Leg

\* A pair that was never dispatched, one whose session says COMPLETED or FAILED, and
\* one with terminal balanced evidence are settled at the exchange.
SettledAtExchange(a) == OrdersBalanced(order[a]) \/ OrdersDenied(record[a], order[a])

\* What the states of a session say of the orders at the exchange.
LEMMA SettledPairs ==
  ASSUME PairInv, NEW a \in Attempts
  PROVE  /\ session[a].state \in {"NONE", "PREPARED"} => OrdersBalanced(order[a])
         /\ session[a].state = "COMPLETED" => \A l \in Legs : order[a][l] = "FILLED"
         /\ session[a].state = "FAILED" =>
              \/ OrdersDenied(record[a], order[a])
              \/ \A l \in Legs : order[a][l] \in {"NONE", "CANCELLED"}
         /\ session[a].state \in {"COMPLETED", "FAILED"} => SettledAtExchange(a)
         /\ terminalBalancedEvidence(session[a].results) => SettledAtExchange(a)
         /\ a \in resolved => SettledAtExchange(a)
<1>1. /\ order[a] \in [Legs -> LegOrders] /\ DispatchParts
      /\ \A l \in Legs : SessionFits(session[a], record[a], order[a], l)
      /\ StageFits(State(a), attempt[a], session[a], run[a], a \in resolved)
  BY DEF PairInv, DispatchInv, TypeOK, AttemptFits, Fits
<1>2. session[a].state \in {"NONE", "PREPARED"} => OrdersBalanced(order[a])
  <2>1. ASSUME session[a].state \in {"NONE", "PREPARED"} PROVE \A l \in Legs : order[a][l] = "NONE"
    BY <1>1, <2>1 DEF DispatchParts
  <2> QED BY <2>1 DEF OrdersBalanced, Legs
<1>3. session[a].state = "COMPLETED" => \A l \in Legs : order[a][l] = "FILLED"
  BY <1>1 DEF SessionFits, ResultIsTrue
<1>4. session[a].state = "FAILED" =>
        \/ OrdersDenied(record[a], order[a])
        \/ \A l \in Legs : order[a][l] \in {"NONE", "CANCELLED"}
  <2> SUFFICES ASSUME session[a].state = "FAILED", ~OrdersDenied(record[a], order[a]), NEW l \in Legs
               PROVE  order[a][l] \in {"NONE", "CANCELLED"}
    OBVIOUS
  <2> QED BY <1>1 DEF SessionFits, ResultIsTrue, OrdersDenied
<1>5. session[a].state \in {"COMPLETED", "FAILED"} => SettledAtExchange(a)
  BY <1>3, <1>4 DEF SettledAtExchange, OrdersBalanced, Legs
<1>6. terminalBalancedEvidence(session[a].results) => SettledAtExchange(a)
  <2> DEFINE results == session[a].results
  <2> SUFFICES ASSUME terminalBalancedEvidence(results), ~OrdersDenied(record[a], order[a])
               PROVE  OrdersBalanced(order[a])
    BY DEF SettledAtExchange
  <2>1. /\ results["buy"] \in Final /\ results["sell"] \in Final
        /\ results["buy"] = "FILLED" <=> results["sell"] = "FILLED"
    BY DEF terminalBalancedEvidence, mismatch, Fills, Legs
  <2>2. ASSUME NEW l \in Legs, results[l] \in Final
        PROVE  order[a][l] # "OPEN" /\ (order[a][l] = "FILLED" <=> results[l] = "FILLED")
    <3>1. ResultIsTrue(results[l], record[a], order[a], l)
      BY <1>1 DEF SessionFits
    <3>2. results[l] = "FAILED" => order[a][l] = "NONE"
      BY <3>1 DEF ResultIsTrue, OrdersDenied
    <3> QED BY <2>2, <3>1, <3>2 DEF ResultIsTrue, Final
  <2> QED BY <2>1, <2>2 DEF OrdersBalanced, Legs
<1>7. a \in resolved => SettledAtExchange(a)
  BY <1>1, <1>2, <1>6 DEF StageFits, SettledAtExchange
<1> QED BY <1>2, <1>3, <1>4, <1>5, <1>6, <1>7

\* What holds of an attempt before a step, in its parts.
LEMMA AttemptBefore ==
  ASSUME PairInv, NEW a \in Attempts
  PROVE  /\ StageFits(State(a), attempt[a], session[a], run[a], a \in resolved)
         /\ SettledFits(State(a), record[a], order[a])
         /\ \A l \in Legs : /\ RecordFits(run[a], record[a], order[a], l)
                            /\ AnswerFits(run[a], record[a], order[a], l)
                            /\ SessionFits(session[a], record[a], order[a], l)
         /\ DispatchParts /\ TypeOK
         /\ session[a] \in Sessions /\ run[a] \in Runs
         /\ record[a] \in [Legs -> LegRecords] /\ order[a] \in [Legs -> LegOrders]
BY DEF PairInv, AttemptFits, Fits, DispatchInv, TypeOK

\* Nothing but where its authority and its coordinator are changes of attempt a.
LEMMA RecordsFit ==
  ASSUME PairInv, NEW a \in Attempts, Records(a),
         StageFits(State(a)', attempt'[a], session[a], run[a], a \in resolved),
         SettledFits(State(a)', record[a], order[a])
  PROVE  \A b \in Attempts : AttemptFits(b)'
<1>1. UNCHANGED <<lapsed, pairVars, resolutionVars, gatewayVars, restarts>>
  BY DEF Records, Preview, Authorize, Cancel, Resolve, Consume, Block, BindPair, Finalize
<1>2. \A b \in Attempts \ {a} : State(b)' = State(b)
  BY RecordsBlock, JournalsRecords, JournalKept DEF PairInv, DispatchInv, TypeOK, Logs
<1>3. \A b \in Attempts \ {a} : attempt'[b] = attempt[b]
  BY DEF Records, Preview, Authorize, Cancel, Resolve, Consume, Block, BindPair, Finalize,
         Goes, PairInv, DispatchInv, TypeOK
<1>4. ASSUME NEW b \in Attempts \ {a} PROVE AttemptFits(b)'
  <2>1. Untouched(b)
    BY <1>1, <1>2, <1>3 DEF Untouched, pairVars, resolutionVars, gatewayVars
  <2> QED BY <2>1, UntouchedFits DEF PairInv
<1>5. AttemptFits(a)'
  <2>1. Fits(State(a)', attempt'[a], session[a], run[a], record[a], order[a], a \in resolved)
    BY AttemptBefore DEF Fits
  <2>2. /\ session' = session /\ run' = run /\ record' = record /\ order' = order
        /\ resolved' = resolved
    BY <1>1 DEF pairVars, resolutionVars, gatewayVars
  <2> QED BY <2>1, <2>2 DEF AttemptFits
<1> QED BY <1>4, <1>5
\* An authority is settled only when its two legs are.
LEMMA RecordsKeepFit ==
  ASSUME PairInv, NEW a \in Attempts, Records(a)
  PROVE  \A b \in Attempts : AttemptFits(b)'
<1> DEFINE Goal == /\ StageFits(State(a)', attempt'[a], session[a], run[a], a \in resolved)
                   /\ SettledFits(State(a)', record[a], order[a])
<1>0. /\ StageFits(State(a), attempt[a], session[a], run[a], a \in resolved)
      /\ SettledFits(State(a), record[a], order[a])
      /\ DispatchParts /\ journal \in Logs /\ attempt \in [Attempts -> Steps]
  BY AttemptBefore DEF TypeOK, Logs
<1>j. ASSUME NEW state \in AuthorityStates, Journals(a, state) PROVE State(a)' = state
  BY <1>0, <1>j, JournalsRecords
<1>k. UNCHANGED journal => State(a)' = State(a)
  BY JournalKept
<1>g. ASSUME NEW step \in Steps, Goes(a, step) PROVE attempt'[a] = step
  BY <1>0, <1>g DEF Goes
<1>n. session[a].state = "NONE" => SettledFits(State(a)', record[a], order[a])
  BY SettledPairs DEF SettledFits
<1>q. Quiet => attempt[a] \in {"idle", "waiting"}
  BY DEF Quiet
<1> USE DEF AuthorityStates, Steps
<1>1. CASE Preview(a)
  <2>1. State(a)' = "PREVIEWED" /\ State(a) = "NONE" /\ attempt'[a] = attempt[a]
    BY <1>1, <1>j DEF Preview
  <2> QED BY <1>0, <2>1, RecordsFit DEF StageFits, SettledFits, Early
<1>2. CASE Authorize(a)
  <2>1. State(a)' = "AUTHORIZED" /\ State(a) = "PREVIEWED" /\ attempt'[a] = attempt[a]
    BY <1>2, <1>j DEF Authorize
  <2> QED BY <1>0, <2>1, RecordsFit DEF StageFits, SettledFits, Early
<1>3. CASE Cancel(a)
  <2>1. /\ State(a)' = "CANCELLED" /\ State(a) \in {"PREVIEWED", "AUTHORIZED"}
        /\ attempt'[a] = attempt[a]
    BY <1>3, <1>j DEF Cancel
  <2> QED BY <1>0, <2>1, RecordsFit DEF StageFits, SettledFits, Early
<1>4. CASE Resolve(a)
  <2>1. /\ State(a)' = "RESOLVED" /\ attempt'[a] = attempt[a]
        /\ attempt[a] \in {"idle", "waiting"}
        /\ \/ State(a) = "CONSUMED" /\ ~Ever(a, "PAIR_BOUND")
           \/ a \in resolved \/ session[a].state = "NONE"
    BY <1>4, <1>j, <1>q DEF Resolve
  <2>2. session[a].state = "NONE" \/ a \in resolved
    BY <1>0, <2>1 DEF DispatchParts
  <2>3. attempt[a] = "idle"
    BY <1>0, <2>1, <2>2 DEF StageFits
  <2>4. SettledFits(State(a)', record[a], order[a])
    BY <2>2, SettledPairs DEF SettledFits, SettledAtExchange
  <2>5. StageFits(State(a)', attempt'[a], session[a], run[a], a \in resolved)
    BY <1>0, <2>1, <2>3 DEF StageFits, Early
  <2> QED BY <2>4, <2>5, RecordsFit
<1>5. CASE Consume(a)
  <2>1. State(a)' = "CONSUMED" /\ State(a) = "AUTHORIZED" /\ attempt'[a] = "consumed"
    BY <1>5, <1>j, <1>g DEF Consume
  <2> QED BY <1>0, <1>n, <2>1, RecordsFit DEF StageFits, Early
<1>6. CASE Block(a)
  <2>1. /\ attempt[a] = "consumed" /\ attempt'[a] = "idle"
        /\ State(a)' \in {"FINALIZED", State(a)}
    BY <1>6, <1>j, <1>k, <1>g DEF Block
  <2>2. session[a].state = "NONE" /\ State(a) = "CONSUMED"
    BY <1>0, <2>1 DEF StageFits
  <2>3. StageFits(State(a)', attempt'[a], session[a], run[a], a \in resolved)
    BY <1>0, <2>1, <2>2 DEF StageFits, Early
  <2> QED BY <1>n, <2>2, <2>3, RecordsFit
<1>7. CASE BindPair(a)
  <2>1. /\ attempt[a] = "consumed" /\ attempt'[a] = "bound" /\ State(a)' = "PAIR_BOUND"
    BY <1>7, <1>j, <1>g DEF BindPair
  <2> QED BY <1>0, <1>n, <2>1, RecordsFit DEF StageFits, Early
<1>8. CASE Finalize(a)
  <2>1. /\ attempt[a] \in {"returned", "failed"} /\ attempt'[a] = "idle"
        /\ \/ /\ State(a)' = IF RequiresRecovery(a) THEN "RECOVERY" ELSE "FINALIZED"
              /\ State(a) \in {"CONSUMED", "PAIR_BOUND"}
           \/ State(a)' = State(a)
    BY <1>8, <1>j, <1>k, <1>g DEF Finalize
  <2>2. session[a].state \in SessionStates
    BY AttemptBefore DEF Sessions
  <2>3. ~RequiresRecovery(a) => session[a].state \in {"COMPLETED", "FAILED"}
    BY <1>0, <2>1, <2>2 DEF RequiresRecovery, StageFits, SessionStates
  <2>4. SettledFits(State(a)', record[a], order[a])
    BY <1>0, <2>1, <2>3, SettledPairs DEF SettledFits, SettledAtExchange
  <2>5. StageFits(State(a)', attempt'[a], session[a], run[a], a \in resolved)
    BY <1>0, <2>1 DEF StageFits, Early
  <2> QED BY <2>4, <2>5, RecordsFit
<1> QED BY <1>1, <1>2, <1>3, <1>4, <1>5, <1>6, <1>7, <1>8 DEF Records

\* The pair's own steps touch one attempt, and none of its records and orders.
LEMMA PairFitsStep ==
  ASSUME PairInv, NEW a \in Attempts,
         UNCHANGED <<authorityVars, gatewayVars>>,
         \A b \in Attempts \ {a} :
           /\ attempt'[b] = attempt[b] /\ session'[b] = session[b] /\ run'[b] = run[b]
           /\ (b \in resolved') = (b \in resolved),
         StageFits(State(a), attempt'[a], session'[a], run'[a], a \in resolved'),
         \A l \in Legs : /\ RecordFits(run'[a], record[a], order[a], l)
                         /\ AnswerFits(run'[a], record[a], order[a], l)
                         /\ SessionFits(session'[a], record[a], order[a], l)
  PROVE  \A b \in Attempts : AttemptFits(b)'
<1>1. \A b \in Attempts : State(b)' = State(b)
  BY JournalKept DEF authorityVars
<1>2. record' = record /\ order' = order
  BY DEF gatewayVars
<1>3. ASSUME NEW b \in Attempts \ {a} PROVE AttemptFits(b)'
  <2>1. Untouched(b)
    BY <1>1, <1>2 DEF Untouched
  <2> QED BY <2>1, UntouchedFits DEF PairInv
<1>4. AttemptFits(a)'
  <2>1. Fits(State(a), attempt'[a], session'[a], run'[a], record[a], order[a], a \in resolved')
    BY AttemptBefore DEF Fits
  <2> QED BY <1>1, <1>2, <2>1 DEF AttemptFits
<1> QED BY <1>3, <1>4

\* A run that has not called its legs has nothing to be right about.
LEMMA RunAtStart ==
  ASSUME PairInv, NEW a \in Attempts, NEW fresh \in BOOLEAN,
         NEW r \in {NoRun, Starting(fresh)}
  PROVE  \A l \in Legs : RecordFits(r, record[a], order[a], l)
                         /\ AnswerFits(r, record[a], order[a], l)
<1>1. (\A l \in Legs : NoRun.wait[l] = "no") /\ NoRun.at = "idle"
  BY DEF NoRun
<1>2. (\A l \in Legs : Starting(fresh).wait[l] = "no") /\ Starting(fresh).at = "boundary"
  BY DEF NoRun, Starting
<1> QED BY <1>1, <1>2, AttemptBefore DEF RecordFits, AnswerFits, HasCalled
\* A write of the session that breaks off ends the run and leaves the rest.
LEMMA WriteBreaksFits ==
  ASSUME PairInv, NEW a \in Attempts, WriteBreaks(a), run[a].at # "idle",
         UNCHANGED <<authorityVars, gatewayVars>>
  PROVE  \A b \in Attempts : AttemptFits(b)'
<1>0. /\ StageFits(State(a), attempt[a], session[a], run[a], a \in resolved)
      /\ DispatchParts /\ run \in [Attempts -> Runs] /\ attempt \in [Attempts -> Steps]
      /\ run[a].fresh \in BOOLEAN
  BY AttemptBefore DEF TypeOK, Runs
<1>1. /\ run'[a] = NoRun /\ session' = session /\ resolved' = resolved
      /\ attempt'[a] = IF attempt[a] = "waiting" THEN "failed" ELSE attempt[a]
      /\ \A b \in Attempts \ {a} : attempt'[b] = attempt[b] /\ run'[b] = run[b]
  BY <1>0 DEF WriteBreaks, Wakes
<1>2. NoRun.at = "idle" /\ NoRun.fresh = FALSE
  BY DEF NoRun
<1>3. StageFits(State(a), attempt'[a], session'[a], run'[a], a \in resolved')
  BY <1>0, <1>1, <1>2 DEF StageFits, DispatchParts, Early
<1>4. ASSUME NEW l \in Legs
      PROVE  /\ RecordFits(run'[a], record[a], order[a], l)
             /\ AnswerFits(run'[a], record[a], order[a], l)
             /\ SessionFits(session'[a], record[a], order[a], l)
  BY <1>1, RunAtStart, AttemptBefore
<1> QED BY <1>1, <1>3, <1>4, PairFitsStep

\* What the pair records of the two answers is what they say, and they are true.
LEMMA VerdictFits ==
  ASSUME PairInv, NEW a \in Attempts, run[a].at = "await",
         \A l \in Legs : run[a].wait[l] = "no",
         NEW s, s.state = Verdict(run[a].got, s.results),
         s.results = [l \in Legs |-> run[a].got[l].result]
  PROVE  \A l \in Legs : SessionFits(s, record[a], order[a], l)
<1> DEFINE got == run[a].got
<1>1. /\ \A l \in Legs : AnswerFits(run[a], record[a], order[a], l)
      /\ got \in [Legs -> Answers]
  BY AttemptBefore DEF Runs
<1>2. ASSUME NEW l \in Legs
      PROVE  /\ ResultIsTrue(s.results[l], record[a], order[a], l)
             /\ s.results[l] = got[l].result /\ got[l].result \in Outcomes
             /\ got[l].result = "OPEN" => got[l].possibleExposure
             /\ got[l].result = "NONE" /\ ~got[l].possibleExposure => order[a][l] = "NONE"
  BY <1>1 DEF AnswerFits, HasCalled, Answers
<1>3. s.state = "COMPLETED" => s.results["buy"] = "FILLED" /\ s.results["sell"] = "FILLED"
  BY DEF Verdict, mismatch, Fills
<1>4. s.state = "FAILED" => /\ \A l \in Legs : ~got[l].possibleExposure
                            /\ s.results["buy"] # "FILLED" /\ s.results["sell"] # "FILLED"
  BY DEF Verdict, mismatch, Fills
<1> SUFFICES ASSUME NEW l \in Legs PROVE SessionFits(s, record[a], order[a], l)
  OBVIOUS
<1>5. l = "buy" \/ l = "sell"
  BY DEF Legs
<1>6. s.state = "COMPLETED" => s.results[l] = "FILLED"
  BY <1>3, <1>5
<1>7. s.state = "FAILED" => s.results[l] \in {"NONE", "CANCELLED", "FAILED"}
  BY <1>2, <1>4, <1>5 DEF Outcomes, Final
<1>8. s.state = "FAILED" /\ s.results[l] = "NONE" => order[a][l] = "NONE"
  BY <1>2, <1>4
<1> QED BY <1>2, <1>6, <1>7, <1>8 DEF SessionFits

\* The steps of the pair run keep every attempt in agreement.
LEMMA PairKeepsFit ==
  ASSUME PairInv, NEW a \in Attempts, Pair(a) \/ Prepare(a)
  PROVE  \A b \in Attempts : AttemptFits(b)'
<1>0. /\ StageFits(State(a), attempt[a], session[a], run[a], a \in resolved)
      /\ DispatchParts /\ run \in [Attempts -> Runs] /\ attempt \in [Attempts -> Steps]
      /\ session \in [Attempts -> Sessions] /\ resolved \in SUBSET Attempts
      /\ session[a] \in Sessions /\ run[a] \in Runs /\ run[a].fresh \in BOOLEAN
  BY AttemptBefore DEF TypeOK, Runs
<1>1. UNCHANGED <<authorityVars, gatewayVars>>
  BY DEF Pair, CrossBoundary, FinishPair, Prepare
<1>2. ASSUME WriteBreaks(a), run[a].at # "idle" PROVE \A b \in Attempts : AttemptFits(b)'
  BY <1>1, <1>2, WriteBreaksFits
<1>3. CASE Prepare(a)
  <2>1. /\ attempt[a] = "bound" /\ session[a].state = "NONE" /\ resolved' = resolved
        /\ \A b \in Attempts \ {a} :
             attempt'[b] = attempt[b] /\ session'[b] = session[b] /\ run'[b] = run[b]
    BY <1>0, <1>3 DEF Prepare, Goes, resolutionVars
  <2>2. /\ State(a) = "PAIR_BOUND" /\ session[a].results = NoResults /\ a \notin resolved
        /\ ~run[a].fresh /\ run[a].at = "idle"
    <3>1. ~terminalBalancedEvidence(NoResults)
      BY DEF terminalBalancedEvidence, NoResults, Final, Legs
    <3> QED BY <1>0, <2>1, <3>1 DEF StageFits, DispatchParts
  <2>3. CASE UNCHANGED <<session, run>>
    <3>1. attempt'[a] = "failed" \/ (attempt'[a] = "waiting" /\ session'[a].state = "PREPARED")
      <4>1. CASE Goes(a, "failed")
        BY <1>0, <4>1 DEF Goes
      <4>2. CASE session' = [session EXCEPT ![a].state = "PREPARED"]
        BY <1>0, <2>1, <2>3, <4>2 DEF Sessions
      <4> QED BY <1>3, <4>1, <4>2 DEF Prepare
    <3>2. attempt'[a] = "failed"
      BY <2>1, <2>3, <3>1
    <3>3. StageFits(State(a), attempt'[a], session'[a], run'[a], a \in resolved')
      BY <1>0, <2>1, <2>2, <2>3, <3>2 DEF StageFits, Early
    <3> QED BY <1>1, <2>1, <2>3, <3>3, AttemptBefore, PairFitsStep
  <2>4. CASE ~UNCHANGED <<session, run>>
    <3> DEFINE s == [session[a] EXCEPT !.state = "PREPARED"]
    <3>1. session'[a] = s /\ run'[a] = Starting(TRUE) /\ attempt'[a] = "waiting"
      BY <1>0, <1>3, <2>4 DEF Prepare, Goes
    <3>2. s.state = "PREPARED" /\ s.results = session[a].results
      BY <1>0 DEF Sessions
    <3> HIDE DEF s
    <3>3. Starting(TRUE).fresh = TRUE /\ Starting(TRUE).at = "boundary"
      BY DEF Starting, NoRun
    <3>4. StageFits(State(a), attempt'[a], session'[a], run'[a], a \in resolved')
      BY <2>1, <2>2, <3>1, <3>2, <3>3 DEF StageFits, Early
    <3>5. ASSUME NEW l \in Legs
          PROVE  /\ RecordFits(run'[a], record[a], order[a], l)
                 /\ AnswerFits(run'[a], record[a], order[a], l)
                 /\ SessionFits(session'[a], record[a], order[a], l)
      <4>1. s.results[l] = "NONE"
        BY <2>2, <3>2 DEF NoResults
      <4>2. SessionFits(s, record[a], order[a], l)
        BY <3>2, <4>1 DEF SessionFits, ResultIsTrue
      <4> QED BY <3>1, <4>2, RunAtStart
    <3> QED BY <1>1, <2>1, <3>4, <3>5, PairFitsStep
  <2> QED BY <2>3, <2>4
<1>4. CASE CrossBoundary(a)
  <2>0. run[a].at = "boundary"
    BY <1>4 DEF CrossBoundary
  <2>1. CASE ~WriteBreaks(a)
    <3> DEFINE s == [session[a] EXCEPT !.state = "DISPATCHING"]
               r == [run[a] EXCEPT !.at = "buy"]
    <3>1. /\ session'[a] = s /\ run'[a] = r /\ attempt' = attempt /\ a \notin resolved'
          /\ \A b \in Attempts \ {a} : session'[b] = session[b] /\ run'[b] = run[b]
                                       /\ (b \in resolved') = (b \in resolved)
      BY <1>0, <1>4, <2>1 DEF CrossBoundary, Writes
    <3>2. s.state = "DISPATCHING" /\ s.results = session[a].results
      BY <1>0 DEF Sessions
    <3>3. r.at = "buy" /\ SameCalls(r, run[a])
      BY <1>0 DEF Runs, SameCalls
    <3> HIDE DEF s, r
    <3>4. StageFits(State(a), attempt'[a], session'[a], run'[a], a \in resolved')
      BY <1>0, <2>0, <3>1, <3>2, <3>3 DEF StageFits, DispatchParts, SameCalls
    <3>5. ASSUME NEW l \in Legs
          PROVE  /\ RecordFits(run'[a], record[a], order[a], l)
                 /\ AnswerFits(run'[a], record[a], order[a], l)
                 /\ SessionFits(session'[a], record[a], order[a], l)
      BY <3>1, <3>2, <3>3, AttemptBefore
      DEF RecordFits, AnswerFits, SessionFits, SameCalls, HasCalled
    <3> QED BY <1>1, <3>1, <3>4, <3>5, PairFitsStep
  <2> QED BY <1>2, <2>0, <2>1
<1>5. CASE FinishPair(a)
  <2>0. run[a].at = "await" /\ \A l \in Legs : run[a].wait[l] = "no"
    BY <1>5 DEF FinishPair
  <2>1. CASE ~WriteBreaks(a)
    <3> DEFINE results == [l \in Legs |-> run[a].got[l].result]
               s == [state |-> Verdict(run[a].got, results), results |-> results]
    <3>1. /\ session'[a] = s /\ run'[a] = NoRun /\ a \notin resolved'
          /\ attempt'[a] = IF attempt[a] = "waiting" THEN "returned" ELSE attempt[a]
          /\ \A b \in Attempts \ {a} :
               /\ session'[b] = session[b] /\ run'[b] = run[b] /\ attempt'[b] = attempt[b]
               /\ (b \in resolved') = (b \in resolved)
      BY <1>0, <1>5, <2>1 DEF FinishPair, Writes, Wakes
    <3>2. /\ s.state = Verdict(run[a].got, s.results)
          /\ s.results = [l \in Legs |-> run[a].got[l].result]
      OBVIOUS
    <3> HIDE DEF s
    <3>3. s.state \notin {"NONE", "PREPARED", "DISPATCHING"}
      BY <3>2 DEF Verdict
    <3>4. NoRun.at = "idle" /\ NoRun.fresh = FALSE
      BY DEF NoRun
    <3>5. StageFits(State(a), attempt'[a], session'[a], run'[a], a \in resolved')
      BY <1>0, <2>0, <3>1, <3>3, <3>4 DEF StageFits, DispatchParts, Early
    <3>6. ASSUME NEW l \in Legs
          PROVE  /\ RecordFits(run'[a], record[a], order[a], l)
                 /\ AnswerFits(run'[a], record[a], order[a], l)
                 /\ SessionFits(session'[a], record[a], order[a], l)
      BY <2>0, <3>1, <3>2, RunAtStart, VerdictFits
    <3> QED BY <1>1, <3>1, <3>5, <3>6, PairFitsStep
  <2> QED BY <1>2, <2>0, <2>1
<1> QED BY <1>3, <1>4, <1>5 DEF Pair
\* A resolution is given only to a pair that nothing can be sent for any more.
LEMMA ResolutionKeepsFit ==
  ASSUME PairInv, NEW a \in Attempts, Resolution(a)
  PROVE  \A b \in Attempts : AttemptFits(b)'
<1>0. /\ StageFits(State(a), attempt[a], session[a], run[a], a \in resolved)
      /\ DispatchParts /\ run \in [Attempts -> Runs] /\ resolved \in SUBSET Attempts
      /\ \A l \in Legs : /\ RecordFits(run[a], record[a], order[a], l)
                         /\ AnswerFits(run[a], record[a], order[a], l)
                         /\ SessionFits(session[a], record[a], order[a], l)
  BY AttemptBefore DEF TypeOK
<1>1. UNCHANGED <<authorityVars, attempt, session, writeFailed, gatewayVars, restarts>>
  BY DEF Resolution, ResolveSession, PersistResolution, pairVars
<1>2. \/ UNCHANGED <<run, resolved>>
      \/ /\ Quiet /\ session[a].state = "PREPARED"
         /\ resolved' = resolved \cup {a} /\ UNCHANGED run
      \/ /\ Quiet /\ run[a].at = "idle" /\ run' = [run EXCEPT ![a] = Starting(FALSE)]
         /\ session[a].state \in UNRESOLVED_STATES \ {"PREPARED"} /\ UNCHANGED resolved
      \/ /\ terminalBalancedEvidence(session[a].results)
         /\ resolved' = resolved \cup {a} /\ UNCHANGED run
  BY DEF Resolution, ResolveSession, PersistResolution, pairVars
<1>3. Quiet => attempt[a] \in {"idle", "waiting"} /\ run[a].at \in {"idle", "await"}
  BY DEF Quiet
<1>4. CASE UNCHANGED <<run, resolved>>
  BY <1>0, <1>1, <1>4, PairFitsStep
<1>5. CASE /\ Quiet /\ session[a].state = "PREPARED"
           /\ resolved' = resolved \cup {a} /\ UNCHANGED run
  <2>1. ~run[a].fresh
    BY <1>0, <1>3, <1>5 DEF StageFits, DispatchParts, Past
  <2>2. a \in resolved' /\ \A b \in Attempts \ {a} : (b \in resolved') = (b \in resolved)
    BY <1>5
  <2>3. StageFits(State(a), attempt'[a], session'[a], run'[a], a \in resolved')
    BY <1>0, <1>1, <1>5, <2>1 DEF StageFits
  <2> QED BY <1>0, <1>1, <1>5, <2>2, <2>3, PairFitsStep
<1>6. CASE /\ Quiet /\ run[a].at = "idle" /\ run' = [run EXCEPT ![a] = Starting(FALSE)]
           /\ session[a].state \in UNRESOLVED_STATES \ {"PREPARED"} /\ UNCHANGED resolved
  <2>1. run'[a] = Starting(FALSE) /\ \A b \in Attempts \ {a} : run'[b] = run[b]
    BY <1>0, <1>6
  <2>2. Starting(FALSE).fresh = FALSE /\ Starting(FALSE).at = "boundary"
    BY DEF Starting, NoRun
  <2>3. attempt[a] = "idle" /\ ~run[a].fresh
    BY <1>0, <1>3, <1>6 DEF StageFits
  <2>4. StageFits(State(a), attempt'[a], session'[a], run'[a], a \in resolved')
    BY <1>0, <1>1, <1>6, <2>1, <2>2, <2>3 DEF StageFits
  <2>5. \A l \in Legs : RecordFits(run'[a], record[a], order[a], l)
                        /\ AnswerFits(run'[a], record[a], order[a], l)
    BY <2>1, RunAtStart
  <2> QED BY <1>0, <1>1, <1>6, <2>1, <2>4, <2>5, PairFitsStep
<1>7. CASE /\ terminalBalancedEvidence(session[a].results)
           /\ resolved' = resolved \cup {a} /\ UNCHANGED run
  <2>1. ~terminalBalancedEvidence(NoResults)
    BY DEF terminalBalancedEvidence, NoResults, Final, Legs
  <2>2. ~run[a].fresh
    BY <1>0, <1>7, <2>1 DEF StageFits
  <2>3. a \in resolved' /\ \A b \in Attempts \ {a} : (b \in resolved') = (b \in resolved)
    BY <1>7
  <2>4. StageFits(State(a), attempt'[a], session'[a], run'[a], a \in resolved')
    BY <1>0, <1>1, <1>7, <2>2 DEF StageFits
  <2> QED BY <1>0, <1>1, <1>7, <2>3, <2>4, PairFitsStep
<1> QED BY <1>2, <1>4, <1>5, <1>6, <1>7

\* A crash ends every run, and what a record may be reread as is as true.
LEMMA RestartKeepsFit ==
  ASSUME PairInv, Restart
  PROVE  \A a \in Attempts : AttemptFits(a)'
<1> SUFFICES ASSUME NEW a \in Attempts PROVE AttemptFits(a)'
  OBVIOUS
<1>0. /\ StageFits(State(a), attempt[a], session[a], run[a], a \in resolved)
      /\ SettledFits(State(a), record[a], order[a])
      /\ order[a] \in [Legs -> LegOrders]
      /\ \A l \in Legs : /\ RecordFits(run[a], record[a], order[a], l)
                         /\ SessionFits(session[a], record[a], order[a], l)
  BY AttemptBefore
<1>1. /\ attempt'[a] = "idle" /\ run'[a] = NoRun
      /\ UNCHANGED <<authorityVars, session, resolved, order>>
  BY DEF Restart
<1>2. /\ NoRun.at = "idle" /\ NoRun.fresh = FALSE /\ \A l \in Legs : NoRun.wait[l] = "no"
  BY DEF NoRun
<1>3. State(a)' = State(a)
  BY <1>1, JournalKept DEF authorityVars
<1>4. ASSUME NEW l \in Legs
      PROVE  \/ record'[a][l] = record[a][l]
             \/ record[a][l] = "UNSAVED" /\ record'[a][l] \in Older(a, l)
  <2>1. PICK older \in [Unsaved -> LegRecords] :
          /\ \A p \in Unsaved : older[p] \in Older(p[1], p[2])
          /\ record' = Reread(older)
    BY DEF Restart
  <2>2. record'[a][l] = IF <<a, l>> \in Unsaved THEN older[<<a, l>>] ELSE record[a][l]
    BY <2>1 DEF Reread
  <2>3. <<a, l>> \in Unsaved => record[a][l] = "UNSAVED" /\ older[<<a, l>>] \in Older(a, l)
    BY <2>1 DEF Unsaved
  <2> QED BY <2>2, <2>3
<1>5. ASSUME NEW l \in Legs
      PROVE  /\ RecordFits(NoRun, record'[a], order[a], l)
             /\ SessionFits(session[a], record'[a], order[a], l)
             /\ record[a][l] = "FAILED" => record'[a][l] = "FAILED"
  <2>1. order[a][l] \in {"NONE", "OPEN", "FILLED", "CANCELLED"}
    BY <1>0 DEF LegOrders
  <2> QED BY <1>0, <1>2, <1>4, <2>1 DEF RecordFits, SessionFits, ResultIsTrue, Older
<1>6. \A l \in Legs : AnswerFits(NoRun, record'[a], order[a], l)
  BY <1>2 DEF AnswerFits, HasCalled
<1>7. SettledFits(State(a), record'[a], order[a])
  BY <1>0, <1>5 DEF SettledFits, OrdersDenied
<1>8. StageFits(State(a), "idle", session[a], NoRun, a \in resolved)
  BY <1>0, <1>2 DEF StageFits
<1>9. Fits(State(a), "idle", session[a], NoRun, record'[a], order[a], a \in resolved)
  BY <1>5, <1>6, <1>7, <1>8 DEF Fits
<1> QED BY <1>1, <1>3, <1>9 DEF AttemptFits

\* Every step keeps the agreement.
LEMMA PairInvStep == PairInv /\ [Next]_vars => PairInv'
<1> SUFFICES ASSUME PairInv, [Next]_vars PROVE PairInv'
  OBVIOUS
<1>1. DispatchInv'
  BY DispatchStep DEF PairInv
<1>2. \A b \in Attempts : AttemptFits(b)'
  <2>1. ASSUME UNCHANGED <<journal, attempt, session, run, record, order, resolved>>
        PROVE  \A b \in Attempts : AttemptFits(b)'
    BY <2>1, JournalKept, UntouchedFits DEF Untouched, PairInv
  <2>2. ASSUME NEW a \in Attempts, Lapse(a) PROVE \A b \in Attempts : AttemptFits(b)'
    BY <2>1, <2>2 DEF Lapse, pairVars, resolutionVars, gatewayVars
  <2>3. ASSUME NEW a \in Attempts, Operator(a) \/ Coordinator(a)
        PROVE  \A b \in Attempts : AttemptFits(b)'
    BY <2>2, <2>3, RecordsKeepFit, PairKeepsFit DEF Operator, Coordinator, Records
  <2>4. ASSUME NEW a \in Attempts, Pair(a) \/ Resolution(a)
        PROVE  \A b \in Attempts : AttemptFits(b)'
    BY <2>4, PairKeepsFit, ResolutionKeepsFit
  <2>5. ASSUME NEW a \in Attempts, NEW l \in Legs, Leg(a, l)
        PROVE  \A b \in Attempts : AttemptFits(b)'
    BY <2>5, LegKeepsFit
  <2>6. CASE UNCHANGED vars
    BY <2>1, <2>6 DEF vars, authorityVars, pairVars, resolutionVars, gatewayVars
  <2> QED BY <2>3, <2>4, <2>5, <2>6, RestartKeepsFit DEF Next
<1> QED BY <1>1, <1>2 DEF PairInv

\* It holds initially.
LEMMA PairInvInit == Init => PairInv
<1> SUFFICES ASSUME Init PROVE PairInv
  OBVIOUS
<1>1. DispatchInv
  BY DispatchInit
<1>2. ASSUME NEW a \in Attempts PROVE AttemptFits(a)
  <2>1. /\ State(a) = "NONE" /\ attempt[a] = "idle" /\ session[a] = NoSession /\ run[a] = NoRun
        /\ a \notin resolved
        /\ \A l \in Legs : record[a][l] = "NONE" /\ order[a][l] = "NONE"
    BY DEF Init, State
  <2>2. /\ NoSession.state = "NONE" /\ NoSession.results = NoResults
        /\ \A l \in Legs : NoSession.results[l] = "NONE"
    BY DEF NoSession, NoResults
  <2>3. /\ NoRun.at = "idle" /\ NoRun.fresh = FALSE /\ \A l \in Legs : NoRun.wait[l] = "no"
    BY DEF NoRun
  <2>4. StageFits(State(a), attempt[a], session[a], run[a], a \in resolved)
    BY <2>1, <2>2, <2>3 DEF StageFits
  <2>5. SettledFits(State(a), record[a], order[a])
    BY <2>1 DEF SettledFits
  <2>6. ASSUME NEW l \in Legs
        PROVE  /\ RecordFits(run[a], record[a], order[a], l)
               /\ AnswerFits(run[a], record[a], order[a], l)
               /\ SessionFits(session[a], record[a], order[a], l)
    BY <2>1, <2>2, <2>3 DEF RecordFits, AnswerFits, HasCalled, SessionFits, ResultIsTrue
  <2> QED BY <2>4, <2>5, <2>6 DEF AttemptFits, Fits
<1> QED BY <1>1, <1>2 DEF PairInv

\* What a pair knows of its legs is true in every state.
THEOREM PairInvariant == Spec => []PairInv
BY PairInvInit, PairInvStep, PTL DEF Spec

\* A pair session that says COMPLETED or FAILED is right about both legs and stays
\* right, whatever replies are lost, appends fail and crashes come in between.
THEOREM VerdictsStayTrue == Spec => []VerdictsAreTrue
<1>1. PairInv => VerdictsAreTrue
  BY SettledPairs DEF VerdictsAreTrue, Denied, OrdersDenied
<1> QED BY <1>1, PairInvariant, PTL

\* A resolution stands only while both legs are settled and balanced.
THEOREM ResolutionsStayTrue == Spec => []ResolutionsAreTrue
<1>1. PairInv => ResolutionsAreTrue
  <2> SUFFICES ASSUME PairInv, NEW a \in resolved, ~Denied(a) PROVE Balanced(a)
    BY DEF ResolutionsAreTrue
  <2>1. a \in Attempts
    BY DEF PairInv, DispatchInv, TypeOK
  <2> QED BY <2>1, SettledPairs
    DEF SettledAtExchange, OrdersDenied, OrdersBalanced, Denied, Balanced
<1> QED BY <1>1, PairInvariant, PTL

\* The restart gate never says CLEAN while an attempt is exposed, whatever the next
\* start reads of the journals.
THEOREM GateStaysHonest == Spec => []GateIsHonest
<1>1. PairInv => GateIsHonest
  <2> SUFFICES ASSUME PairInv, classificationClean, NEW a \in Attempts
               PROVE  Balanced(a) \/ Denied(a)
    BY DEF GateIsHonest
  <2>1. session[a].state \in SessionStates
    BY AttemptBefore DEF Sessions
  <2>2. \/ session[a].state \in {"NONE", "COMPLETED", "FAILED"}
        \/ a \in resolved
    BY <2>1 DEF classificationClean, UNRESOLVED_STATES, SessionStates
  <2> QED BY <2>2, SettledPairs
    DEF SettledAtExchange, OrdersDenied, OrdersBalanced, Denied, Balanced
<1> QED BY <1>1, PairInvariant, PTL

\* An attempt with an open order or with one leg filled keeps blocking every other
\* until the exchange has settled it.
THEOREM ExposureKeepsBlocking == Spec => []ExposureBlocks
<1>1. PairInv => ExposureBlocks
  <2> SUFFICES ASSUME PairInv, NEW a \in Attempts, State(a) \notin Unsettled, ~Denied(a)
               PROVE  Balanced(a)
    BY DEF ExposureBlocks
  <2>1. State(a) \in AuthorityStates \cup {"NONE"}
    <3>1. journal[a] \in Seq(AuthorityStates)
      BY AttemptBefore DEF TypeOK
    <3> QED BY <3>1 DEF State
  <2>2. State(a) \in Early \/ State(a) \in {"FINALIZED", "RESOLVED"}
    BY <2>1 DEF AuthorityStates, Unsettled, Early
  <2>3. State(a) \in Early => session[a].state = "NONE"
    BY AttemptBefore DEF StageFits
  <2>4. State(a) \in {"FINALIZED", "RESOLVED"} => SettledAtExchange(a)
    BY AttemptBefore DEF SettledFits, SettledAtExchange
  <2> QED BY <2>2, <2>3, <2>4, SettledPairs
    DEF SettledAtExchange, OrdersDenied, OrdersBalanced, Denied, Balanced
<1> QED BY <1>1, PairInvariant, PTL

-----------------------------------------------------------------------------
(* The daily cap *)

\* The attempts that were consumed, and the one that still may be: consume() does not
\* look at the cap, so an authority takes its place under it when it is issued.
Consumed == {a \in Attempts : Ever(a, "CONSUMED")}
Issued == {a \in Attempts : State(a) = "AUTHORIZED" /\ a \notin lapsed}
CapInv == OneInv /\ Cardinality(Consumed \cup Issued) <= MaximumDailyAttempts

\* An append adds nothing but its state to what was ever recorded.
LEMMA JournalsAdds ==
  ASSUME journal \in Logs, NEW a \in Attempts, NEW state \in AuthorityStates,
         Journals(a, state), NEW b \in Attempts, NEW s, Ever(b, s)'
  PROVE  Ever(b, s) \/ (b = a /\ s = state)
<1> DEFINE log == Append(journal[a], state)
<1>1. journal'[a] = log /\ \A c \in Attempts \ {a} : journal'[c] = journal[c]
  BY DEF Journals, Logs
<1>2. CASE b # a
  BY <1>1, <1>2 DEF Ever
<1>3. CASE b = a
  <2>1. PICK i \in DOMAIN log : log[i] = s
    BY <1>1, <1>3 DEF Ever
  <2>2. CASE i \in DOMAIN journal[a]
    <3>1. log[i] = journal[a][i]
      BY <2>2 DEF Logs
    <3> QED BY <1>3, <2>1, <2>2, <3>1 DEF Ever
  <2>3. CASE i \notin DOMAIN journal[a]
    <3>1. log[i] = state
      BY <2>3 DEF Logs
    <3> QED BY <1>3, <2>1, <3>1
  <2> QED BY <2>2, <2>3
<1> QED BY <1>2, <1>3

\* Every set of attempts has a size, and a smaller set no larger one.
LEMMA SizesOfAttempts ==
  ASSUME NEW S \in SUBSET Attempts, NEW T \in SUBSET Attempts
  PROVE  /\ IsFiniteSet(S) /\ Cardinality(S) \in Nat
         /\ T \subseteq S => Cardinality(T) <= Cardinality(S)
         /\ \A a \in Attempts : T \subseteq S \cup {a} => Cardinality(T) <= Cardinality(S) + 1
<1>1. IsFiniteSet(S) /\ Cardinality(S) \in Nat
  BY AttemptsAssumption, FS_Subset, FS_CardinalityType
<1>2. T \subseteq S => Cardinality(T) <= Cardinality(S)
  BY <1>1, FS_Subset
<1>3. ASSUME NEW a \in Attempts, T \subseteq S \cup {a} PROVE Cardinality(T) <= Cardinality(S) + 1
  <2>1. /\ IsFiniteSet(S \cup {a})
        /\ Cardinality(S \cup {a}) = IF a \in S THEN Cardinality(S) ELSE Cardinality(S) + 1
    BY <1>1, FS_AddElement
  <2>2. Cardinality(T) <= Cardinality(S \cup {a}) /\ Cardinality(T) \in Nat
    BY <1>3, <2>1, FS_Subset, FS_CardinalityType
  <2> QED BY <1>1, <2>1, <2>2
<1> QED BY <1>1, <1>2, <1>3

\* An authority is issued only below the cap and while no other may be consumed.
LEMMA CapStep == CapInv /\ [Next]_vars => CapInv'
<1> SUFFICES ASSUME CapInv, [Next]_vars PROVE CapInv'
  OBVIOUS
<1>0. OneInv /\ OneInv' /\ journal \in Logs
  BY OneStep DEF CapInv, OneInv
<1> DEFINE Spent == Consumed \cup Issued
<1>s. Spent \in SUBSET Attempts /\ Spent' \in SUBSET Attempts /\ Consumed \in SUBSET Attempts
  BY DEF Consumed, Issued
<1>1. ASSUME Spent' \subseteq Spent PROVE CapInv'
  <2>1. /\ Cardinality(Spent') <= Cardinality(Spent)
        /\ Cardinality(Spent') \in Nat /\ Cardinality(Spent) \in Nat
    BY <1>1, <1>s, SizesOfAttempts
  <2> QED BY <1>0, <2>1, TinyLiveBoundsAssumption DEF CapInv
<1>2. ASSUME NEW a \in Attempts, Records(a) PROVE CapInv'
  <2>1. UNCHANGED lapsed
    BY <1>2, RecordsBlock
  <2>2. CASE UNCHANGED journal
    BY <1>1, <2>1, <2>2, JournalKept DEF Consumed, Issued, AuthorityStates
  <2>3. CASE Authorize(a)
    <3>1. /\ Journals(a, "AUTHORIZED") /\ "AUTHORIZED" \in AuthorityStates
          /\ Issued = {} /\ Cardinality(Consumed) < MaximumDailyAttempts
      BY <2>3 DEF Authorize, AuthorityStates, hasBlockingAuthority, Issued, Consumed, dailyAttempts
    <3>2. Spent' \subseteq Consumed \cup {a}
      <4>1. ASSUME NEW b \in Attempts, Ever(b, "CONSUMED")' PROVE b \in Consumed
        BY <1>0, <3>1, <4>1, JournalsAdds DEF Consumed
      <4>2. ASSUME NEW b \in Attempts, b # a PROVE b \notin Issued'
        BY <1>0, <2>1, <3>1, <4>2, JournalsRecords DEF Issued
      <4> QED BY <4>1, <4>2 DEF Consumed, Issued
    <3>3. /\ Cardinality(Spent') <= Cardinality(Consumed) + 1
          /\ Cardinality(Spent') \in Nat /\ Cardinality(Consumed) \in Nat
      BY <1>s, <3>2, SizesOfAttempts
    <3> QED BY <1>0, <3>1, <3>3, TinyLiveBoundsAssumption DEF CapInv
  <2>4. ASSUME NEW state \in AuthorityStates \ {"AUTHORIZED"}, Journals(a, state),
               state = "CONSUMED" => a \in Issued
        PROVE  CapInv'
    <3>1. ASSUME NEW b \in Attempts, Ever(b, "CONSUMED")' PROVE b \in Spent
      BY <1>0, <2>4, <3>1, JournalsAdds DEF Consumed
    <3>2. ASSUME NEW b \in Attempts, b \in Issued' PROVE b \in Issued
      BY <1>0, <2>1, <2>4, <3>2, JournalsRecords DEF Issued
    <3>3. Spent' \subseteq Spent
      BY <3>1, <3>2 DEF Consumed, Issued
    <3> QED BY <1>1, <3>3
  <2>5. CASE Consume(a)
    <3>1. Journals(a, "CONSUMED") /\ a \in Issued
      BY <2>5 DEF Consume, Issued
    <3> QED BY <2>4, <3>1 DEF AuthorityStates
  <2>6. CASE ~Authorize(a) /\ ~Consume(a)
    <3>1. UNCHANGED journal \/ \E state \in AuthorityStates \ {"AUTHORIZED", "CONSUMED"} : Journals(a, state)
      BY <1>2, <2>6
      DEF Records, Preview, Cancel, Resolve, Block, BindPair, Finalize, AuthorityStates
    <3> QED BY <2>2, <2>4, <3>1
  <2> QED BY <2>3, <2>5, <2>6
<1>3. ASSUME NEW a \in Attempts, Lapse(a) PROVE CapInv'
  <2>1. UNCHANGED journal /\ lapsed \subseteq lapsed'
    BY <1>3 DEF Lapse
  <2>2. Spent' \subseteq Spent
    BY <2>1, JournalKept DEF Consumed, Issued, AuthorityStates
  <2> QED BY <1>1, <2>2
<1>4. CASE \A a \in Attempts : ~Records(a) /\ ~Lapse(a)
  <2>1. UNCHANGED <<journal, lapsed>>
    BY <1>4, OthersKeepAuthorities DEF authorityVars
  <2>2. Spent' \subseteq Spent
    BY <2>1, JournalKept DEF Consumed, Issued, AuthorityStates
  <2> QED BY <1>1, <2>2
<1> QED BY <1>2, <1>3, <1>4

\* No more authorities are consumed on a day than the cap allows, although consume()
\* looks at no cap and several authorities may be previewed at a time.
THEOREM CapIsKept == Spec => []DailyCapKept
<1>1. Init => CapInv
  <2> SUFFICES ASSUME Init PROVE CapInv
    OBVIOUS
  <2>1. OneInv
    BY DEF Init, OneInv, Logs, Blocks, State, Unsettled
  <2>2. Consumed \cup Issued = {}
    BY DEF Init, Consumed, Issued, Ever, State
  <2>3. Cardinality({}) = 0
    BY FS_EmptySet
  <2> QED BY <2>1, <2>2, <2>3, TinyLiveBoundsAssumption DEF CapInv
<1>2. CapInv => DailyCapKept
  <2> SUFFICES ASSUME CapInv PROVE Cardinality(Consumed) <= MaximumDailyAttempts
    BY DEF DailyCapKept, dailyAttempts, Consumed
  <2>1. Consumed \in SUBSET Attempts /\ Consumed \cup Issued \in SUBSET Attempts
    BY DEF Consumed, Issued
  <2>2. /\ Cardinality(Consumed) <= Cardinality(Consumed \cup Issued)
        /\ Cardinality(Consumed) \in Nat /\ Cardinality(Consumed \cup Issued) \in Nat
    BY <2>1, SizesOfAttempts
  <2> QED BY <2>2, TinyLiveBoundsAssumption DEF CapInv
<1> QED BY <1>1, <1>2, CapStep, PTL DEF Spec
=============================================================================
