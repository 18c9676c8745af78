------------------------- MODULE CentralLiveDispatch ------------------------
(***************************************************************************)
(* The central LIVE execution spine of CAT-PRO: intake into the durable    *)
(* queue, the dispatcher that leases one plan, journals the dispatch and   *)
(* hands it to the lifecycle handler, and the outcome journal that makes a *)
(* restart resume instead of start over.                                   *)
(*                                                                         *)
(* Both services keep their records in memory and append the complete map  *)
(* to their own JSONL journal after every change, so memory can run ahead  *)
(* of the disk (an append that throws) and a crash falls back to the disk. *)
(* JavaScript runs one call at a time: `turn' is the synchronous call that *)
(* is under way, one journal write per step, and only a crash can come     *)
(* between its steps.  Handlers are asynchronous: `inFlight' counts the    *)
(* resume() calls of each plan that have not returned.                     *)
(*                                                                         *)
(* A queue record and a dispatch journal record are named by the plan they *)
(* were derived from (`central-live-queue:<plan>', ...), so both maps are  *)
(* indexed by plan.  Plans are numbers: their order is the order of ids.   *)
(***************************************************************************)
EXTENDS Integers, FiniteSets, JsonlSnapshotStore

CONSTANTS
  Plans,             \* plan ids
  EffectiveExpiry,   \* plan -> min(plan.expiresAt, actionAuthorityExpiresAt)
  LeaseTtl,          \* leaseTtlMs of the dispatcher
  MaximumRecords,    \* maximumRecords of the queue and of the outcome journal
  MaxClock,          \* bound on the clock
  MaxInFlight,       \* bound on concurrent resume() calls of one plan
  MaxRestarts,       \* bound on the number of crashes
  Redeployments,     \* sets of plans whose handler another build may register
  Faults             \* subset of FaultKinds that may happen

FaultKinds == {"crash", "failedAppend", "tornAppend", "failedRead"}

ASSUME PlansAssumption == Plans \subseteq Nat /\ IsFiniteSet(Plans)
ASSUME ExpiryAssumption == EffectiveExpiry \in [Plans -> Nat]
ASSUME BoundsAssumption ==
  /\ LeaseTtl \in Nat \ {0}
  /\ MaximumRecords \in Nat \ {0}
  /\ MaxClock \in Nat
  /\ MaxInFlight \in Nat
  /\ MaxRestarts \in Nat
  /\ Redeployments \subseteq SUBSET Plans
  /\ Faults \subseteq FaultKinds

VARIABLES
  clock,         \* Date.now()
  queue,         \* records of CentralLiveExecutionQueueService, in memory
  queueDisk,     \* logs/live/central-execution-queue.jsonl
  journal,       \* records of CentralLiveExecutionOutcomeJournalService
  journalDisk,   \* logs/live/central-outcome-journal.jsonl
  turn,          \* the synchronous call under way
  inFlight,      \* plan -> resume() calls that have not returned
  submitted,     \* plans for which an order has reached an exchange
  registered,    \* plans whose exact handler this build registers
  restarts       \* crashes so far

stores == <<queue, queueDisk, journal, journalDisk>>
vars == <<clock, queue, queueDisk, journal, journalDisk, turn, inFlight,
          submitted, registered, restarts>>

-----------------------------------------------------------------------------
(* Records *)

QueueStates == {"NONE", "QUEUED", "LEASED", "DISPATCHING", "COMPLETED",
                "REJECTED", "EXPIRED"}
JournalStates == {"NONE", "STARTED", "TERMINAL"}
Outcomes == {"COMPLETED", "REJECTED", "RECOVERY_REQUIRED"}

QueueRecords ==
  [state : QueueStates, queuedAt : Nat, leasedAt : Nat, leaseExpiresAt : Nat,
   dispatchStartedAt : Nat, orderSubmissionPerformed : BOOLEAN]

JournalRecords ==
  [state : JournalStates, startedAt : Nat, outcome : Outcomes \cup {"NONE"},
   orderSubmissionPerformed : BOOLEAN]

NoQueueRecord ==
  [state |-> "NONE", queuedAt |-> 0, leasedAt |-> 0, leaseExpiresAt |-> 0,
   dispatchStartedAt |-> 0, orderSubmissionPerformed |-> FALSE]

NoJournalRecord ==
  [state |-> "NONE", startedAt |-> 0, outcome |-> "NONE",
   orderSubmissionPerformed |-> FALSE]

Queues == [Plans -> QueueRecords]
Journals == [Plans -> JournalRecords]
NoQueue == [p \in Plans |-> NoQueueRecord]
NoJournal == [p \in Plans |-> NoJournalRecord]

Recorded(records) == {p \in Plans : records[p].state # "NONE"}
InState(s) == {p \in Plans : queue[p].state = s}
Pending == {p \in Plans : journal[p].state = "STARTED"}

Least(a, b) == IF a <= b THEN a ELSE b

-----------------------------------------------------------------------------
(* The synchronous call under way.  runOnce raises `running' when it starts *)
(* and its finally block lowers it when the synchronous part ends: resume() *)
(* is returned, not awaited, so a handler call does not hold the flag.      *)

Steps == {"idle", "begin", "dispatch", "resume", "progress", "acknowledge"}
Idle == [step |-> "idle", plan |-> 0]
At(step, p) == [step |-> step, plan |-> p]
Turns == {Idle} \cup [step : Steps \ {"idle"}, plan : Plans]

running == turn.step \in {"begin", "dispatch", "resume"}

-----------------------------------------------------------------------------
(* Journal writes.  An append returns, or it throws after the owner has     *)
(* already changed its memory.                                              *)

AppendBreaks(disk, next, s) ==
  \/ "failedAppend" \in Faults /\ next = disk
  \/ "tornAppend" \in Faults /\ next \in BrokenOff(disk, s) \ {disk}

\* persist() of the queue; the call goes on at `then', or ends in the throw.
SaveQueue(then) ==
  \/ queueDisk' = Appended(queueDisk, queue') /\ turn' = then
  \/ AppendBreaks(queueDisk, queueDisk', queue') /\ turn' = Idle

SaveJournal(then) ==
  \/ journalDisk' = Appended(journalDisk, journal') /\ turn' = then
  \/ AppendBreaks(journalDisk, journalDisk', journal') /\ turn' = Idle

\* The call throws before it changed anything.
Throw ==
  /\ turn' = Idle
  /\ UNCHANGED stores

-----------------------------------------------------------------------------
(* Queue *)

Requeued(r) == [r EXCEPT !.state = "QUEUED", !.leasedAt = 0, !.leaseExpiresAt = 0]
Expired(r) == [r EXCEPT !.state = "EXPIRED", !.leasedAt = 0, !.leaseExpiresAt = 0]

\* Seeded fault: the sweep treats a record being dispatched like a lease.
SweepsDispatching(p) ==
  IF queue[p].state # "NONE" /\ EffectiveExpiry[p] < clock THEN Expired(queue[p])
  ELSE queue[p]

\* Seeded fault: a lease that ran out is never taken back.
SweepsOnlyQueued(p) ==
  IF queue[p].state = "QUEUED" /\ EffectiveExpiry[p] < clock THEN Expired(queue[p])
  ELSE queue[p]

\* sweep(now): a lease that ran out is queued again while the plan is still
\* authorised; a plan whose authority ran out expires.  Records being
\* dispatched are never touched.
SweptRecord(p) ==
  IF queue[p].state = "LEASED" /\ queue[p].leaseExpiresAt < clock
       /\ EffectiveExpiry[p] >= clock
    THEN Requeued(queue[p])
  ELSE IF queue[p].state \in {"QUEUED", "LEASED"} /\ EffectiveExpiry[p] < clock
    THEN Expired(queue[p])
  ELSE queue[p]

Swept == [p \in Plans |-> SweptRecord(p)]

NewQueueRecord == [NoQueueRecord EXCEPT !.state = "QUEUED", !.queuedAt = clock]

\* enqueue() of a plan whose eligible admission is journaled.  A known plan is a
\* duplicate and changes nothing.
CanEnqueue(p) ==
  /\ turn = Idle
  /\ EffectiveExpiry[p] >= clock
  /\ queue[p].state = "NONE"

Enqueue(p) ==
  /\ CanEnqueue(p)
  /\ Cardinality(Recorded(queue)) < MaximumRecords
  /\ queue' = [Swept EXCEPT ![p] = NewQueueRecord]
  /\ SaveQueue(Idle)
  /\ UNCHANGED <<clock, journal, journalDisk, inFlight, submitted, registered, restarts>>

\* At capacity enqueue() throws, but its sweep has already changed the memory.
EnqueueAtCapacity(p) ==
  /\ CanEnqueue(p)
  /\ Cardinality(Recorded(queue)) >= MaximumRecords
  /\ queue' = Swept
  /\ UNCHANGED <<clock, queueDisk, journal, journalDisk, turn, inFlight,
                 submitted, registered, restarts>>

-----------------------------------------------------------------------------
(* Dispatcher: runOnce *)

RunOnce == turn = Idle /\ ~running

Before(p, q, at) == at[p] < at[q] \/ (at[p] = at[q] /\ p <= q)
Earliest(p, S, at) == p \in S /\ \A q \in S : Before(p, q, at)

Leasable == {p \in Plans : Swept[p].state = "QUEUED" /\ EffectiveExpiry[p] >= clock}

\* A record in DISPATCHING always comes first; the code takes the earliest, and
\* OneUnsettledDispatch says there is no other.  Without its journal record the run
\* only reports RECONCILIATION_REQUIRED.
ResumeDispatching(p) ==
  /\ RunOnce
  /\ p \in InState("DISPATCHING")
  /\ journal[p].state # "NONE"
  /\ journal[p].state = "STARTED" => inFlight[p] < MaxInFlight   \* bound
  /\ turn' = At("resume", p)
  /\ UNCHANGED <<clock, stores, inFlight, submitted, registered, restarts>>

\* Then the oldest pending journal record.  Only a leased queue record can take
\* it up; in any other state the run reports RECONCILIATION_REQUIRED.
ResumePending(p) ==
  /\ RunOnce
  /\ InState("DISPATCHING") = {}
  /\ Earliest(p, Pending, [q \in Plans |-> journal[q].startedAt])
  /\ queue[p].state = "LEASED"
  /\ turn' = At("dispatch", p)
  /\ UNCHANGED <<clock, stores, inFlight, submitted, registered, restarts>>

\* Seeded fault: new work starts although a journaled dispatch is pending.
LeasesBesidePending(p) ==
  /\ RunOnce
  /\ InState("DISPATCHING") = {}
  /\ Earliest(p, Leasable, [q \in Plans |-> queue[q].queuedAt])
  /\ queue' = [Swept EXCEPT ![p].state = "LEASED", ![p].leasedAt = clock,
                            ![p].leaseExpiresAt = EffectiveExpiry[p]]
  /\ SaveQueue(At("begin", p))
  /\ UNCHANGED <<clock, journal, journalDisk, inFlight, submitted, registered, restarts>>

\* Only then new work: leaseNext().
LeaseNext(p) ==
  /\ RunOnce
  /\ InState("DISPATCHING") = {} /\ Pending = {}
  /\ Earliest(p, Leasable, [q \in Plans |-> queue[q].queuedAt])
  /\ queue' = [Swept EXCEPT ![p].state = "LEASED",
                            ![p].leasedAt = clock,
                            ![p].leaseExpiresAt =
                              Least(clock + LeaseTtl, EffectiveExpiry[p])]
  /\ SaveQueue(At("begin", p))
  /\ UNCHANGED <<clock, journal, journalDisk, inFlight, submitted, registered, restarts>>

\* leaseNext() with nothing to lease still persists what its sweep changed.
SweepIdle ==
  /\ RunOnce
  /\ InState("DISPATCHING") = {} /\ Pending = {} /\ Leasable = {}
  /\ Swept # queue
  /\ queue' = Swept
  /\ SaveQueue(Idle)
  /\ UNCHANGED <<clock, journal, journalDisk, inFlight, submitted, registered, restarts>>

\* Seeded fault: begin() sets the record and forgets to persist it.
BeginsInMemory(p) ==
  /\ turn = At("begin", p)
  /\ journal' = [journal EXCEPT ![p] =
       [NoJournalRecord EXCEPT !.state = "STARTED", !.startedAt = clock]]
  /\ turn' = At("dispatch", p)
  /\ UNCHANGED <<clock, queue, queueDisk, journalDisk, inFlight, submitted,
                 registered, restarts>>

\* journal.begin(): idempotent by plan.
BeginJournal(p) ==
  /\ turn = At("begin", p)
  /\ IF journal[p].state # "NONE" THEN
       turn' = At("dispatch", p) /\ UNCHANGED stores
     ELSE IF Cardinality(Recorded(journal)) >= MaximumRecords THEN
       Throw
     ELSE
       /\ journal' = [journal EXCEPT ![p] =
            [NoJournalRecord EXCEPT !.state = "STARTED", !.startedAt = clock]]
       /\ SaveJournal(At("dispatch", p))
       /\ UNCHANGED <<queue, queueDisk>>
  /\ UNCHANGED <<clock, inFlight, submitted, registered, restarts>>

\* queue.beginDispatch(record, lease, journal id, now, journal.startedAt): the
\* lease must have been alive when the dispatch was journaled, not now.
HoldsLease(p) ==
  /\ queue[p].state = "LEASED"
  /\ queue[p].leasedAt <= journal[p].startedAt
  /\ journal[p].startedAt <= queue[p].leaseExpiresAt
  /\ journal[p].startedAt <= clock

\* Seeded fault: the dispatch is stamped with the time it is resumed at.
StampsResumption(p) ==
  /\ turn = At("dispatch", p)
  /\ queue[p].state = "LEASED"
  /\ queue' = [queue EXCEPT ![p].state = "DISPATCHING", ![p].dispatchStartedAt = clock]
  /\ SaveQueue(At("resume", p))
  /\ UNCHANGED <<clock, journal, journalDisk, inFlight, submitted, registered, restarts>>

BeginDispatch(p) ==
  /\ turn = At("dispatch", p)
  /\ IF HoldsLease(p) THEN
       /\ queue' = [queue EXCEPT ![p].state = "DISPATCHING",
                                 ![p].dispatchStartedAt = journal[p].startedAt,
                                 ![p].leasedAt = 0,
                                 ![p].leaseExpiresAt = 0]
       /\ SaveQueue(At("resume", p))
       /\ UNCHANGED <<journal, journalDisk>>
     ELSE Throw
  /\ UNCHANGED <<clock, inFlight, submitted, registered, restarts>>

-----------------------------------------------------------------------------
(* resume() and finalize() *)

\* journal.complete(): one outcome, ever.
Completed(p, outcome, performed) ==
  [journal EXCEPT ![p].state = "TERMINAL", ![p].outcome = outcome,
                  ![p].orderSubmissionPerformed = performed]

\* A dispatch that already has its outcome is only finalized.
ResumeTerminal(p) ==
  /\ turn = At("resume", p)
  /\ journal[p].state = "TERMINAL"
  /\ turn' = At("acknowledge", p)
  /\ UNCHANGED <<clock, stores, inFlight, submitted, registered, restarts>>

\* Without its exact handler the dispatch is rejected, and recorded as having
\* submitted nothing.
ResumeUnregistered(p) ==
  /\ turn = At("resume", p)
  /\ journal[p].state = "STARTED"
  /\ p \notin registered
  /\ journal' = Completed(p, "REJECTED", FALSE)
  /\ SaveJournal(At("acknowledge", p))
  /\ UNCHANGED <<clock, queue, queueDisk, inFlight, submitted, registered, restarts>>

\* handler.resume() is called and the event loop goes on.
CallHandler(p) ==
  /\ turn = At("resume", p)
  /\ journal[p].state = "STARTED"
  /\ p \in registered
  /\ inFlight' = [inFlight EXCEPT ![p] = @ + 1]
  /\ turn' = Idle
  /\ UNCHANGED <<clock, stores, submitted, registered, restarts>>

\* Seeded fault: a call returns more than once.
ReturnsAgain(p) == turn = Idle /\ inFlight' = [inFlight EXCEPT ![p] = @ - 1]

Returned(p) ==
  /\ turn = Idle
  /\ inFlight[p] > 0
  /\ inFlight' = [inFlight EXCEPT ![p] = @ - 1]

\* The handler gets an order to an exchange.
SubmitOrder(p) ==
  /\ turn = Idle
  /\ inFlight[p] > 0
  /\ p \notin submitted
  /\ submitted' = submitted \cup {p}
  /\ UNCHANGED <<clock, stores, turn, inFlight, registered, restarts>>

\* resume() throws: the dispatch stays STARTED.
HandlerThrows(p) ==
  /\ Returned(p)
  /\ UNCHANGED <<clock, stores, turn, submitted, registered, restarts>>

\* MONITORING: the progress is journaled, then recorded in the queue.
HandlerMonitors(p) ==
  LET performed == p \in submitted IN
  /\ Returned(p)
  /\ IF journal[p].state = "STARTED" /\ (journal[p].orderSubmissionPerformed => performed)
       THEN /\ journal' = [journal EXCEPT ![p].orderSubmissionPerformed = performed]
            /\ SaveJournal(At("progress", p))
            /\ UNCHANGED <<queue, queueDisk>>
       ELSE Throw
  /\ UNCHANGED <<clock, submitted, registered, restarts>>

\* A terminal outcome is journaled, then acknowledged in the queue.
HandlerFinishes(p, outcome) ==
  /\ Returned(p)
  /\ IF journal[p].state = "STARTED"
       THEN /\ journal' = Completed(p, outcome, p \in submitted)
            /\ SaveJournal(At("acknowledge", p))
            /\ UNCHANGED <<queue, queueDisk>>
       ELSE Throw
  /\ UNCHANGED <<clock, submitted, registered, restarts>>

\* queue.recordDispatchProgress().
RecordProgress(p) ==
  /\ turn = At("progress", p)
  /\ IF /\ queue[p].state = "DISPATCHING"
        /\ queue[p].orderSubmissionPerformed => journal[p].orderSubmissionPerformed
       THEN /\ queue' = [queue EXCEPT ![p].orderSubmissionPerformed =
                           @ \/ journal[p].orderSubmissionPerformed]
            /\ SaveQueue(Idle)
            /\ UNCHANGED <<journal, journalDisk>>
       ELSE Throw
  /\ UNCHANGED <<clock, inFlight, submitted, registered, restarts>>

\* finalize(): queue.acknowledgeDispatch().  RECOVERY_REQUIRED and REJECTED both
\* end in REJECTED.
QueueOutcome(outcome) == IF outcome = "COMPLETED" THEN "COMPLETED" ELSE "REJECTED"

\* Seeded fault: the queue keeps its own orderSubmissionPerformed.
AcknowledgesOutcomeOnly(p) ==
  /\ turn = At("acknowledge", p)
  /\ queue[p].state = "DISPATCHING"
  /\ queue' = [queue EXCEPT ![p].state = QueueOutcome(journal[p].outcome)]
  /\ SaveQueue(Idle)
  /\ UNCHANGED <<clock, journal, journalDisk, inFlight, submitted, registered, restarts>>

AcknowledgeDispatch(p) ==
  /\ turn = At("acknowledge", p)
  /\ IF queue[p].state = "DISPATCHING"
       THEN /\ queue' = [queue EXCEPT
                 ![p].state = QueueOutcome(journal[p].outcome),
                 ![p].orderSubmissionPerformed = journal[p].orderSubmissionPerformed]
            /\ SaveQueue(Idle)
            /\ UNCHANGED <<journal, journalDisk>>
       ELSE Throw
  /\ UNCHANGED <<clock, inFlight, submitted, registered, restarts>>

-----------------------------------------------------------------------------
(* Process and time *)

\* The process dies and starts again, possibly as a build that registers other
\* handlers: both services restore the newest snapshot that parses, if they can
\* read their file, and the pending calls are gone.
Restart ==
  /\ "crash" \in Faults
  /\ restarts < MaxRestarts
  /\ queue' \in ReadBack(queueDisk, NoQueue, "failedRead" \in Faults)
  /\ journal' \in ReadBack(journalDisk, NoJournal, "failedRead" \in Faults)
  /\ turn' = Idle
  /\ inFlight' = [p \in Plans |-> 0]
  /\ registered' \in Redeployments \cup {registered}
  /\ restarts' = restarts + 1
  /\ UNCHANGED <<clock, queueDisk, journalDisk, submitted>>

Tick ==
  /\ turn = Idle
  /\ clock < MaxClock
  /\ clock' = clock + 1
  /\ UNCHANGED <<stores, turn, inFlight, submitted, registered, restarts>>

-----------------------------------------------------------------------------
Init ==
  /\ clock = 0
  /\ queue = NoQueue
  /\ queueDisk = Settled(queue)
  /\ journal = NoJournal
  /\ journalDisk = Settled(journal)
  /\ turn = Idle
  /\ inFlight = [p \in Plans |-> 0]
  /\ submitted = {}
  /\ registered = Plans
  /\ restarts = 0

Intake == \E p \in Plans : Enqueue(p) \/ EnqueueAtCapacity(p)

StartRun ==
  \/ SweepIdle
  \/ \E p \in Plans : ResumeDispatching(p) \/ ResumePending(p) \/ LeaseNext(p)

\* The rest of a synchronous call, once it has started.
Continue == \E p \in Plans :
  \/ BeginJournal(p) \/ BeginDispatch(p)
  \/ ResumeTerminal(p) \/ ResumeUnregistered(p) \/ CallHandler(p)
  \/ RecordProgress(p) \/ AcknowledgeDispatch(p)

Handler == \E p \in Plans :
  \/ SubmitOrder(p) \/ HandlerThrows(p) \/ HandlerMonitors(p)
  \/ \E outcome \in Outcomes : HandlerFinishes(p, outcome)

Next == Intake \/ StartRun \/ Continue \/ Handler \/ Restart \/ Tick

Spec == Init /\ [][Next]_vars

\* The host keeps calling runOnce, a call that started runs to its end and time
\* passes.  Nothing is assumed of operators, crashes or handlers.
FairSpec == Spec /\ WF_vars(StartRun) /\ WF_vars(Continue) /\ WF_vars(Tick)

\* In addition a handler that is resumed again and again eventually returns a
\* terminal outcome.
HandlersFinish == \A p \in Plans :
  SF_vars(\E outcome \in Outcomes :
            HandlerFinishes(p, outcome) /\ journal[p].state = "STARTED")

LiveSpec == FairSpec /\ HandlersFinish

-----------------------------------------------------------------------------
(* Properties *)

\* Every variable has its type; both disks hold snapshots of their service.
TypeOK ==
  /\ clock \in Nat
  /\ queue \in Queues /\ queueDisk \in DiskOf(Queues)
  /\ journal \in Journals /\ journalDisk \in DiskOf(Journals)
  /\ turn \in Turns
  /\ inFlight \in [Plans -> Nat]
  /\ submitted \in SUBSET Plans
  /\ registered \in SUBSET Plans
  /\ restarts \in Nat

\* What a process started now would know.
DurableQueue == Restored(queueDisk)
DurableJournal == Restored(journalDisk)

\* A plan is dispatched only inside its window of authority, whatever restarts,
\* lost leases and late resumptions lie between the lease and the dispatch:
\* admission time <= dispatchStartedAt <= effective expiry.
DispatchedWithinAuthority == \A p \in Plans :
  queue[p].state = "DISPATCHING" =>
    /\ queue[p].queuedAt <= queue[p].dispatchStartedAt
    /\ queue[p].dispatchStartedAt <= EffectiveExpiry[p]
    /\ queue[p].dispatchStartedAt <= clock

\* Capital is committed to one plan at a time: at most one dispatch is unsettled,
\* in the queue and in the journal, now and after a crash.
OneUnsettledDispatch ==
  /\ \A p, q \in InState("DISPATCHING") : p = q
  /\ \A p, q \in Pending : p = q
  /\ \A p, q \in Plans :
       /\ DurableJournal[p].state = "STARTED"
       /\ DurableJournal[q].state = "STARTED"
       => p = q

\* journalStartedBeforeHandler: whenever a handler runs or an order of a plan has
\* reached an exchange, a crash at this moment leaves both the dispatch journal
\* record and a queue record that is past its lease.
HandlersAreTraceable == \A p \in Plans :
  inFlight[p] > 0 \/ p \in submitted =>
    /\ DurableJournal[p].state # "NONE"
    /\ DurableQueue[p].state \in {"DISPATCHING", "COMPLETED", "REJECTED"}

\* Queue and journal never disagree on how a dispatch ended.
OutcomesAgree == \A p \in Plans :
  queue[p].state \in {"COMPLETED", "REJECTED"} =>
    /\ journal[p].state = "TERMINAL"
    /\ queue[p].state = QueueOutcome(journal[p].outcome)
    /\ queue[p].orderSubmissionPerformed = journal[p].orderSubmissionPerformed

\* No step, restarts included, reopens or rewrites a settled plan, and no step
\* takes a dispatching plan back to the queue or lets it expire.
SettledForever == [][\A p \in Plans :
  /\ queue[p].state \in {"COMPLETED", "REJECTED"} => queue'[p] = queue[p]
  /\ queue[p].state = "DISPATCHING" =>
       queue'[p].state \in {"DISPATCHING", "COMPLETED", "REJECTED"}
  /\ journal[p].state = "TERMINAL" => journal'[p] = journal[p]]_vars

\* The promise of PlanExecution, read off what is durable: the journal once the
\* plan is started, the queue and its window of authority before that.
PlanStatus == [p \in Plans |->
  IF DurableJournal[p].state = "TERMINAL" THEN DurableJournal[p].outcome
  ELSE IF DurableJournal[p].state = "STARTED" THEN "executing"
  ELSE IF DurableQueue[p].state = "NONE" THEN "new"
  ELSE IF DurableQueue[p].state = "EXPIRED" \/ EffectiveExpiry[p] < clock THEN "lapsed"
  ELSE "waiting"]

Promise == INSTANCE PlanExecution WITH status <- PlanStatus

\* The dispatch spine implements that promise: across every interleaving and
\* crash no plan starts twice, starts after it lapsed, starts beside another, or
\* ends twice.
PromiseKept == Promise!Spec

\* The oldest pending dispatch has lost the queue record that could take it up:
\* every further run reports RECONCILIATION_REQUIRED.
Blocked ==
  /\ InState("DISPATCHING") = {}
  /\ \E p \in Pending : queue[p].state \notin {"LEASED", "DISPATCHING"}

\* Every plan taken in is eventually completed, rejected or expired, across
\* crashes and lost leases, unless the dispatcher blocks itself; and a journaled
\* outcome reaches the queue even then.
PlansSettle == \A p \in Plans :
  queue[p].state # "NONE" ~>
    \/ queue[p].state \in {"COMPLETED", "REJECTED", "EXPIRED"}
    \/ Blocked /\ journal[p].state # "TERMINAL"

\* inFlightDispatchNeverAutoExpires and pendingDispatchesRequireResume: a plan
\* whose dispatch is journaled keeps a queue record that can take it up again.
PendingStaysResumable == \A p \in Plans :
  journal[p].state = "STARTED" => queue[p].state \in {"LEASED", "DISPATCHING"}
=============================================================================
