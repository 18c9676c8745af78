------------------------ MODULE CentralPaperExecution ------------------------
(***************************************************************************)
(* The central PAPER execution path of CAT-PRO: intake into a durable      *)
(* queue, the worker that leases a plan, reserves its capital, simulates   *)
(* it, journals the result and accounts it, the lifecycle that closes open *)
(* positions and posts their profit, and the recovery that settles the     *)
(* residual exposure of a simulation that did not complete.                *)
(*                                                                         *)
(* Five services keep a map in memory and append the complete map to their *)
(* own JSONL journal after each change: `mem' and `disk' hold both views.  *)
(* The trading account is persisted before it is changed, so it has one    *)
(* view, and its ledger remembers every transaction id it applied.         *)
(* Every run is synchronous: `job' is the run under way, one durable write *)
(* per step, and only a crash can come between its steps.  A failed append *)
(* throws after memory has changed; the run continues in its handler.      *)
(*                                                                         *)
(* A simulation result is named by its plan and the attempt of the lease   *)
(* it was made under; its journal record, position group and accounting    *)
(* record carry the same name.                                             *)
(***************************************************************************)
EXTENDS FiniteSets, FiniteSetsExt, TradingAccount

CONSTANTS
  Plans,                     \* plan ids
  PlanExpiry,                \* plan -> plan.expiresAt
  Amount,                    \* approvedCapitalInr of a plan
  InitialCapital,            \* initialCapital of the PAPER account
  Profits,                   \* realised profits in INR that occur
  Paths,                     \* conversion evidence ids that occur
  LeaseTtl,                  \* leaseTtlMs of the worker
  EvidenceRetryDelay,        \* evidenceRetryDelayMs of the worker
  MaximumEvidenceAttempts,   \* maximumEvidenceAttempts of the worker
  MaximumRecoveryAge,        \* maximumRecoveryAgeMs of the recovery
  MaximumRecords,            \* maximumRecords of the queue
  MaxAttempts,               \* bound on the leases of one plan
  MaxClock,                  \* bound on the clock
  Faults,                    \* subset of {"crash", "failedAppend"}
  MaxFaults                  \* bound on the number of faults

ASSUME PlansAssumption == Plans \subseteq Nat \ {0} /\ IsFiniteSet(Plans)
ASSUME ExpiryAssumption == PlanExpiry \in [Plans -> Nat]
ASSUME MoneyAssumption ==
  /\ Amount \in Nat \ {0}
  /\ InitialCapital \in Nat
  /\ Profits \subseteq Int
ASSUME BoundsAssumption ==
  /\ LeaseTtl \in Nat \ {0}
  /\ EvidenceRetryDelay \in Nat \ {0}
  /\ MaximumEvidenceAttempts \in Nat \ {0}
  /\ MaximumRecoveryAge \in Nat \ {0}
  /\ MaximumRecords \in Nat \ {0}
  /\ MaxAttempts \in Nat \ {0}
  /\ MaxClock \in Nat
  /\ MaxFaults \in Nat
  /\ Faults \subseteq {"crash", "failedAppend"}

VARIABLES
  clock,     \* Date.now()
  mem,       \* the records of the five services, in memory
  disk,      \* their newest journal snapshots
  account,   \* the trading account
  ledger,    \* the transaction ids the account ledger has applied
  job,       \* the synchronous run under way
  faults     \* crashes and failed appends so far

vars == <<clock, mem, disk, account, ledger, job, faults>>

-----------------------------------------------------------------------------
(* Records *)

Results == Plans \X (1..MaxAttempts)
ResultsOf(p) == {p} \X (1..MaxAttempts)

QueueStates == {"NONE", "QUEUED", "LEASED", "COMPLETED", "REJECTED", "EXPIRED"}
TerminalStates == {"COMPLETED", "REJECTED", "EXPIRED"}
QueueRecords == [state : QueueStates, attempts : 0..MaxAttempts,
                 nextLeaseEligibleAt : Nat, leaseExpiresAt : Nat]
NoQueueRecord == [state |-> "NONE", attempts |-> 0, nextLeaseEligibleAt |-> 0,
                  leaseExpiresAt |-> 0]

AllocationStates == {"NONE", "PENDING_RESERVE", "ACTIVE", "PENDING_RELEASE",
                     "RELEASED", "REJECTED"}

\* What a simulation ends in: an open position, a completed cycle, a residual
\* exposure, or nothing filled.
Outcomes == {"ENTRY", "CYCLE", "RESIDUAL", "NO_FILL"}
JournalStates == {"NONE", "READY_FOR_POSITION_ACCOUNTING", "PENDING_SHARED_RECOVERY",
                  "SHARED_RECOVERY_STAGED", "RECOVERY_STAGING_FAILED",
                  "RECOVERY_COMPLETED", "POSITION_ACCOUNTED"}
JournalRecords == [state : JournalStates, outcome : Outcomes \cup {"NONE"},
                   generatedAt : Nat]
NoJournalRecord == [state |-> "NONE", outcome |-> "NONE", generatedAt |-> 0]

GroupStates == {"NONE", "OPEN", "CLOSED"}

BookRecords ==
  [state : {"NONE"}, path : {"NONE"}, profit : {0}] \cup
  [state : {"PENDING_ACCOUNT_POST", "ACCOUNT_POSTED"}, path : Paths, profit : Profits]
NoBookRecord == [state |-> "NONE", path |-> "NONE", profit |-> 0]

Stores ==
  [queue : [Plans -> QueueRecords], alloc : [Plans -> AllocationStates],
   journal : [Results -> JournalRecords], groups : [Results -> GroupStates],
   books : [Results -> BookRecords]]

Empty ==
  [queue |-> [p \in Plans |-> NoQueueRecord], alloc |-> [p \in Plans |-> "NONE"],
   journal |-> [r \in Results |-> NoJournalRecord],
   groups |-> [r \in Results |-> "NONE"], books |-> [r \in Results |-> NoBookRecord]]

\* Transaction ids: a plan's reserve and release, a result's post under one
\* conversion evidence.
Ledgers == [reserved : SUBSET Plans, released : SUBSET Plans,
            posted : SUBSET (Results \X Paths)]
EmptyLedger == [reserved |-> {}, released |-> {}, posted |-> {}]

\* Plans whose capital the account holds.
Held == ledger.reserved \ ledger.released

-----------------------------------------------------------------------------
(* The run under way: whose it is, the next durable write, its plan and      *)
(* attempt, and whether durableExposureCaptured is set.  "terminal" is       *)
(* releaseTerminalCapital() at the start of a worker run, "catch" the catch  *)
(* block of a worker run that leased a plan.                                 *)

Runners == {"none", "terminal", "worker", "catch", "lifecycle", "recovery", "restart"}
Labels == {"idle", "release", "lease", "allocate", "reserve", "reserved", "allocated",
           "captured", "mark", "acknowledge", "catch", "book", "post", "posted",
           "recovered", "unbind", "free", "freed", "restart"}
Jobs == [who : Runners, at : Labels, plan : Plans \cup {0},
         attempt : 0..MaxAttempts, exposed : BOOLEAN]
Idle == [who |-> "none", at |-> "idle", plan |-> 0, attempt |-> 0, exposed |-> FALSE]
Job(who, at, p, n) == [who |-> who, at |-> at, plan |-> p, attempt |-> n, exposed |-> FALSE]
To(at) == [job EXCEPT !.at = at]

TheResult == <<job.plan, job.attempt>>

\* Where the run goes on when a call throws: a worker that leased a plan enters
\* its catch block, whose own calls are each swallowed; all others end.
Thrown ==
  CASE job.who = "worker" -> [job EXCEPT !.who = "catch", !.at = "catch"]
    [] job.who = "catch" /\ job.at = "catch" /\ ~job.exposed -> To("unbind")
    [] OTHER -> Idle

\* An append throws.  While the constructors run this ends the process: that is
\* a crash.
AppendFails ==
  /\ "failedAppend" \in Faults /\ faults < MaxFaults /\ job.who # "restart"
  /\ faults' = faults + 1

\* set() and persist() of one service, then `next', or the throw.
Save(m, d, next) ==
  /\ mem' = m
  /\ \/ disk' = d /\ job' = next /\ UNCHANGED faults
     \/ AppendFails /\ job' = Thrown /\ UNCHANGED disk

SaveQueue(v, next) == Save([mem EXCEPT !.queue = v], [disk EXCEPT !.queue = v], next)
SaveAlloc(s, next) ==
  LET v == [mem.alloc EXCEPT ![job.plan] = s]
  IN  Save([mem EXCEPT !.alloc = v], [disk EXCEPT !.alloc = v], next)
SaveJournal(s, next) ==
  LET v == [mem.journal EXCEPT ![TheResult].state = s]
  IN  Save([mem EXCEPT !.journal = v], [disk EXCEPT !.journal = v], next)
SaveGroup(r, s, next) ==
  LET v == [mem.groups EXCEPT ![r] = s]
  IN  Save([mem EXCEPT !.groups = v], [disk EXCEPT !.groups = v], next)
SaveBook(b, next) ==
  LET v == [mem.books EXCEPT ![TheResult] = b]
  IN  Save([mem EXCEPT !.books = v], [disk EXCEPT !.books = v], next)

\* A step of the run that writes nothing.
Goes(next) == job' = next /\ UNCHANGED <<mem, disk, faults>>

-----------------------------------------------------------------------------
(* Queue *)

\* Seeded fault: a lease that ran out is never taken back.
SweepsOnlyQueued(r, p) ==
  IF r.state = "QUEUED" /\ PlanExpiry[p] < clock
  THEN [r EXCEPT !.state = "EXPIRED", !.leaseExpiresAt = 0]
  ELSE r

\* sweep() of one record.
SweptRecord(r, p) ==
  CASE r.state = "LEASED" /\ r.leaseExpiresAt < clock /\ PlanExpiry[p] >= clock ->
         [r EXCEPT !.state = "QUEUED", !.leaseExpiresAt = 0]
    [] r.state \in {"QUEUED", "LEASED"} /\ PlanExpiry[p] < clock ->
         [r EXCEPT !.state = "EXPIRED", !.leaseExpiresAt = 0]
    [] OTHER -> r

Swept == [p \in Plans |-> SweptRecord(mem.queue[p], p)]
Recorded(queue) == {p \in Plans : queue[p].state # "NONE"}
Removable(queue) == {p \in Plans : queue[p].state \in TerminalStates}

Enqueued(queue, p) ==
  [queue EXCEPT ![p] = [NoQueueRecord EXCEPT !.state = "QUEUED",
                                             !.nextLeaseEligibleAt = clock]]

\* enqueue() of a plan that is eligible, unexpired and not recorded.  At
\* capacity it drops a terminal record (the code: the one updated first); with
\* none it throws, after the sweep has changed memory.
Enqueue(p) ==
  /\ job = Idle
  /\ PlanExpiry[p] >= clock /\ mem.queue[p].state = "NONE"
  /\ \/ /\ Cardinality(Recorded(Swept)) < MaximumRecords
        /\ SaveQueue(Enqueued(Swept, p), Idle)
     \/ /\ Cardinality(Recorded(Swept)) >= MaximumRecords
        /\ \E q \in Removable(Swept) :
             SaveQueue(Enqueued([Swept EXCEPT ![q] = NoQueueRecord], p), Idle)
     \/ /\ Cardinality(Recorded(Swept)) >= MaximumRecords /\ Removable(Swept) = {}
        /\ mem' = [mem EXCEPT !.queue = Swept] /\ UNCHANGED <<disk, job, faults>>
  /\ UNCHANGED <<clock, account, ledger>>

Leasable(p) ==
  /\ mem.queue[p].state = "QUEUED" /\ PlanExpiry[p] >= clock
  /\ mem.queue[p].nextLeaseEligibleAt <= clock

Leased(p) ==
  [mem.queue[p] EXCEPT !.state = "LEASED", !.attempts = @ + 1,
                       !.leaseExpiresAt = Lesser(clock + LeaseTtl, PlanExpiry[p])]

\* acknowledge() of the run's lease, which is live: the run has taken no time.
Acknowledge(outcome, next) ==
  /\ mem.queue[job.plan].state = "LEASED"
  /\ SaveQueue([mem.queue EXCEPT ![job.plan].state = outcome,
                                 ![job.plan].leaseExpiresAt = 0], next)

-----------------------------------------------------------------------------
(* The worker *)

\* runOnce(): sweepExpired(), which persists only a change.
WorkerStarts ==
  /\ job = Idle
  /\ LET next == Job("terminal", "release", 0, 0)
     IN  IF Swept = mem.queue THEN Goes(next) ELSE SaveQueue(Swept, next)
  /\ UNCHANGED <<clock, account, ledger>>

\* Seeded fault: capital is returned only for plans that expired.
OwesExpired(p) ==
  /\ mem.alloc[p] \in {"ACTIVE", "PENDING_RELEASE"}
  /\ mem.queue[p].state = "EXPIRED"

\* releaseTerminalCapital(): the plans it releases, one after the other, before
\* a lease is taken.
Owes(p) ==
  /\ mem.alloc[p] \in {"ACTIVE", "PENDING_RELEASE"}
  /\ mem.queue[p].state \in {"REJECTED", "EXPIRED"}

ReleaseTerminal ==
  /\ job.at = "release"
  /\ \/ \E p \in Plans : Owes(p) /\ Goes(Job("terminal", "unbind", p, 0))
     \/ (\A p \in Plans : ~Owes(p)) /\ Goes(Job("terminal", "lease", 0, 0))
  /\ UNCHANGED <<clock, account, ledger>>

\* leaseNext() of a plan that is due (the code: the one queued first).  A throw
\* here ends the run: it holds no lease yet.
LeaseNext ==
  /\ job.at = "lease"
  /\ \/ \E p \in {q \in Plans : Leasable(q)} :
          /\ mem.queue[p].attempts < MaxAttempts
          /\ SaveQueue([mem.queue EXCEPT ![p] = Leased(p)],
                       Job("worker", "allocate", p, mem.queue[p].attempts + 1))
     \/ (\A p \in Plans : ~Leasable(p)) /\ Goes(Idle)
  /\ UNCHANGED <<clock, account, ledger>>

\* Seeded fault: the account is asked before the allocation is journaled.
AllocateReservesFirst ==
  /\ job.at = "allocate"
  /\ IF mem.alloc[job.plan] = "NONE"
     THEN /\ mem' = [mem EXCEPT !.alloc[job.plan] = "PENDING_RESERVE"]
          /\ job' = To("reserve") /\ UNCHANGED <<disk, faults>>
     ELSE Goes(To("allocated"))
  /\ UNCHANGED <<clock, account, ledger>>

\* allocate(): a first allocation is journaled as PENDING_RESERVE; a known one
\* is reconciled.  The first throws at capacity, the known one when the plan comes
\* back with another strategy or amount.
Allocate ==
  /\ job.at = "allocate"
  /\ \/ CASE mem.alloc[job.plan] = "NONE" -> SaveAlloc("PENDING_RESERVE", To("reserve"))
          [] mem.alloc[job.plan] = "PENDING_RESERVE" -> Goes(To("reserve"))
          [] mem.alloc[job.plan] = "PENDING_RELEASE" -> Goes(To("free"))
          [] OTHER -> Goes(To("allocated"))
     \/ Goes(Thrown)
  /\ UNCHANGED <<clock, account, ledger>>

\* The worker goes on with an ACTIVE allocation only.
RejectUnallocated ==
  /\ job.at = "allocated" /\ mem.alloc[job.plan] # "ACTIVE"
  /\ Acknowledge("REJECTED", Idle)
  /\ UNCHANGED <<clock, account, ledger>>

MayRetry ==
  /\ job.attempt < MaximumEvidenceAttempts
  /\ clock + EvidenceRetryDelay < PlanExpiry[job.plan]

Deferred(r) ==
  [r EXCEPT !.state = "QUEUED", !.leaseExpiresAt = 0,
            !.nextLeaseEligibleAt = Lesser(clock + EvidenceRetryDelay, PlanExpiry[job.plan])]

\* No evidence: deferred while attempts and time last, else rejected and the
\* capital released.
NoEvidence ==
  /\ job.at = "allocated" /\ mem.alloc[job.plan] = "ACTIVE"
  /\ IF MayRetry
     THEN SaveQueue([mem.queue EXCEPT ![job.plan] = Deferred(@)], Idle)
     ELSE Acknowledge("REJECTED", To("unbind"))
  /\ UNCHANGED <<clock, account, ledger>>

\* The evidence or the simulation is refused.  A result that is already
\* journaled also throws: its lease id differs, so the contents collide.
SimulationThrows ==
  /\ job.at = "allocated" /\ mem.alloc[job.plan] = "ACTIVE"
  /\ Goes(Thrown)
  /\ UNCHANGED <<clock, account, ledger>>

Captured(o) ==
  [state |-> IF o \in {"RESIDUAL", "NO_FILL"} THEN "PENDING_SHARED_RECOVERY"
             ELSE "READY_FOR_POSITION_ACCOUNTING",
   outcome |-> o, generatedAt |-> clock]

\* Seeded fault: the simulation does not wait for an active allocation.
CaptureUnfunded ==
  /\ job.at = "allocated"
  /\ mem.journal[TheResult].state = "NONE"
  /\ \E o \in Outcomes :
       LET v == [mem.journal EXCEPT ![TheResult] = Captured(o)]
       IN  Save([mem EXCEPT !.journal = v], [disk EXCEPT !.journal = v],
                [To("captured") EXCEPT !.exposed = (o # "NO_FILL")])
  /\ UNCHANGED <<clock, account, ledger>>

\* simulate() and capture(): durableExposureCaptured is set once it returned.
Capture ==
  /\ job.at = "allocated" /\ mem.alloc[job.plan] = "ACTIVE"
  /\ mem.journal[TheResult].state = "NONE"
  /\ \E o \in Outcomes :
       LET v == [mem.journal EXCEPT ![TheResult] = Captured(o)]
       IN  Save([mem EXCEPT !.journal = v], [disk EXCEPT !.journal = v],
                [To("captured") EXCEPT !.exposed = (o # "NO_FILL")])
  /\ UNCHANGED <<clock, account, ledger>>

\* Recovery required: the bridge stages an intent for every residual, or some
\* are refused; with nothing filled there is nothing to stage.
StageRecovery ==
  /\ job.at = "captured"
  /\ \/ mem.journal[TheResult].outcome = "RESIDUAL" /\
        SaveJournal("SHARED_RECOVERY_STAGED", To("acknowledge"))
     \/ mem.journal[TheResult].outcome \in {"RESIDUAL", "NO_FILL"} /\
        SaveJournal("RECOVERY_STAGING_FAILED", To("acknowledge"))
  /\ UNCHANGED <<clock, account, ledger>>

\* recordEntry(): an open position, or a cycle that is closed at once.  The ledger
\* may be full, an entry without one settlement asset, a cycle without its evidence.
RecordEntry ==
  /\ job.at = "captured"
  /\ \/ mem.journal[TheResult].outcome = "ENTRY" /\ SaveGroup(TheResult, "OPEN", To("mark"))
     \/ mem.journal[TheResult].outcome = "CYCLE" /\ SaveGroup(TheResult, "CLOSED", To("book"))
     \/ mem.journal[TheResult].outcome \in {"ENTRY", "CYCLE"} /\ Goes(Thrown)
  /\ UNCHANGED <<clock, account, ledger>>

\* Seeded fault: the accounted result is marked in memory only.
MarksInMemory ==
  /\ job.at = "mark"
  /\ mem' = [mem EXCEPT !.journal[TheResult].state = "POSITION_ACCOUNTED"]
  /\ job' = To("acknowledge")
  /\ UNCHANGED <<clock, disk, account, ledger, faults>>

MarkPositionAccounted ==
  /\ job.at = "mark"
  /\ SaveJournal("POSITION_ACCOUNTED", To("acknowledge"))
  /\ UNCHANGED <<clock, account, ledger>>

\* Seeded fault: the capital is released with the acknowledgement, posted or not.
FinishReleasing ==
  /\ job.at = "acknowledge"
  /\ IF mem.journal[TheResult].state = "POSITION_ACCOUNTED"
     THEN Acknowledge("COMPLETED", To("unbind"))
     ELSE Acknowledge("REJECTED", Idle)
  /\ UNCHANGED <<clock, account, ledger>>

\* The acknowledgement; a closed and posted cycle returns its capital.
Finish ==
  /\ job.at = "acknowledge"
  /\ IF mem.journal[TheResult].state = "POSITION_ACCOUNTED"
     THEN Acknowledge("COMPLETED",
            IF mem.books[TheResult].state = "ACCOUNT_POSTED" THEN To("unbind") ELSE Idle)
     ELSE Acknowledge("REJECTED", Idle)
  /\ UNCHANGED <<clock, account, ledger>>

\* The catch block: the lease is rejected if it is still held.
Catch ==
  /\ job.at = "catch"
  /\ \/ Acknowledge("REJECTED", Thrown)
     \/ mem.queue[job.plan].state # "LEASED" /\ Goes(Thrown)
  /\ UNCHANGED <<clock, account, ledger>>

-----------------------------------------------------------------------------
(* Capital allocation: the account mutation between its two journal writes.  *)

\* reserveCapital() under the plan's transaction.  A failed append is a refusal.
ReserveCapital ==
  /\ job.at = "reserve"
  /\ job' = To("reserved")
  /\ \/ /\ job.plan \notin ledger.reserved /\ Reservable(account, Amount)
        /\ account' = Reserve(account, Amount)
        /\ ledger' = [ledger EXCEPT !.reserved = @ \cup {job.plan}]
        /\ UNCHANGED faults
     \/ /\ job.plan \in ledger.reserved \/ ~Reservable(account, Amount)
        /\ UNCHANGED <<account, ledger, faults>>
     \/ /\ job.plan \notin ledger.reserved /\ Reservable(account, Amount)
        /\ AppendFails /\ UNCHANGED <<account, ledger>>
  /\ UNCHANGED <<clock, mem, disk>>

\* reconcile() of PENDING_RESERVE.
Reserved ==
  /\ job.at = "reserved"
  /\ SaveAlloc(IF job.plan \in ledger.reserved THEN "ACTIVE" ELSE "REJECTED",
       CASE job.who = "worker" -> To("allocated")
         [] job.who = "restart" -> To("restart")
         [] OTHER -> To("unbind"))
  /\ UNCHANGED <<clock, account, ledger>>

AfterRelease ==
  CASE job.who = "terminal" -> To("release")
    [] job.who = "worker" /\ mem.queue[job.plan].state = "LEASED" -> To("allocated")
    [] job.who = "restart" -> To("restart")
    [] OTHER -> Idle

\* releaseByPlanId(): a pending reservation is completed first.
Unbind ==
  /\ job.at = "unbind"
  /\ CASE mem.alloc[job.plan] = "ACTIVE" -> SaveAlloc("PENDING_RELEASE", To("free"))
       [] mem.alloc[job.plan] = "PENDING_RESERVE" -> Goes(To("reserve"))
       [] mem.alloc[job.plan] = "PENDING_RELEASE" -> Goes(To("free"))
       [] OTHER -> Goes(AfterRelease)
  /\ UNCHANGED <<clock, account, ledger>>

\* releaseCapital() under the plan's transaction.
ReleaseCapital ==
  /\ job.at = "free"
  /\ \/ /\ job.plan \notin ledger.released
        /\ account' = Release(account, Amount)
        /\ ledger' = [ledger EXCEPT !.released = @ \cup {job.plan}]
        /\ job' = To("freed") /\ UNCHANGED faults
     \/ /\ job.plan \in ledger.released
        /\ job' = To("freed") /\ UNCHANGED <<account, ledger, faults>>
     \/ /\ job.plan \notin ledger.released
        /\ AppendFails /\ job' = Thrown /\ UNCHANGED <<account, ledger>>
  /\ UNCHANGED <<clock, mem, disk>>

Released ==
  /\ job.at = "freed"
  /\ SaveAlloc("RELEASED", AfterRelease)
  /\ UNCHANGED <<clock, account, ledger>>

-----------------------------------------------------------------------------
(* Booking a closed group: journaled as pending, posted to the account under *)
(* a transaction id made of the group and the conversion, journaled as done. *)

TheBook == mem.books[TheResult]
AfterBook == IF job.who = "worker" THEN To("mark") ELSE To("unbind")

Pending(path, profit) ==
  [state |-> "PENDING_ACCOUNT_POST", path |-> path, profit |-> profit]

\* No INR conversion is available: the group stays closed and unposted.
NoConversion ==
  /\ job.at = "book"
  /\ Goes(IF job.who = "worker" THEN To("mark") ELSE Idle)
  /\ UNCHANGED <<clock, account, ledger>>

\* Seeded fault: a pending record is made anew under the conversion of the day.
BookAnew ==
  /\ job.at = "book"
  /\ \E path \in Paths :
       \/ /\ TheBook.state # "ACCOUNT_POSTED"
          /\ \E profit \in Profits : SaveBook(Pending(path, profit), To("post"))
       \/ TheBook.state = "ACCOUNT_POSTED" /\ Goes(AfterBook)
       \/ Goes(Thrown)
  /\ UNCHANGED <<clock, account, ledger>>

\* Seeded fault: the account is posted before the record is journaled.
BookInMemory ==
  /\ job.at = "book"
  /\ \E path \in Paths :
       \/ /\ TheBook.state = "NONE"
          /\ \E profit \in Profits :
               mem' = [mem EXCEPT !.books[TheResult] = Pending(path, profit)]
          /\ job' = To("post") /\ UNCHANGED <<disk, faults>>
       \/ TheBook.state # "NONE" /\ Goes(IF TheBook.state = "ACCOUNT_POSTED"
                                         THEN AfterBook ELSE To("post"))
  /\ UNCHANGED <<clock, account, ledger>>

\* book(): a known record must carry the same conversion evidence.  The account
\* may be stopped, which refuses a new record.
Book ==
  /\ job.at = "book"
  /\ \E path \in Paths :
       \/ /\ TheBook.state = "NONE"
          /\ \/ \E profit \in Profits : SaveBook(Pending(path, profit), To("post"))
             \/ Goes(Thrown)
       \/ /\ TheBook.state = "PENDING_ACCOUNT_POST"
          /\ Goes(IF TheBook.path = path THEN To("post") ELSE Thrown)
       \/ /\ TheBook.state = "ACCOUNT_POSTED"
          /\ Goes(IF TheBook.path = path THEN AfterBook ELSE Thrown)
  /\ UNCHANGED <<clock, account, ledger>>

Transaction == <<TheResult, TheBook.path>>

\* apply(): recordProfit() inside the transaction, unless it was applied before.
Post ==
  /\ job.at = "post"
  /\ \/ /\ Transaction \notin ledger.posted
        /\ account' = RecordProfit(account, TheBook.profit)
        /\ ledger' = [ledger EXCEPT !.posted = @ \cup {Transaction}]
        /\ job' = To("posted") /\ UNCHANGED faults
     \/ /\ Transaction \in ledger.posted
        /\ job' = To("posted") /\ UNCHANGED <<account, ledger, faults>>
     \/ /\ Transaction \notin ledger.posted
        /\ AppendFails /\ job' = Thrown /\ UNCHANGED <<account, ledger>>
  /\ UNCHANGED <<clock, mem, disk>>

Posted ==
  /\ job.at = "posted"
  /\ SaveBook([TheBook EXCEPT !.state = "ACCOUNT_POSTED"], AfterBook)
  /\ UNCHANGED <<clock, account, ledger>>

-----------------------------------------------------------------------------
(* The open-position lifecycle and the recovery.  One job is one group (one  *)
(* journal record) of a scan.  A scan isolates the failures of each but one: *)
(* the release for a group that is posted already stands outside the try,    *)
(* so its throw ends the scan and the groups behind it wait for a later one. *)
(* Here the next job may be any group or none, whichever way the last ended; *)
(* what a scan that ended early owes to nobody is in LiveSpec.               *)

\* Closed groups: a posted one returns its capital, the others are booked.
ReconcileClosed(r) ==
  /\ job = Idle
  /\ mem.groups[r] = "CLOSED"
  /\ Goes(Job("lifecycle",
       IF mem.books[r].state = "ACCOUNT_POSTED" THEN "unbind" ELSE "book", r[1], r[2]))
  /\ UNCHANGED <<clock, account, ledger>>

\* Open groups: exit evidence closes the group, which is then booked.
CloseOpen(r) ==
  /\ job = Idle
  /\ mem.groups[r] = "OPEN" /\ mem.journal[r].state # "NONE"
  /\ SaveGroup(r, "CLOSED", Job("lifecycle", "book", r[1], r[2]))
  /\ UNCHANGED <<clock, account, ledger>>

\* A staged journal inside its evidence window, for which depth and fees are
\* at hand: the settlement closes the group, or finds it closed.
Recover(r) ==
  /\ job = Idle
  /\ mem.journal[r].state = "SHARED_RECOVERY_STAGED"
  /\ clock - mem.journal[r].generatedAt <= MaximumRecoveryAge
  /\ LET next == Job("recovery", "recovered", r[1], r[2])
     IN  IF mem.groups[r] = "NONE" THEN SaveGroup(r, "CLOSED", next) ELSE Goes(next)
  /\ UNCHANGED <<clock, account, ledger>>

MarkRecoveryCompleted ==
  /\ job.at = "recovered"
  /\ SaveJournal("RECOVERY_COMPLETED", To("book"))
  /\ UNCHANGED <<clock, account, ledger>>

-----------------------------------------------------------------------------
(* Crash and restart *)

\* The process dies.  The constructors read the newest snapshots; the account is
\* read back from its ledger.
Crash ==
  /\ "crash" \in Faults /\ faults < MaxFaults
  /\ mem' = disk
  /\ job' = Job("restart", "restart", 0, 0)
  /\ faults' = faults + 1
  /\ UNCHANGED <<clock, disk, account, ledger>>

\* restore() of the allocations reconciles every pending one.
Reconcile ==
  /\ job.at = "restart"
  /\ \/ \E p \in Plans :
          \/ mem.alloc[p] = "PENDING_RESERVE" /\ Goes(Job("restart", "reserve", p, 0))
          \/ mem.alloc[p] = "PENDING_RELEASE" /\ Goes(Job("restart", "free", p, 0))
     \/ /\ \A p \in Plans : mem.alloc[p] \notin {"PENDING_RESERVE", "PENDING_RELEASE"}
        /\ Goes(Idle)
  /\ UNCHANGED <<clock, account, ledger>>

Tick ==
  /\ job = Idle /\ clock < MaxClock
  /\ clock' = clock + 1
  /\ UNCHANGED <<mem, disk, account, ledger, job, faults>>

-----------------------------------------------------------------------------
Init ==
  /\ clock = 0
  /\ mem = Empty /\ disk = Empty
  /\ account = NewAccount(InitialCapital)
  /\ ledger = EmptyLedger
  /\ job = Idle
  /\ faults = 0

WorkerContinues ==
  \/ ReleaseTerminal \/ LeaseNext \/ Allocate \/ RejectUnallocated \/ NoEvidence
  \/ SimulationThrows \/ Capture \/ StageRecovery \/ RecordEntry
  \/ MarkPositionAccounted \/ Finish \/ Catch

CapitalContinues == ReserveCapital \/ Reserved \/ Unbind \/ ReleaseCapital \/ Released
BookingContinues == NoConversion \/ Book \/ Post \/ Posted \/ MarkRecoveryCompleted

\* The next step of the run under way.
Continue == WorkerContinues \/ CapitalContinues \/ BookingContinues \/ Reconcile

Scan(r) == ReconcileClosed(r) \/ CloseOpen(r) \/ Recover(r)

Next ==
  \/ \E p \in Plans : Enqueue(p)
  \/ WorkerStarts
  \/ \E r \in Results : Scan(r)
  \/ Continue \/ Crash \/ Tick

Spec == Init /\ [][Next]_vars

\* The posted groups whose capital is not returned yet.  A scan reaches the first
\* of them: what stands before it is isolated, or returned and cannot throw.
Unreturned ==
  {r \in Results : /\ mem.groups[r] = "CLOSED" /\ mem.books[r].state = "ACCOUNT_POSTED"
                   /\ mem.alloc[r[1]] \in {"PENDING_RESERVE", "ACTIVE", "PENDING_RELEASE"}}
ReturnPosted == \E r \in Unreturned : ReconcileClosed(r)

\* A run ends, time passes, and the event loop serves every interval timer
\* however busy the others keep it: the worker's, and the lifecycle's up to the
\* first group whose release may throw.  The groups behind it, evidence,
\* conversions and intake are owed to nobody.
LiveSpec ==
  /\ Spec
  /\ WF_vars(Continue)
  /\ SF_vars(Tick) /\ SF_vars(WorkerStarts) /\ SF_vars(ReturnPosted)

-----------------------------------------------------------------------------
(* Properties *)

\* Every variable has its type.
TypeOK ==
  /\ clock \in 0..MaxClock
  /\ mem \in Stores /\ disk \in Stores
  /\ account \in Accounts
  /\ ledger \in Ledgers
  /\ job \in Jobs
  /\ faults \in 0..MaxFaults

\* The account never loses or invents free capital: what it may still reserve is
\* within its capital, the capital is covered by it and by what the allocations
\* hold, and it counts one open trade per held allocation -- across losses that
\* the clamps of TradingAccountService absorb.
CapitalIsCovered ==
  /\ account.available <= account.current
  /\ account.current <= account.available + Amount * Cardinality(Held)
  /\ account.openTrades = Cardinality(Held)

\* journalBeforeAccountMutation: capital the account holds has an allocation on
\* disk that a restart will find, so no crash strands it.
HeldIsOwned ==
  \A p \in Held : disk.alloc[p] \in {"PENDING_RESERVE", "ACTIVE", "PENDING_RELEASE"}

\* duplicatePnlProtection: a profit in the account has its accounting record on
\* disk, under the same conversion, so a group is posted under one at most.
PostedIsBooked ==
  \A t \in ledger.posted :
    disk.books[t[1]].state # "NONE" /\ disk.books[t[1]].path = t[2]

\* The account's capital is what it started with and the profit of every posted
\* record.  (Stated where losses stay below the capital.)
CapitalIsExplained ==
  account.current = InitialCapital +
    MapThenSumSet(LAMBDA t : disk.books[t[1]].profit, ledger.posted)

\* A completed plan whose only result is not posted yet still has its capital:
\* the position is funded until the account has its profit.
Unposted(r) == disk.groups[r] # "NONE" /\ mem.books[r].state # "ACCOUNT_POSTED"
PositionsAreFunded ==
  \A p \in Plans :
    /\ disk.queue[p].state = "COMPLETED"
    /\ Cardinality({r \in ResultsOf(p) : disk.groups[r] # "NONE"}) = 1
    /\ \E r \in ResultsOf(p) : Unposted(r)
    => p \in Held

\* journalBeforeTerminalAcknowledgement: a plan that is COMPLETED on disk has an
\* accounted result and its position group on disk.
CompletedIsJournaled ==
  \A p \in Plans :
    disk.queue[p].state = "COMPLETED" =>
      \E r \in ResultsOf(p) :
        disk.journal[r].state = "POSITION_ACCOUNTED" /\ disk.groups[r] # "NONE"

\* durableCapitalBeforeSimulation: a result is journaled only while the account
\* holds its plan's capital on an allocation that is ACTIVE on disk, so a crash
\* right after it finds both.
ResultsAreFunded ==
  [][\A r \in Results :
       disk.journal[r].state = "NONE" /\ disk'.journal[r].state # "NONE"
         => r[1] \in Held /\ disk.alloc[r[1]] = "ACTIVE"]_vars

\* While the timers fire, an admitted plan ends: its record becomes terminal (or
\* is dropped by a later intake).
PlansEnd ==
  \A p \in Plans :
    mem.queue[p].state \in {"QUEUED", "LEASED"} ~>
      mem.queue[p].state \in TerminalStates \cup {"NONE"}

\* No simulation of the plan that filled anything is on disk.
Unexposed(p) == \A r \in ResultsOf(p) : disk.journal[r].outcome \in {"NONE", "NO_FILL"}

\* Capital that backs nothing comes back: that of a rejected or expired plan for
\* which no fill is on disk (or its record is dropped first), and that of a plan
\* with a posted group.  That releaseTerminalCapital() returns the capital of a
\* rejected plan with open exposure too is not demanded.
CapitalComesBack ==
  \A p \in Plans :
    /\ p \in Held /\ mem.queue[p].state \in {"REJECTED", "EXPIRED"} /\ Unexposed(p) ~>
         p \notin Held \/ mem.queue[p].state = "NONE"
    /\ \A r \in ResultsOf(p) :
         p \in Held /\ mem.groups[r] = "CLOSED" /\ mem.books[r].state = "ACCOUNT_POSTED"
           ~> p \notin Held
=============================================================================
