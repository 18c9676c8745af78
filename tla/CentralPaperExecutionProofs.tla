--------------------- MODULE CentralPaperExecutionProofs ---------------------
(***************************************************************************)
(* Proofs about CentralPaperExecution, for any plans, amounts, profits and *)
(* bounds.  Under every fault: typing and the cover of the capital.  Where *)
(* appends do not fail, through any number of crashes: held capital stays  *)
(* owned, posted profit stays booked, completed plans stay journaled, open *)
(* positions and new results are funded, and the capital is explained by   *)
(* the profits posted.                                                     *)
(***************************************************************************)
EXTENDS CentralPaperExecution, FiniteSums, FiniteSetTheorems, TLAPS

-----------------------------------------------------------------------------
(* The account *)

\* The account operators produce accounts.
LEMMA AccountsClosed ==
  ASSUME NEW a \in Accounts, NEW n \in Nat, NEW x \in Int
  PROVE  /\ Reservable(a, n) => Reserve(a, n) \in Accounts
         /\ Release(a, n) \in Accounts
         /\ RecordProfit(a, x) \in Accounts
<1>n. a.current \in Nat /\ a.available \in Nat /\ a.openTrades \in Nat
  BY DEF Accounts
<1>a. /\ \A y, z \in Nat, k \in Nat :
           [a EXCEPT !.current = y, !.available = z, !.openTrades = k] \in Accounts
      /\ \A z \in Nat, k \in Nat : [a EXCEPT !.available = z, !.openTrades = k] \in Accounts
      /\ \A y \in Nat, z \in Nat : [a EXCEPT !.current = y, !.available = z] \in Accounts
  BY DEF Accounts
<1>1. ASSUME Reservable(a, n) PROVE Reserve(a, n) \in Accounts
  <2>1. a.available - n \in Nat /\ a.openTrades + 1 \in Nat
    BY <1>1, <1>n DEF Reservable
  <2> QED BY <2>1, <1>a DEF Reserve
<1>2. Release(a, n) \in Accounts
  <2>1. Lesser(a.current, a.available + n) \in Nat /\ Greater(0, a.openTrades - 1) \in Nat
    BY <1>n DEF Lesser, Greater
  <2> QED BY <2>1, <1>a DEF Release
<1>3. RecordProfit(a, x) \in Accounts
  <2> DEFINE current == Greater(0, a.current + x)
             available == Greater(0, Lesser(current, a.available + x))
  <2>1. current \in Nat /\ available \in Nat
    BY <1>n DEF Lesser, Greater
  <2>2. RecordProfit(a, x) = [a EXCEPT !.current = current, !.available = available]
    BY DEF RecordProfit
  <2> HIDE DEF current, available
  <2> QED BY <2>1, <2>2, <1>a
<1> QED BY <1>1, <1>2, <1>3

\* What CapitalIsCovered says of an account, a held amount and a number of trades.
Covered(a, held, n) ==
  /\ a.available <= a.current
  /\ a.current <= a.available + held
  /\ a.openTrades = n

\* A reservation keeps an account covered.
LEMMA ReserveCovers ==
  ASSUME NEW a \in Accounts, NEW amount \in Nat, NEW held \in Nat, NEW n \in Nat,
         Covered(a, held, n), Reservable(a, amount)
  PROVE  Covered(Reserve(a, amount), held + amount, n + 1)
  BY DEF Accounts, Covered, Reservable, Reserve

\* So does a release, clamped to the current capital.
LEMMA ReleaseCovers ==
  ASSUME NEW a \in Accounts, NEW amount \in Nat, NEW held \in Nat, NEW n \in Nat,
         Covered(a, held + amount, n + 1)
  PROVE  Covered(Release(a, amount), held, n)
  BY DEF Accounts, Covered, Release, Lesser, Greater

\* So does a profit or a loss, clamped at zero.
LEMMA ProfitCovers ==
  ASSUME NEW a \in Accounts, NEW x \in Int, NEW held \in Nat, NEW n \in Nat,
         Covered(a, held, n)
  PROVE  Covered(RecordProfit(a, x), held, n)
  BY DEF Accounts, Covered, RecordProfit, Lesser, Greater

-----------------------------------------------------------------------------
(* Runs and saves *)

\* What every run carries: a plan outside the scans, a result once it has a lease,
\* and a driver at the steps that only those three take.
WellFormed(j) ==
  /\ j.at \notin {"idle", "release", "lease", "restart"} => j.plan \in Plans
  /\ j.who \in {"worker", "catch", "lifecycle", "recovery"} => <<j.plan, j.attempt>> \in Results
  /\ j.at \in {"allocate", "allocated", "captured", "mark", "acknowledge", "book",
               "post", "posted", "recovered"}
       => j.who \in {"worker", "lifecycle", "recovery"}

\* A throw leaves a well-formed run at a step that holds nothing back.
LEMMA ThrownForm ==
  ASSUME TypeOK, WellFormed(job)
  PROVE  Thrown \in Jobs /\ WellFormed(Thrown) /\ Thrown.at \in {"idle", "catch", "unbind"}
<1>1. CASE job.who = "worker"
  BY <1>1 DEF TypeOK, Thrown, Jobs, Runners, Labels, WellFormed, Results
<1>2. CASE job.who = "catch" /\ job.at = "catch" /\ ~job.exposed
  BY <1>2 DEF TypeOK, Thrown, To, Jobs, Runners, Labels, WellFormed, Results
<1>3. CASE job.who # "worker" /\ ~(job.who = "catch" /\ job.at = "catch" /\ ~job.exposed)
  <2>1. Thrown = Idle
    BY <1>3 DEF Thrown
  <2>2. Idle \in Jobs /\ Idle.at = "idle" /\ Idle.who = "none"
    BY BoundsAssumption DEF Idle, Jobs, Runners, Labels
  <2> QED BY <2>1, <2>2 DEF WellFormed
<1> QED BY <1>1, <1>2, <1>3

\* A store keeps its type when one of its maps is replaced.
LEMMA StoresClosed ==
  ASSUME NEW m \in Stores
  PROVE  /\ \A v \in [Plans -> QueueRecords] : [m EXCEPT !.queue = v] \in Stores
         /\ \A v \in [Plans -> AllocationStates] : [m EXCEPT !.alloc = v] \in Stores
         /\ \A v \in [Results -> JournalRecords] : [m EXCEPT !.journal = v] \in Stores
         /\ \A v \in [Results -> GroupStates] : [m EXCEPT !.groups = v] \in Stores
         /\ \A v \in [Results -> BookRecords] : [m EXCEPT !.books = v] \in Stores
<1>1. \A v \in [Plans -> QueueRecords] : [m EXCEPT !.queue = v] \in Stores
  BY DEF Stores
<1>2. \A v \in [Plans -> AllocationStates] : [m EXCEPT !.alloc = v] \in Stores
  BY DEF Stores
<1>3. \A v \in [Results -> JournalRecords] : [m EXCEPT !.journal = v] \in Stores
  BY DEF Stores
<1>4. \A v \in [Results -> GroupStates] : [m EXCEPT !.groups = v] \in Stores
  BY DEF Stores
<1>5. \A v \in [Results -> BookRecords] : [m EXCEPT !.books = v] \in Stores
  BY DEF Stores
<1> QED BY <1>1, <1>2, <1>3, <1>4, <1>5

\* What every save leaves: the next step, or the throw of a failed append.
Went(next) ==
  /\ faults' \in 0..MaxFaults
  /\ job' \in Jobs /\ WellFormed(job')
  /\ \/ job' = next
     \/ job' = Thrown /\ "failedAppend" \in Faults /\ job'.at \in {"idle", "catch", "unbind"}

\* The two ends of a save.
LEMMA Saved ==
  ASSUME TypeOK, WellFormed(job), NEW m, NEW d,
         NEW next \in Jobs, WellFormed(next), Save(m, d, next)
  PROVE  /\ Went(next)
         /\ mem' = m
         /\ \/ disk' = d
            \/ disk' = disk /\ "failedAppend" \in Faults /\ job' = Thrown
<1>m. mem' = m
  BY DEF Save
<1>1. CASE disk' = d /\ job' = next /\ UNCHANGED faults
  <2>1. faults' \in 0..MaxFaults
    BY <1>1 DEF TypeOK
  <2>2. job' \in Jobs /\ WellFormed(job') /\ job' = next
    BY <1>1
  <2>3. Went(next)
    BY <2>1, <2>2 DEF Went
  <2> QED BY <1>1, <1>m, <2>3
<1>2. CASE AppendFails /\ job' = Thrown /\ UNCHANGED disk
  <2>1. faults' \in 0..MaxFaults
    BY <1>2, BoundsAssumption DEF AppendFails, TypeOK
  <2>2. job' \in Jobs /\ WellFormed(job') /\ job'.at \in {"idle", "catch", "unbind"}
    BY <1>2, ThrownForm
  <2>3. "failedAppend" \in Faults
    BY <1>2 DEF AppendFails
  <2>4. Went(next)
    BY <1>2, <2>1, <2>2, <2>3 DEF Went
  <2> QED BY <1>2, <1>m, <2>3, <2>4
<1> QED BY <1>1, <1>2 DEF Save

\* The runs that work on a result, the steps they alone take, and the steps that
\* touch the account or follow its two journals.
Driven == {"worker", "lifecycle", "recovery"}
OfResult == {"allocate", "allocated", "captured", "mark", "acknowledge", "book",
             "post", "posted", "recovered"}
Busy == {"reserve", "reserved", "free", "freed", "post", "posted"}

\* The run moved to another step is well formed.
LEMMA ToForm ==
  ASSUME TypeOK, WellFormed(job), job.plan \in Plans, NEW x \in Labels,
         x \in OfResult => job.who \in Driven
  PROVE  /\ To(x) \in Jobs /\ WellFormed(To(x))
         /\ To(x).at = x /\ To(x).plan = job.plan
         /\ To(x).attempt = job.attempt /\ To(x).who = job.who
<1>0. job \in Jobs
  BY DEF TypeOK
<1>1. To(x) \in Jobs
  BY <1>0 DEF Jobs, To
<1>2. /\ To(x).at = x /\ To(x).plan = job.plan
      /\ To(x).attempt = job.attempt /\ To(x).who = job.who
  BY <1>0 DEF Jobs, To
<1>3. WellFormed(To(x))
  BY <1>2 DEF WellFormed, OfResult, Driven
<1> QED BY <1>1, <1>2, <1>3

\* A new run is well formed.
LEMMA JobForm ==
  ASSUME NEW who \in Runners, NEW x \in Labels, NEW p \in Plans \cup {0}, NEW n \in 0..MaxAttempts,
         x \notin {"idle", "release", "lease", "restart"} => p \in Plans,
         who \in {"worker", "catch", "lifecycle", "recovery"} => <<p, n>> \in Results,
         x \in OfResult => who \in Driven
  PROVE  /\ Job(who, x, p, n) \in Jobs /\ WellFormed(Job(who, x, p, n))
         /\ Job(who, x, p, n).at = x /\ Job(who, x, p, n).plan = p
         /\ Job(who, x, p, n).attempt = n /\ Job(who, x, p, n).who = who
<1>1. Job(who, x, p, n) \in Jobs
  BY DEF Job, Jobs
<1>2. /\ Job(who, x, p, n).at = x /\ Job(who, x, p, n).plan = p
      /\ Job(who, x, p, n).attempt = n /\ Job(who, x, p, n).who = who
  BY DEF Job
<1>3. WellFormed(Job(who, x, p, n))
  BY <1>2 DEF WellFormed, OfResult, Driven
<1> QED BY <1>1, <1>2, <1>3

\* The runs of releaseTerminalCapital() are well formed.
LEMMA TerminalForm ==
  ASSUME NEW x \in {"release", "lease", "unbind"}, NEW p \in Plans \cup {0},
         x = "unbind" => p \in Plans
  PROVE  /\ Job("terminal", x, p, 0) \in Jobs /\ WellFormed(Job("terminal", x, p, 0))
         /\ Job("terminal", x, p, 0).at \notin Busy
<1>1. "terminal" \in Runners /\ x \in Labels /\ 0 \in 0..MaxAttempts
  BY BoundsAssumption DEF Runners, Labels
<1>2. x \notin OfResult /\ x \notin Busy
  BY DEF OfResult, Busy
<1>3. x \notin {"idle", "release", "lease", "restart"} => p \in Plans
  OBVIOUS
<1>4. Job("terminal", x, p, 0).at = x
  BY DEF Job
<1> QED BY <1>1, <1>2, <1>3, <1>4, JobForm

\* No run is a well-formed run.
LEMMA IdleForm == Idle \in Jobs /\ WellFormed(Idle) /\ Idle.at = "idle"
<1>1. Idle \in Jobs /\ Idle.at = "idle" /\ Idle.who = "none"
  BY BoundsAssumption DEF Idle, Jobs, Runners, Labels
<1> QED BY <1>1 DEF WellFormed

-----------------------------------------------------------------------------
(* Quiet steps *)

\* A step that leaves account, allocations and accounting records alone, and
\* takes the run to a step where they are settled.
Quiet ==
  /\ mem' \in Stores /\ disk' \in Stores
  /\ mem'.alloc = mem.alloc /\ disk'.alloc = disk.alloc
  /\ mem'.books = mem.books /\ disk'.books = disk.books
  /\ UNCHANGED <<account, ledger>>
  /\ clock' \in 0..MaxClock /\ faults' \in 0..MaxFaults
  /\ job' \in Jobs /\ WellFormed(job') /\ job'.at \notin Busy

\* Which steps are quiet, one lemma per action.
LEMMA GoesQuiet ==
  ASSUME TypeOK, NEW next \in Jobs, WellFormed(next), next.at \notin Busy,
         Goes(next), UNCHANGED <<clock, account, ledger>>
  PROVE  Quiet
  BY DEF TypeOK, Goes, Quiet

LEMMA WentQuiet ==
  ASSUME TypeOK, NEW next \in Jobs, next.at \notin Busy, Went(next),
         UNCHANGED <<clock, account, ledger>>
  PROVE  /\ UNCHANGED <<account, ledger>>
         /\ clock' \in 0..MaxClock /\ faults' \in 0..MaxFaults
         /\ job' \in Jobs /\ WellFormed(job') /\ job'.at \notin Busy
<1>1. job'.at \notin Busy
  BY DEF Went, Busy
<1>2. clock' \in 0..MaxClock
  BY DEF TypeOK
<1> QED BY <1>1, <1>2 DEF Went

LEMMA QueueQuiet ==
  ASSUME TypeOK, WellFormed(job), NEW v \in [Plans -> QueueRecords],
         NEW next \in Jobs, WellFormed(next), next.at \notin Busy,
         SaveQueue(v, next), UNCHANGED <<clock, account, ledger>>
  PROVE  Quiet
<1> DEFINE m == [mem EXCEPT !.queue = v]
           d == [disk EXCEPT !.queue = v]
<1>0. mem \in Stores /\ disk \in Stores
  BY DEF TypeOK
<1>1. m \in Stores /\ d \in Stores
  BY <1>0, StoresClosed
<1>2. /\ m.alloc = mem.alloc /\ m.books = mem.books
      /\ d.alloc = disk.alloc /\ d.books = disk.books
  BY <1>0 DEF Stores
<1>3. Save(m, d, next)
  BY DEF SaveQueue
<1> HIDE DEF m, d
<1>4. Went(next) /\ mem' = m /\ (disk' = d \/ disk' = disk)
  BY <1>3, Saved
<1>5. mem' \in Stores /\ disk' \in Stores
  BY <1>0, <1>1, <1>4
<1>6. /\ mem'.alloc = mem.alloc /\ disk'.alloc = disk.alloc
      /\ mem'.books = mem.books /\ disk'.books = disk.books
  BY <1>2, <1>4
<1> QED BY <1>4, <1>5, <1>6, WentQuiet DEF Quiet

LEMMA JournalQuiet ==
  ASSUME TypeOK, WellFormed(job), NEW v \in [Results -> JournalRecords],
         NEW next \in Jobs, WellFormed(next), next.at \notin Busy,
         Save([mem EXCEPT !.journal = v], [disk EXCEPT !.journal = v], next),
         UNCHANGED <<clock, account, ledger>>
  PROVE  Quiet
<1> DEFINE m == [mem EXCEPT !.journal = v]
           d == [disk EXCEPT !.journal = v]
<1>0. mem \in Stores /\ disk \in Stores
  BY DEF TypeOK
<1>1. m \in Stores /\ d \in Stores
  BY <1>0, StoresClosed
<1>2. /\ m.alloc = mem.alloc /\ m.books = mem.books
      /\ d.alloc = disk.alloc /\ d.books = disk.books
  BY <1>0 DEF Stores
<1>3. Save(m, d, next)
  OBVIOUS
<1> HIDE DEF m, d
<1>4. Went(next) /\ mem' = m /\ (disk' = d \/ disk' = disk)
  BY <1>3, Saved
<1>5. mem' \in Stores /\ disk' \in Stores
  BY <1>0, <1>1, <1>4
<1>6. /\ mem'.alloc = mem.alloc /\ disk'.alloc = disk.alloc
      /\ mem'.books = mem.books /\ disk'.books = disk.books
  BY <1>2, <1>4
<1> QED BY <1>4, <1>5, <1>6, WentQuiet DEF Quiet

LEMMA GroupsQuiet ==
  ASSUME TypeOK, WellFormed(job), NEW v \in [Results -> GroupStates],
         NEW next \in Jobs, WellFormed(next), next.at \notin Busy,
         Save([mem EXCEPT !.groups = v], [disk EXCEPT !.groups = v], next),
         UNCHANGED <<clock, account, ledger>>
  PROVE  Quiet
<1> DEFINE m == [mem EXCEPT !.groups = v]
           d == [disk EXCEPT !.groups = v]
<1>0. mem \in Stores /\ disk \in Stores
  BY DEF TypeOK
<1>1. m \in Stores /\ d \in Stores
  BY <1>0, StoresClosed
<1>2. /\ m.alloc = mem.alloc /\ m.books = mem.books
      /\ d.alloc = disk.alloc /\ d.books = disk.books
  BY <1>0 DEF Stores
<1>3. Save(m, d, next)
  OBVIOUS
<1> HIDE DEF m, d
<1>4. Went(next) /\ mem' = m /\ (disk' = d \/ disk' = disk)
  BY <1>3, Saved
<1>5. mem' \in Stores /\ disk' \in Stores
  BY <1>0, <1>1, <1>4
<1>6. /\ mem'.alloc = mem.alloc /\ disk'.alloc = disk.alloc
      /\ mem'.books = mem.books /\ disk'.books = disk.books
  BY <1>2, <1>4
<1> QED BY <1>4, <1>5, <1>6, WentQuiet DEF Quiet

LEMMA QueueTyped ==
  ASSUME TypeOK, NEW p \in Plans
  PROVE  /\ mem.queue \in [Plans -> QueueRecords]
         /\ \A r \in QueueRecords : [mem.queue EXCEPT ![p] = r] \in [Plans -> QueueRecords]
  BY DEF TypeOK, Stores

LEMMA RecordsClosed ==
  ASSUME NEW r \in QueueRecords, NEW s \in QueueStates, NEW t \in Nat
  PROVE  /\ [r EXCEPT !.state = s, !.leaseExpiresAt = t] \in QueueRecords
         /\ \A u \in Nat :
              [r EXCEPT !.state = s, !.leaseExpiresAt = u, !.nextLeaseEligibleAt = t]
                \in QueueRecords
         /\ \A k \in 0..MaxAttempts :
              [r EXCEPT !.state = s, !.attempts = k, !.leaseExpiresAt = t] \in QueueRecords
<1>1. [r EXCEPT !.state = s, !.leaseExpiresAt = t] \in QueueRecords
  BY DEF QueueRecords
<1>2. \A u \in Nat :
        [r EXCEPT !.state = s, !.leaseExpiresAt = u, !.nextLeaseEligibleAt = t] \in QueueRecords
  BY DEF QueueRecords
<1>3. \A k \in 0..MaxAttempts :
        [r EXCEPT !.state = s, !.attempts = k, !.leaseExpiresAt = t] \in QueueRecords
  BY DEF QueueRecords
<1> QED BY <1>1, <1>2, <1>3

\* The sweep keeps the queue typed.
LEMMA SweptTyped ==
  ASSUME TypeOK
  PROVE  Swept \in [Plans -> QueueRecords]
<1> SUFFICES ASSUME NEW p \in Plans PROVE SweptRecord(mem.queue[p], p) \in QueueRecords
  BY DEF Swept
<1>1. mem.queue[p] \in QueueRecords
  BY DEF TypeOK, Stores
<1>2. /\ [mem.queue[p] EXCEPT !.state = "QUEUED", !.leaseExpiresAt = 0] \in QueueRecords
      /\ [mem.queue[p] EXCEPT !.state = "EXPIRED", !.leaseExpiresAt = 0] \in QueueRecords
  BY <1>1, RecordsClosed DEF QueueStates
<1> QED BY <1>1, <1>2 DEF SweptRecord

LEMMA EnqueueQuiet ==
  ASSUME TypeOK, WellFormed(job), NEW p \in Plans, Enqueue(p)
  PROVE  Quiet
<1>0. Swept \in [Plans -> QueueRecords]
  BY SweptTyped
<1>1. NoQueueRecord \in QueueRecords /\ clock \in Nat /\ clock \in 0..MaxClock
  BY BoundsAssumption DEF TypeOK, NoQueueRecord, QueueRecords, QueueStates
<1>2. [NoQueueRecord EXCEPT !.state = "QUEUED", !.nextLeaseEligibleAt = clock] \in QueueRecords
  BY <1>1 DEF QueueRecords, QueueStates
<1>3. \A queue \in [Plans -> QueueRecords] : Enqueued(queue, p) \in [Plans -> QueueRecords]
  BY <1>2 DEF Enqueued
<1>4. \A q \in Plans : [Swept EXCEPT ![q] = NoQueueRecord] \in [Plans -> QueueRecords]
  BY <1>0, <1>1
<1>i. Idle \in Jobs /\ WellFormed(Idle) /\ Idle.at \notin Busy
  BY IdleForm DEF Busy
<1>u. UNCHANGED <<clock, account, ledger>>
  BY DEF Enqueue
<1>5. CASE SaveQueue(Enqueued(Swept, p), Idle)
  BY <1>0, <1>3, <1>5, <1>i, <1>u, QueueQuiet
<1>6. ASSUME NEW q \in Plans,
             SaveQueue(Enqueued([Swept EXCEPT ![q] = NoQueueRecord], p), Idle)
      PROVE  Quiet
  BY <1>3, <1>4, <1>6, <1>i, <1>u, QueueQuiet
<1>7. CASE mem' = [mem EXCEPT !.queue = Swept] /\ UNCHANGED <<disk, job, faults>>
  <2>0. mem \in Stores /\ disk \in Stores /\ faults \in 0..MaxFaults
    BY DEF TypeOK
  <2>1. mem' \in Stores
    BY <2>0, <1>0, <1>7, StoresClosed
  <2>2. mem'.alloc = mem.alloc /\ mem'.books = mem.books
    BY <2>0, <1>7 DEF Stores
  <2>3. job' = Idle
    BY <1>7 DEF Enqueue
  <2> QED BY <1>1, <1>7, <2>0, <2>1, <2>2, <2>3, <1>i, <1>u DEF Quiet
<1>8. \/ SaveQueue(Enqueued(Swept, p), Idle)
      \/ \E q \in Plans : SaveQueue(Enqueued([Swept EXCEPT ![q] = NoQueueRecord], p), Idle)
      \/ mem' = [mem EXCEPT !.queue = Swept] /\ UNCHANGED <<disk, job, faults>>
  BY DEF Enqueue, Removable
<1> QED BY <1>5, <1>6, <1>7, <1>8

LEMMA AcknowledgeQuiet ==
  ASSUME TypeOK, WellFormed(job), job.plan \in Plans, NEW outcome \in QueueStates,
         NEW next \in Jobs, WellFormed(next), next.at \notin Busy,
         Acknowledge(outcome, next), UNCHANGED <<clock, account, ledger>>
  PROVE  Quiet
<1> DEFINE r == [mem.queue[job.plan] EXCEPT !.state = outcome, !.leaseExpiresAt = 0]
           v == [mem.queue EXCEPT ![job.plan] = r]
<1>1. mem.queue \in [Plans -> QueueRecords]
  BY DEF TypeOK, Stores
<1>2. r \in QueueRecords
  BY <1>1, RecordsClosed
<1>3. [mem.queue EXCEPT ![job.plan].state = outcome, ![job.plan].leaseExpiresAt = 0] = v
  BY <1>1 DEF QueueRecords
<1>4. v \in [Plans -> QueueRecords]
  BY <1>1, <1>2
<1>5. SaveQueue(v, next)
  BY <1>3 DEF Acknowledge
<1> HIDE DEF r, v
<1> QED BY <1>4, <1>5, QueueQuiet

LEMMA WorkerStartsQuiet ==
  ASSUME TypeOK, WellFormed(job), WorkerStarts
  PROVE  Quiet
<1> DEFINE next == Job("terminal", "release", 0, 0)
<1>1. next \in Jobs /\ WellFormed(next) /\ next.at \notin Busy
  BY TerminalForm
<1> HIDE DEF next
<1>2. CASE Goes(next)
  BY <1>1, <1>2, GoesQuiet DEF WorkerStarts
<1>3. CASE SaveQueue(Swept, next)
  BY <1>1, <1>3, SweptTyped, QueueQuiet DEF WorkerStarts
<1> QED BY <1>2, <1>3 DEF WorkerStarts, next

LEMMA ReleaseTerminalQuiet ==
  ASSUME TypeOK, WellFormed(job), ReleaseTerminal
  PROVE  Quiet
<1>1. ASSUME NEW p \in Plans, Goes(Job("terminal", "unbind", p, 0))
      PROVE  Quiet
  <2> DEFINE next == Job("terminal", "unbind", p, 0)
  <2>1. next \in Jobs /\ WellFormed(next) /\ next.at \notin Busy
    BY TerminalForm
  <2> HIDE DEF next
  <2> QED BY <1>1, <2>1, GoesQuiet DEF ReleaseTerminal, next
<1>2. CASE Goes(Job("terminal", "lease", 0, 0))
  <2> DEFINE next == Job("terminal", "lease", 0, 0)
  <2>1. next \in Jobs /\ WellFormed(next) /\ next.at \notin Busy
    BY TerminalForm
  <2> HIDE DEF next
  <2> QED BY <1>2, <2>1, GoesQuiet DEF ReleaseTerminal, next
<1> QED BY <1>1, <1>2 DEF ReleaseTerminal

LEMMA LeaseNextQuiet ==
  ASSUME TypeOK, WellFormed(job), LeaseNext
  PROVE  Quiet
<1>1. ASSUME NEW p \in Plans, mem.queue[p].attempts < MaxAttempts,
             SaveQueue([mem.queue EXCEPT ![p] = Leased(p)],
                       Job("worker", "allocate", p, mem.queue[p].attempts + 1))
      PROVE  Quiet
  <2>1. mem.queue[p] \in QueueRecords
    BY DEF TypeOK, Stores
  <2>2. mem.queue[p].attempts \in 0..MaxAttempts /\ mem.queue[p].attempts + 1 \in 1..MaxAttempts
    BY <1>1, <2>1, BoundsAssumption DEF QueueRecords
  <2>3. Lesser(clock + LeaseTtl, PlanExpiry[p]) \in Nat
    BY BoundsAssumption, ExpiryAssumption DEF TypeOK, Lesser
  <2>4. Leased(p) \in QueueRecords
    <3> DEFINE n == mem.queue[p].attempts + 1
               t == Lesser(clock + LeaseTtl, PlanExpiry[p])
    <3>1. Leased(p) = [mem.queue[p] EXCEPT !.state = "LEASED", !.attempts = n,
                                           !.leaseExpiresAt = t]
      BY <2>1 DEF Leased, QueueRecords
    <3>2. n \in 0..MaxAttempts /\ t \in Nat /\ "LEASED" \in QueueStates
      BY <2>2, <2>3, BoundsAssumption DEF QueueStates
    <3> HIDE DEF n, t
    <3>3. [mem.queue[p] EXCEPT !.state = "LEASED", !.attempts = n, !.leaseExpiresAt = t]
            \in QueueRecords
      BY <2>1, <3>2 DEF QueueRecords
    <3> QED BY <3>1, <3>3
  <2>5. [mem.queue EXCEPT ![p] = Leased(p)] \in [Plans -> QueueRecords]
    BY <2>4, QueueTyped
  <2> DEFINE n == mem.queue[p].attempts + 1
             next == Job("worker", "allocate", p, n)
  <2>6. <<p, n>> \in Results /\ n \in 0..MaxAttempts
    BY <2>2, BoundsAssumption DEF Results
  <2> HIDE DEF n
  <2>7. next \in Jobs /\ WellFormed(next) /\ next.at \notin Busy
    <3>1. /\ "worker" \in Runners /\ "allocate" \in Labels
          /\ "worker" \in Driven /\ "allocate" \notin Busy
      BY DEF Runners, Labels, Driven, Busy
    <3>2. next.at = "allocate"
      BY DEF Job
    <3>3. p \in Plans \cup {0}
      OBVIOUS
    <3>4. next \in Jobs /\ WellFormed(next)
      BY <2>6, <3>1, <3>3, JobForm
    <3> QED BY <3>1, <3>2, <3>4
  <2>8. SaveQueue([mem.queue EXCEPT ![p] = Leased(p)], next)
    BY <1>1 DEF n
  <2> HIDE DEF next
  <2> QED BY <2>5, <2>7, <2>8, QueueQuiet DEF LeaseNext
<1>2. CASE Goes(Idle)
  BY <1>2, IdleForm, GoesQuiet DEF LeaseNext, Busy
<1> QED BY <1>1, <1>2 DEF LeaseNext

\* What a run at a step of a result carries.
LEMMA AtResult ==
  ASSUME TypeOK, WellFormed(job), job.at \in OfResult
  PROVE  job.plan \in Plans /\ job.who \in Driven /\ TheResult \in Results
<1>1. job.who \in Driven
  BY DEF WellFormed, OfResult, Driven
<1>2. job.plan \in Plans
  BY DEF WellFormed, OfResult
<1>3. TheResult \in Results
  BY <1>1 DEF WellFormed, Driven, TheResult
<1> QED BY <1>1, <1>2, <1>3

LEMMA NextForm ==
  ASSUME TypeOK, WellFormed(job), job.at \in OfResult, NEW x \in Labels
  PROVE  To(x) \in Jobs /\ WellFormed(To(x)) /\ To(x).at = x
  BY AtResult, ToForm

LEMMA QuietForms ==
  ASSUME TypeOK, WellFormed(job), job.at \in OfResult
  PROVE  /\ \A x \in {"allocated", "mark", "acknowledge", "captured", "unbind", "book", "recovered"} :
              To(x) \in Jobs /\ WellFormed(To(x)) /\ To(x).at \notin Busy
         /\ Idle \in Jobs /\ WellFormed(Idle) /\ Idle.at \notin Busy
         /\ Thrown \in Jobs /\ WellFormed(Thrown) /\ Thrown.at \notin Busy
<1>1. ASSUME NEW x \in {"allocated", "mark", "acknowledge", "captured", "unbind", "book", "recovered"}
      PROVE  To(x) \in Jobs /\ WellFormed(To(x)) /\ To(x).at \notin Busy
  <2>1. x \in Labels /\ x \notin Busy
    BY DEF Labels, Busy
  <2> QED BY <2>1, NextForm
<1>2. Idle \in Jobs /\ WellFormed(Idle) /\ Idle.at \notin Busy
  BY IdleForm DEF Busy
<1>3. Thrown \in Jobs /\ WellFormed(Thrown) /\ Thrown.at \notin Busy
  BY ThrownForm DEF Busy
<1> QED BY <1>1, <1>2, <1>3

LEMMA RejectUnallocatedQuiet ==
  ASSUME TypeOK, WellFormed(job), RejectUnallocated
  PROVE  Quiet
<1>1. job.at \in OfResult
  BY DEF RejectUnallocated, OfResult
<1>2. "REJECTED" \in QueueStates /\ Acknowledge("REJECTED", Idle) /\ UNCHANGED <<clock, account, ledger>>
  BY DEF RejectUnallocated, QueueStates
<1> QED BY <1>1, <1>2, AtResult, QuietForms, AcknowledgeQuiet

LEMMA NoEvidenceQuiet ==
  ASSUME TypeOK, WellFormed(job), NoEvidence
  PROVE  Quiet
<1>1. job.at \in OfResult
  BY DEF NoEvidence, OfResult
<1>p. job.plan \in Plans /\ UNCHANGED <<clock, account, ledger>>
  BY <1>1, AtResult DEF NoEvidence
<1>2. CASE SaveQueue([mem.queue EXCEPT ![job.plan] = Deferred(@)], Idle)
  <2>1. mem.queue \in [Plans -> QueueRecords] /\ mem.queue[job.plan] \in QueueRecords
    BY <1>p DEF TypeOK, Stores
  <2>2. Lesser(clock + EvidenceRetryDelay, PlanExpiry[job.plan]) \in Nat
    BY <1>p, BoundsAssumption, ExpiryAssumption DEF TypeOK, Lesser
  <2>3. Deferred(mem.queue[job.plan]) \in QueueRecords
    <3> DEFINE t == Lesser(clock + EvidenceRetryDelay, PlanExpiry[job.plan])
    <3>1. t \in Nat /\ "QUEUED" \in QueueStates
      BY <2>2 DEF QueueStates
    <3> HIDE DEF t
    <3>2. [mem.queue[job.plan] EXCEPT !.state = "QUEUED", !.leaseExpiresAt = 0,
                                      !.nextLeaseEligibleAt = t] \in QueueRecords
      BY <2>1, <3>1 DEF QueueRecords
    <3> QED BY <3>2 DEF Deferred, t
  <2>4. [mem.queue EXCEPT ![job.plan] = Deferred(mem.queue[job.plan])] \in [Plans -> QueueRecords]
    BY <2>3, <1>p, QueueTyped
  <2>5. SaveQueue([mem.queue EXCEPT ![job.plan] = Deferred(mem.queue[job.plan])], Idle)
    BY <1>2
  <2> QED BY <1>1, <1>p, <2>4, <2>5, QuietForms, QueueQuiet
<1>3. CASE Acknowledge("REJECTED", To("unbind"))
  <2>1. "REJECTED" \in QueueStates
    BY DEF QueueStates
  <2> QED BY <1>1, <1>3, <1>p, <2>1, QuietForms, AcknowledgeQuiet
<1> QED BY <1>2, <1>3 DEF NoEvidence

LEMMA SimulationThrowsQuiet ==
  ASSUME TypeOK, WellFormed(job), SimulationThrows
  PROVE  Quiet
<1>1. job.at \in OfResult
  BY DEF SimulationThrows, OfResult
<1> QED BY <1>1, QuietForms, GoesQuiet DEF SimulationThrows

LEMMA CaptureQuiet ==
  ASSUME TypeOK, WellFormed(job), Capture
  PROVE  Quiet
<1>1. job.at \in OfResult /\ UNCHANGED <<clock, account, ledger>>
  BY DEF Capture, OfResult
<1>r. TheResult \in Results /\ job.plan \in Plans
  BY <1>1, AtResult
<1>2. PICK o \in Outcomes :
        LET v == [mem.journal EXCEPT ![TheResult] = Captured(o)]
        IN  Save([mem EXCEPT !.journal = v], [disk EXCEPT !.journal = v],
                 [To("captured") EXCEPT !.exposed = (o # "NO_FILL")])
  BY DEF Capture
<1> DEFINE v == [mem.journal EXCEPT ![TheResult] = Captured(o)]
           next == [To("captured") EXCEPT !.exposed = (o # "NO_FILL")]
<1>3. v \in [Results -> JournalRecords]
  <2>1. Captured(o) \in JournalRecords
    BY DEF TypeOK, Captured, JournalRecords, JournalStates
  <2>2. mem.journal \in [Results -> JournalRecords]
    BY DEF TypeOK, Stores
  <2> QED BY <2>1, <2>2
<1>4. next \in Jobs /\ WellFormed(next) /\ next.at \notin Busy
  <2>1. To("captured") \in Jobs /\ WellFormed(To("captured")) /\ To("captured").at = "captured"
    BY <1>1, NextForm DEF Labels
  <2>2. next \in Jobs
    BY <2>1 DEF Jobs
  <2>3. /\ next.at = "captured" /\ next.plan = To("captured").plan
        /\ next.who = To("captured").who /\ next.attempt = To("captured").attempt
    BY <2>1 DEF Jobs
  <2>4. WellFormed(next)
    BY <2>1, <2>3 DEF WellFormed
  <2> QED BY <2>2, <2>3, <2>4 DEF Busy
<1>5. Save([mem EXCEPT !.journal = v], [disk EXCEPT !.journal = v], next)
  BY <1>2
<1> HIDE DEF v, next
<1> QED BY <1>1, <1>3, <1>4, <1>5, JournalQuiet

LEMMA SaveJournalQuiet ==
  ASSUME TypeOK, WellFormed(job), TheResult \in Results, NEW s \in JournalStates,
         NEW next \in Jobs, WellFormed(next), next.at \notin Busy,
         SaveJournal(s, next), UNCHANGED <<clock, account, ledger>>
  PROVE  Quiet
<1> DEFINE v == [mem.journal EXCEPT ![TheResult].state = s]
<1>1. mem.journal \in [Results -> JournalRecords]
  BY DEF TypeOK, Stores
<1>2. [mem.journal[TheResult] EXCEPT !.state = s] \in JournalRecords
  BY <1>1 DEF JournalRecords
<1>3. v \in [Results -> JournalRecords]
  BY <1>1, <1>2
<1>4. Save([mem EXCEPT !.journal = v], [disk EXCEPT !.journal = v], next)
  BY DEF SaveJournal
<1> HIDE DEF v
<1> QED BY <1>3, <1>4, JournalQuiet

LEMMA SaveGroupQuiet ==
  ASSUME TypeOK, WellFormed(job), NEW r \in Results, NEW s \in GroupStates,
         NEW next \in Jobs, WellFormed(next), next.at \notin Busy,
         SaveGroup(r, s, next), UNCHANGED <<clock, account, ledger>>
  PROVE  Quiet
<1> DEFINE v == [mem.groups EXCEPT ![r] = s]
<1>1. v \in [Results -> GroupStates]
  BY DEF TypeOK, Stores
<1>2. Save([mem EXCEPT !.groups = v], [disk EXCEPT !.groups = v], next)
  BY DEF SaveGroup
<1> HIDE DEF v
<1> QED BY <1>1, <1>2, GroupsQuiet

LEMMA StageRecoveryQuiet ==
  ASSUME TypeOK, WellFormed(job), StageRecovery
  PROVE  Quiet
<1>1. job.at \in OfResult /\ UNCHANGED <<clock, account, ledger>>
  BY DEF StageRecovery, OfResult
<1>2. "SHARED_RECOVERY_STAGED" \in JournalStates /\ "RECOVERY_STAGING_FAILED" \in JournalStates
  BY DEF JournalStates
<1>3. CASE SaveJournal("SHARED_RECOVERY_STAGED", To("acknowledge"))
  BY <1>1, <1>2, <1>3, AtResult, QuietForms, SaveJournalQuiet
<1>4. CASE SaveJournal("RECOVERY_STAGING_FAILED", To("acknowledge"))
  BY <1>1, <1>2, <1>4, AtResult, QuietForms, SaveJournalQuiet
<1> QED BY <1>3, <1>4 DEF StageRecovery

LEMMA RecordEntryQuiet ==
  ASSUME TypeOK, WellFormed(job), RecordEntry
  PROVE  Quiet
<1>1. job.at \in OfResult /\ UNCHANGED <<clock, account, ledger>>
  BY DEF RecordEntry, OfResult
<1>2. "OPEN" \in GroupStates /\ "CLOSED" \in GroupStates
  BY DEF GroupStates
<1>3. CASE SaveGroup(TheResult, "OPEN", To("mark"))
  BY <1>1, <1>2, <1>3, AtResult, QuietForms, SaveGroupQuiet
<1>4. CASE SaveGroup(TheResult, "CLOSED", To("book"))
  BY <1>1, <1>2, <1>4, AtResult, QuietForms, SaveGroupQuiet
<1>5. CASE Goes(Thrown)
  BY <1>1, <1>5, QuietForms, GoesQuiet
<1> QED BY <1>3, <1>4, <1>5 DEF RecordEntry

LEMMA MarksQuiet ==
  ASSUME TypeOK, WellFormed(job), MarkPositionAccounted \/ MarkRecoveryCompleted
  PROVE  Quiet
<1>1. job.at \in OfResult /\ UNCHANGED <<clock, account, ledger>>
  BY DEF MarkPositionAccounted, MarkRecoveryCompleted, OfResult
<1>2. "POSITION_ACCOUNTED" \in JournalStates /\ "RECOVERY_COMPLETED" \in JournalStates
  BY DEF JournalStates
<1>3. CASE MarkPositionAccounted
  BY <1>1, <1>2, <1>3, AtResult, QuietForms, SaveJournalQuiet DEF MarkPositionAccounted
<1>4. CASE MarkRecoveryCompleted
  BY <1>1, <1>2, <1>4, AtResult, QuietForms, SaveJournalQuiet DEF MarkRecoveryCompleted
<1> QED BY <1>3, <1>4

LEMMA FinishQuiet ==
  ASSUME TypeOK, WellFormed(job), Finish
  PROVE  Quiet
<1>1. job.at \in OfResult /\ UNCHANGED <<clock, account, ledger>>
  BY DEF Finish, OfResult
<1>2. "COMPLETED" \in QueueStates /\ "REJECTED" \in QueueStates
  BY DEF QueueStates
<1>3. PICK outcome \in {"COMPLETED", "REJECTED"}, next \in {Idle, To("unbind")} :
        Acknowledge(outcome, next)
  BY DEF Finish
<1>4. next \in Jobs /\ WellFormed(next) /\ next.at \notin Busy /\ job.plan \in Plans
  BY <1>1, <1>3, AtResult, QuietForms
<1> QED BY <1>1, <1>2, <1>3, <1>4, AcknowledgeQuiet

LEMMA CatchQuiet ==
  ASSUME TypeOK, WellFormed(job), Catch
  PROVE  Quiet
<1>1. job.plan \in Plans /\ UNCHANGED <<clock, account, ledger>>
  BY DEF Catch, WellFormed
<1>2. Thrown \in Jobs /\ WellFormed(Thrown) /\ Thrown.at \notin Busy
  BY ThrownForm DEF Busy
<1>3. "REJECTED" \in QueueStates
  BY DEF QueueStates
<1>4. CASE Acknowledge("REJECTED", Thrown)
  BY <1>1, <1>2, <1>3, <1>4, AcknowledgeQuiet
<1>5. CASE Goes(Thrown)
  BY <1>1, <1>2, <1>5, GoesQuiet
<1> QED BY <1>4, <1>5 DEF Catch

LEMMA NoConversionQuiet ==
  ASSUME TypeOK, WellFormed(job), NoConversion
  PROVE  Quiet
<1>1. job.at \in OfResult /\ UNCHANGED <<clock, account, ledger>>
  BY DEF NoConversion, OfResult
<1>2. PICK next \in {To("mark"), Idle} : Goes(next)
  BY DEF NoConversion
<1> QED BY <1>1, <1>2, QuietForms, GoesQuiet

LEMMA ScanForm ==
  ASSUME NEW r \in Results, NEW who \in {"lifecycle", "recovery"},
         NEW x \in {"unbind", "book", "recovered"}
  PROVE  /\ Job(who, x, r[1], r[2]) \in Jobs /\ WellFormed(Job(who, x, r[1], r[2]))
         /\ Job(who, x, r[1], r[2]).at \notin Busy
<1>1. r[1] \in Plans /\ r[1] \in Plans \cup {0} /\ r[2] \in 0..MaxAttempts /\ <<r[1], r[2]>> \in Results
  BY BoundsAssumption DEF Results
<1>2. who \in Runners /\ x \in Labels /\ who \in Driven /\ x \notin Busy
  BY DEF Runners, Labels, Driven, Busy
<1> QED BY <1>1, <1>2, JobForm

LEMMA ScanQuiet ==
  ASSUME TypeOK, WellFormed(job), NEW r \in Results, Scan(r)
  PROVE  Quiet
<1>1. UNCHANGED <<clock, account, ledger>>
  BY DEF Scan, ReconcileClosed, CloseOpen, Recover
<1>2. "CLOSED" \in GroupStates
  BY DEF GroupStates
<1>3. CASE ReconcileClosed(r)
  <2>1. PICK x \in {"unbind", "book"} : Goes(Job("lifecycle", x, r[1], r[2]))
    BY <1>3 DEF ReconcileClosed
  <2> QED BY <1>1, <2>1, ScanForm, GoesQuiet
<1>4. CASE CloseOpen(r)
  <2>1. SaveGroup(r, "CLOSED", Job("lifecycle", "book", r[1], r[2]))
    BY <1>4 DEF CloseOpen
  <2> QED BY <1>1, <1>2, <2>1, ScanForm, SaveGroupQuiet
<1>5. CASE Recover(r)
  <2> DEFINE next == Job("recovery", "recovered", r[1], r[2])
  <2>1. SaveGroup(r, "CLOSED", next) \/ Goes(next)
    BY <1>5 DEF Recover
  <2>2. next \in Jobs /\ WellFormed(next) /\ next.at \notin Busy
    BY ScanForm
  <2> HIDE DEF next
  <2> QED BY <1>1, <1>2, <2>1, <2>2, SaveGroupQuiet, GoesQuiet
<1> QED BY <1>3, <1>4, <1>5 DEF Scan

LEMMA TickQuiet ==
  ASSUME TypeOK, WellFormed(job), Tick
  PROVE  Quiet
<1>1. clock' \in 0..MaxClock
  BY BoundsAssumption DEF Tick, TypeOK
<1>2. job' = Idle /\ job = Idle
  BY DEF Tick
<1> QED BY <1>1, <1>2, IdleForm DEF Tick, TypeOK, Quiet, Busy

-----------------------------------------------------------------------------
(* The invariant under every fault *)

\* The allocation states only a reserved plan reaches.
Owned == {"ACTIVE", "PENDING_RELEASE", "RELEASED"}

\* What a run at an account step relies on.
Ready ==
  /\ job.at \in {"post", "posted"} => TheBook.state # "NONE"
  /\ job.at \in {"free", "freed"} => job.plan \in ledger.reserved

\* An allocation past its reservation is reserved in the account ledger.
Backed ==
  /\ ledger.released \subseteq ledger.reserved
  /\ \A p \in Plans :
       mem.alloc[p] \in Owned \/ disk.alloc[p] \in Owned => p \in ledger.reserved

\* The inductive invariant under every fault.
Inv == TypeOK /\ WellFormed(job) /\ Ready /\ Backed /\ CapitalIsCovered

\* Steps that leave the account alone keep its capital covered.
LEMMA SameCapital ==
  ASSUME CapitalIsCovered, UNCHANGED <<account, ledger>>
  PROVE  CapitalIsCovered'
<1>1. Held' = Held /\ account' = account
  BY DEF Held
<1> QED BY <1>1 DEF CapitalIsCovered

\* Quiet steps keep the invariant.
LEMMA QuietInv ==
  ASSUME Inv, Quiet
  PROVE  Inv'
<1>1. TypeOK'
  BY DEF Inv, Quiet, TypeOK
<1>2. WellFormed(job)' /\ Ready'
  BY DEF Quiet, Ready, Busy
<1>3. Backed'
  BY DEF Inv, Quiet, Backed
<1>4. CapitalIsCovered'
  BY SameCapital DEF Inv, Quiet
<1> QED BY <1>1, <1>2, <1>3, <1>4 DEF Inv

\* So do steps that write nothing.
LEMMA GoesInv ==
  ASSUME Inv, NEW next \in Jobs, WellFormed(next), Goes(next),
         UNCHANGED <<clock, account, ledger>>,
         next.at \in {"post", "posted"} => mem.books[<<next.plan, next.attempt>>].state # "NONE",
         next.at \in {"free", "freed"} => next.plan \in ledger.reserved
  PROVE  Inv'
<1>1. TypeOK'
  BY DEF Inv, Goes, TypeOK
<1>2. WellFormed(job)'
  BY DEF Goes
<1>3. Ready'
  BY DEF Goes, Ready, TheBook, TheResult
<1>4. Backed'
  BY DEF Inv, Goes, Backed
<1>5. CapitalIsCovered'
  BY SameCapital DEF Inv
<1> QED BY <1>1, <1>2, <1>3, <1>4, <1>5 DEF Inv

\* What a save of one allocation changes.
LEMMA AllocSaved ==
  ASSUME TypeOK, WellFormed(job), job.plan \in Plans, NEW s \in AllocationStates,
         NEW next \in Jobs, WellFormed(next), SaveAlloc(s, next)
  PROVE  /\ mem' \in Stores /\ disk' \in Stores /\ Went(next)
         /\ mem'.alloc = [mem.alloc EXCEPT ![job.plan] = s]
         /\ mem'.books = mem.books /\ disk'.books = disk.books
         /\ \/ disk'.alloc = mem'.alloc
            \/ disk'.alloc = disk.alloc /\ "failedAppend" \in Faults
<1> DEFINE v == [mem.alloc EXCEPT ![job.plan] = s]
           m == [mem EXCEPT !.alloc = v]
           d == [disk EXCEPT !.alloc = v]
<1>0. mem \in Stores /\ disk \in Stores
  BY DEF TypeOK
<1>1. v \in [Plans -> AllocationStates]
  BY <1>0 DEF Stores
<1>2. Save(m, d, next)
  BY DEF SaveAlloc
<1>3. m \in Stores /\ d \in Stores
  BY <1>0, <1>1, StoresClosed
<1>4. m.alloc = v /\ d.alloc = v /\ m.books = mem.books /\ d.books = disk.books
  BY <1>0 DEF Stores
<1> HIDE DEF m, d
<1>8. disk' = d \/ (disk' = disk /\ "failedAppend" \in Faults /\ job' = Thrown)
  BY <1>2, Saved
<1>5. Went(next) /\ mem' = m /\ (disk' = d \/ (disk' = disk /\ "failedAppend" \in Faults))
  BY <1>2, <1>8, Saved
<1>6. mem' \in Stores /\ disk' \in Stores
  BY <1>0, <1>3, <1>5
<1>7. /\ mem'.alloc = v /\ mem'.books = mem.books /\ disk'.books = disk.books
      /\ \/ disk'.alloc = mem'.alloc
         \/ disk'.alloc = disk.alloc /\ "failedAppend" \in Faults
  BY <1>4, <1>5
<1> QED BY <1>5, <1>6, <1>7

\* A save of one allocation keeps the invariant.
LEMMA AllocInv ==
  ASSUME Inv, job.plan \in Plans, NEW s \in AllocationStates,
         NEW next \in Jobs, WellFormed(next), SaveAlloc(s, next),
         UNCHANGED <<clock, account, ledger>>,
         s \in Owned => job.plan \in ledger.reserved,
         next.at \notin {"post", "posted"},
         next.at \in {"free", "freed"} => next.plan \in ledger.reserved
  PROVE  Inv'
<1>0. /\ mem' \in Stores /\ disk' \in Stores /\ Went(next)
      /\ mem'.alloc = [mem.alloc EXCEPT ![job.plan] = s]
      /\ disk'.alloc = mem'.alloc \/ disk'.alloc = disk.alloc
  BY AllocSaved DEF Inv
<1>1. TypeOK'
  BY <1>0 DEF Inv, Went, TypeOK
<1>2. WellFormed(job)'
  BY <1>0 DEF Went
<1>3. Ready'
  BY <1>0 DEF Went, Ready
<1>4. Backed'
  <2>1. mem.alloc \in [Plans -> AllocationStates]
    BY DEF Inv, TypeOK, Stores
  <2>2. \A p \in Plans : mem'.alloc[p] = IF p = job.plan THEN s ELSE mem.alloc[p]
    BY <1>0, <2>1
  <2>3. \A p \in Plans : mem'.alloc[p] \in Owned => p \in ledger.reserved
    BY <2>2 DEF Inv, Backed
  <2>4. \A p \in Plans : disk'.alloc[p] \in Owned => p \in ledger.reserved
    BY <1>0, <2>3 DEF Inv, Backed
  <2> QED BY <2>3, <2>4 DEF Inv, Backed
<1>5. CapitalIsCovered'
  BY SameCapital DEF Inv
<1> QED BY <1>1, <1>2, <1>3, <1>4, <1>5 DEF Inv

\* What a save of one accounting record changes.
LEMMA BookSaved ==
  ASSUME TypeOK, WellFormed(job), TheResult \in Results, NEW b \in BookRecords,
         NEW next \in Jobs, WellFormed(next), SaveBook(b, next)
  PROVE  /\ mem' \in Stores /\ disk' \in Stores /\ Went(next)
         /\ mem'.alloc = mem.alloc /\ disk'.alloc = disk.alloc
         /\ mem'.books = [mem.books EXCEPT ![TheResult] = b]
         /\ \/ disk'.books = mem'.books
            \/ disk'.books = disk.books /\ "failedAppend" \in Faults
<1> DEFINE v == [mem.books EXCEPT ![TheResult] = b]
           m == [mem EXCEPT !.books = v]
           d == [disk EXCEPT !.books = v]
<1>0. mem \in Stores /\ disk \in Stores
  BY DEF TypeOK
<1>1. v \in [Results -> BookRecords]
  BY <1>0 DEF Stores
<1>2. Save(m, d, next)
  BY DEF SaveBook
<1>3. m \in Stores /\ d \in Stores
  BY <1>0, <1>1, StoresClosed
<1>4. m.books = v /\ d.books = v /\ m.alloc = mem.alloc /\ d.alloc = disk.alloc
  BY <1>0 DEF Stores
<1> HIDE DEF m, d
<1>8. disk' = d \/ (disk' = disk /\ "failedAppend" \in Faults /\ job' = Thrown)
  BY <1>2, Saved
<1>5. Went(next) /\ mem' = m /\ (disk' = d \/ (disk' = disk /\ "failedAppend" \in Faults))
  BY <1>2, <1>8, Saved
<1>6. mem' \in Stores /\ disk' \in Stores
  BY <1>0, <1>3, <1>5
<1>7. /\ mem'.alloc = mem.alloc /\ disk'.alloc = disk.alloc /\ mem'.books = v
      /\ \/ disk'.books = mem'.books
         \/ disk'.books = disk.books /\ "failedAppend" \in Faults
  BY <1>4, <1>5
<1> QED BY <1>5, <1>6, <1>7

\* A save of one accounting record keeps the invariant.
LEMMA BookInv ==
  ASSUME Inv, TheResult \in Results, NEW b \in BookRecords, b.state # "NONE",
         NEW next \in Jobs, WellFormed(next), SaveBook(b, next),
         next.plan = job.plan, next.attempt = job.attempt,
         next.at \notin {"free", "freed"},
         UNCHANGED <<clock, account, ledger>>
  PROVE  Inv'
<1>0. /\ mem' \in Stores /\ disk' \in Stores /\ Went(next)
      /\ mem'.alloc = mem.alloc /\ disk'.alloc = disk.alloc
      /\ mem'.books = [mem.books EXCEPT ![TheResult] = b]
  BY BookSaved DEF Inv
<1>1. TypeOK'
  BY <1>0 DEF Inv, Went, TypeOK
<1>2. WellFormed(job)'
  BY <1>0 DEF Went
<1>3. Ready'
  <2>1. mem.books \in [Results -> BookRecords]
    BY DEF Inv, TypeOK, Stores
  <2>2. mem'.books[TheResult].state # "NONE"
    BY <1>0, <2>1
  <2>3. job'.at \in {"post", "posted"} => TheResult' = TheResult
    BY <1>0 DEF Went, TheResult
  <2> QED BY <1>0, <2>2, <2>3 DEF Went, Ready, TheBook
<1>4. Backed'
  BY <1>0 DEF Inv, Backed
<1>5. CapitalIsCovered'
  BY SameCapital DEF Inv
<1> QED BY <1>1, <1>2, <1>3, <1>4, <1>5 DEF Inv

\* Where a release goes on is well formed.
LEMMA AfterForm ==
  ASSUME TypeOK, WellFormed(job), job.plan \in Plans
  PROVE  AfterRelease \in Jobs /\ WellFormed(AfterRelease) /\ AfterRelease.at \notin Busy
<1>1. CASE job.who = "worker"
  BY <1>1, ToForm, IdleForm DEF AfterRelease, Labels, OfResult, Driven, Busy
<1>2. CASE job.who # "worker"
  BY <1>2, ToForm, IdleForm DEF AfterRelease, Labels, OfResult, Busy
<1> QED BY <1>1, <1>2

\* The steps that are not quiet keep the invariant, one lemma per action.
LEMMA AllocateInv ==
  ASSUME Inv, Allocate
  PROVE  Inv'
<1>t. TypeOK /\ WellFormed(job) /\ UNCHANGED <<clock, account, ledger>>
  BY DEF Inv, Allocate
<1>1. job.at \in OfResult /\ job.plan \in Plans
  BY <1>t, AtResult DEF Allocate, OfResult
<1>2. \A x \in {"reserve", "free", "allocated"} :
        /\ To(x) \in Jobs /\ WellFormed(To(x)) /\ To(x).at = x
        /\ To(x).plan = job.plan
  BY <1>t, <1>1, NextForm, AtResult, ToForm DEF Labels
<1>3. CASE SaveAlloc("PENDING_RESERVE", To("reserve"))
  <2>1. "PENDING_RESERVE" \in AllocationStates /\ "PENDING_RESERVE" \notin Owned
    BY DEF AllocationStates, Owned
  <2> QED BY <1>t, <1>1, <1>2, <1>3, <2>1, AllocInv
<1>4. CASE Goes(To("reserve")) \/ Goes(To("allocated"))
  BY <1>t, <1>2, <1>4, GoesInv
<1>5. CASE mem.alloc[job.plan] = "PENDING_RELEASE" /\ Goes(To("free"))
  <2>1. job.plan \in ledger.reserved
    BY <1>1, <1>5 DEF Inv, Backed, Owned
  <2> QED BY <1>t, <1>2, <1>5, <2>1, GoesInv
<1>6. CASE Goes(Thrown)
  <2>1. Thrown \in Jobs /\ WellFormed(Thrown) /\ Thrown.at \notin Busy
    BY <1>t, ThrownForm DEF Busy
  <2> QED BY <1>t, <1>6, <2>1, GoesInv DEF Busy
<1> QED BY <1>3, <1>4, <1>5, <1>6 DEF Allocate

LEMMA UnbindInv ==
  ASSUME Inv, Unbind
  PROVE  Inv'
<1>t. TypeOK /\ WellFormed(job) /\ UNCHANGED <<clock, account, ledger>>
  BY DEF Inv, Unbind
<1>1. job.plan \in Plans
  BY <1>t DEF Unbind, WellFormed
<1>2. \A x \in {"reserve", "free", "release", "restart"} :
        /\ To(x) \in Jobs /\ WellFormed(To(x)) /\ To(x).at = x
        /\ To(x).plan = job.plan
  BY <1>t, <1>1, ToForm DEF Labels, OfResult
<1>o. mem.alloc[job.plan] \in Owned => job.plan \in ledger.reserved
  BY <1>1 DEF Inv, Backed
<1>3. CASE mem.alloc[job.plan] = "ACTIVE" /\ SaveAlloc("PENDING_RELEASE", To("free"))
  <2>1. "PENDING_RELEASE" \in AllocationStates /\ job.plan \in ledger.reserved
    BY <1>3, <1>o DEF AllocationStates, Owned
  <2> QED BY <1>t, <1>1, <1>2, <1>3, <2>1, AllocInv
<1>4. CASE Goes(To("reserve"))
  BY <1>t, <1>2, <1>4, GoesInv
<1>5. CASE mem.alloc[job.plan] = "PENDING_RELEASE" /\ Goes(To("free"))
  <2>1. job.plan \in ledger.reserved
    BY <1>5, <1>o DEF Owned
  <2> QED BY <1>t, <1>2, <1>5, <2>1, GoesInv
<1>6. CASE Goes(AfterRelease)
  BY <1>t, <1>1, <1>6, AfterForm, GoesInv DEF Busy
<1> QED BY <1>3, <1>4, <1>5, <1>6 DEF Unbind


\* The plans whose capital is held can be counted.
LEMMA HeldFinite ==
  ASSUME TypeOK
  PROVE  IsFiniteSet(Held) /\ Cardinality(Held) \in Nat
<1>1. Held \subseteq Plans
  BY DEF TypeOK, Ledgers, Held
<1> QED BY <1>1, PlansAssumption, FS_Subset, FS_CardinalityType

LEMMA ReserveCapitalInv ==
  ASSUME Inv, ReserveCapital
  PROVE  Inv'
<1>t. TypeOK /\ WellFormed(job) /\ UNCHANGED <<clock, mem, disk>>
  BY DEF Inv, ReserveCapital
<1>0. job.plan \in Plans
  BY <1>t DEF ReserveCapital, WellFormed
<1>n. job' = To("reserved") /\ To("reserved") \in Jobs /\ WellFormed(To("reserved"))
      /\ To("reserved").at = "reserved"
  BY <1>t, <1>0, ToForm DEF ReserveCapital, Labels, OfResult
<1>w. WellFormed(job)'
  BY <1>n
<1>r. Ready'
  BY <1>n DEF Ready
<1>f. faults' \in 0..MaxFaults
  BY <1>t, BoundsAssumption DEF ReserveCapital, AppendFails, TypeOK
<1>1. CASE /\ job.plan \notin ledger.reserved /\ Reservable(account, Amount)
           /\ account' = Reserve(account, Amount)
           /\ ledger' = [ledger EXCEPT !.reserved = @ \cup {job.plan}]
  <2>1. ledger \in Ledgers /\ account \in Accounts
    BY <1>t DEF TypeOK
  <2>2. /\ ledger' \in Ledgers
        /\ ledger'.reserved = ledger.reserved \cup {job.plan}
        /\ ledger'.released = ledger.released
    BY <1>0, <1>1, <2>1 DEF Ledgers
  <2>3. account' \in Accounts
    BY <1>1, <2>1, MoneyAssumption, AccountsClosed
  <2>4. TypeOK'
    BY <1>t, <1>n, <1>f, <2>2, <2>3 DEF TypeOK
  <2>5. Backed'
    BY <1>t, <2>2 DEF Inv, Backed
  <2>6. job.plan \notin Held /\ Held' = Held \cup {job.plan}
    BY <1>1, <2>2 DEF Inv, Backed, Held
  <2>7. Cardinality(Held') = Cardinality(Held) + 1
    BY <1>t, <2>6, HeldFinite, FS_AddElement
  <2> DEFINE n == Cardinality(Held)
             held == Amount * n
  <2>8. n \in Nat /\ held \in Nat /\ Amount * (n + 1) = held + Amount
    BY <1>t, HeldFinite, MoneyAssumption
  <2>9. Covered(account, held, n)
    BY DEF Inv, CapitalIsCovered, Covered
  <2>10. Cardinality(Held') = n + 1
    BY <2>7
  <2> HIDE DEF n, held
  <2>11. Covered(account', held + Amount, n + 1)
    BY <1>1, <2>1, <2>8, <2>9, MoneyAssumption, ReserveCovers
  <2>12. CapitalIsCovered'
    BY <2>8, <2>10, <2>11 DEF Covered, CapitalIsCovered
  <2> QED BY <1>w, <1>r, <2>4, <2>5, <2>12 DEF Inv
<1>2. CASE UNCHANGED <<account, ledger>>
  <2>1. TypeOK'
    BY <1>t, <1>n, <1>f, <1>2 DEF TypeOK
  <2>2. Backed'
    BY <1>t, <1>2 DEF Inv, Backed
  <2>3. CapitalIsCovered'
    BY <1>2, SameCapital DEF Inv
  <2> QED BY <1>w, <1>r, <2>1, <2>2, <2>3 DEF Inv
<1> QED BY <1>1, <1>2 DEF ReserveCapital

LEMMA ReservedInv ==
  ASSUME Inv, Reserved
  PROVE  Inv'
<1>t. TypeOK /\ WellFormed(job) /\ UNCHANGED <<clock, account, ledger>>
  BY DEF Inv, Reserved
<1>0. job.plan \in Plans
  BY <1>t DEF Reserved, WellFormed
<1>1. PICK s \in {"ACTIVE", "REJECTED"}, x \in {"allocated", "restart", "unbind"} :
        /\ SaveAlloc(s, To(x))
        /\ s = "ACTIVE" => job.plan \in ledger.reserved
        /\ x = "allocated" => job.who = "worker"
  BY DEF Reserved
<1>2. To(x) \in Jobs /\ WellFormed(To(x)) /\ To(x).at = x
  BY <1>t, <1>0, <1>1, ToForm DEF Labels, OfResult, Driven
<1>3. s \in AllocationStates /\ (s \in Owned => job.plan \in ledger.reserved)
  BY <1>1 DEF AllocationStates, Owned
<1> QED BY <1>t, <1>0, <1>1, <1>2, <1>3, AllocInv

LEMMA ReleaseCapitalInv ==
  ASSUME Inv, ReleaseCapital
  PROVE  Inv'
<1>t. TypeOK /\ WellFormed(job) /\ UNCHANGED <<clock, mem, disk>>
  BY DEF Inv, ReleaseCapital
<1>0. job.plan \in Plans /\ job.plan \in ledger.reserved
  BY <1>t DEF Inv, Ready, ReleaseCapital, WellFormed
<1>n. To("freed") \in Jobs /\ WellFormed(To("freed"))
      /\ To("freed").at = "freed" /\ To("freed").plan = job.plan
  BY <1>t, <1>0, ToForm DEF Labels, OfResult
<1>h. Thrown \in Jobs /\ WellFormed(Thrown) /\ Thrown.at \in {"idle", "catch", "unbind"}
  BY <1>t, ThrownForm
<1>j. job' = To("freed") \/ job' = Thrown
  BY DEF ReleaseCapital
<1>w. job' \in Jobs /\ WellFormed(job)'
  BY <1>n, <1>h, <1>j
<1>f. faults' \in 0..MaxFaults
  BY <1>t, BoundsAssumption DEF ReleaseCapital, AppendFails, TypeOK
<1>r. ASSUME ledger'.reserved = ledger.reserved PROVE Ready'
  BY <1>0, <1>n, <1>h, <1>j, <1>r DEF Ready
<1>1. CASE /\ job.plan \notin ledger.released
           /\ account' = Release(account, Amount)
           /\ ledger' = [ledger EXCEPT !.released = @ \cup {job.plan}]
  <2>1. ledger \in Ledgers /\ account \in Accounts
    BY <1>t DEF TypeOK
  <2>2. /\ ledger' \in Ledgers
        /\ ledger'.released = ledger.released \cup {job.plan}
        /\ ledger'.reserved = ledger.reserved
    BY <1>0, <1>1, <2>1 DEF Ledgers
  <2>3. account' \in Accounts
    BY <1>1, <2>1, MoneyAssumption, AccountsClosed
  <2>4. TypeOK'
    BY <1>t, <1>w, <1>f, <2>2, <2>3 DEF TypeOK
  <2>5. Backed'
    BY <1>t, <1>0, <2>2 DEF Inv, Backed
  <2>6. job.plan \in Held /\ Held' = Held \ {job.plan}
    BY <1>0, <1>1, <2>2 DEF Held
  <2>f. IsFiniteSet(Held) /\ Cardinality(Held) \in Nat /\ IsFiniteSet(Held')
    BY <1>t, <2>4, HeldFinite, FS_RemoveElement, <2>6
  <2>7. Cardinality(Held') = Cardinality(Held) - 1
    BY <2>6, <2>f, FS_RemoveElement
  <2>p. Cardinality(Held') \in Nat
    BY <2>f, FS_CardinalityType
  <2> DEFINE n == Cardinality(Held')
             held == Amount * n
  <2>8. n \in Nat /\ held \in Nat /\ Amount * (n + 1) = held + Amount
    BY <2>p, MoneyAssumption
  <2>9. Cardinality(Held) = n + 1
    BY <2>7, <2>f, <2>p
  <2>10. Covered(account, Amount * (n + 1), n + 1)
    BY <2>9 DEF Inv, CapitalIsCovered, Covered
  <2> HIDE DEF held
  <2>11. Covered(account, held + Amount, n + 1)
    BY <2>8, <2>10
  <2> HIDE DEF n
  <2>12. Covered(account', held, n)
    BY <1>1, <2>1, <2>8, <2>11, MoneyAssumption, ReleaseCovers
  <2>13. CapitalIsCovered'
    BY <2>12 DEF Covered, CapitalIsCovered, n, held
  <2> QED BY <1>w, <1>r, <2>2, <2>4, <2>5, <2>13 DEF Inv
<1>2. CASE UNCHANGED <<account, ledger>>
  <2>1. TypeOK'
    BY <1>t, <1>w, <1>f, <1>2 DEF TypeOK
  <2>2. Backed'
    BY <1>t, <1>2 DEF Inv, Backed
  <2>3. CapitalIsCovered'
    BY <1>2, SameCapital DEF Inv
  <2> QED BY <1>w, <1>r, <1>2, <2>1, <2>2, <2>3 DEF Inv
<1> QED BY <1>1, <1>2 DEF ReleaseCapital

LEMMA ReleasedInv ==
  ASSUME Inv, Released
  PROVE  Inv'
<1>t. TypeOK /\ WellFormed(job) /\ UNCHANGED <<clock, account, ledger>>
  BY DEF Inv, Released
<1>0. job.plan \in Plans /\ job.plan \in ledger.reserved
  BY <1>t DEF Inv, Ready, Released, WellFormed
<1>1. AfterRelease \in Jobs /\ WellFormed(AfterRelease) /\ AfterRelease.at \notin Busy
  BY <1>t, <1>0, AfterForm
<1>2. "RELEASED" \in AllocationStates /\ SaveAlloc("RELEASED", AfterRelease)
  BY DEF Released, AllocationStates
<1> QED BY <1>t, <1>0, <1>1, <1>2, AllocInv DEF Busy

\* Where a booking goes on is well formed.
LEMMA AfterBookForm ==
  ASSUME TypeOK, WellFormed(job), job.at \in OfResult
  PROVE  /\ AfterBook \in Jobs /\ WellFormed(AfterBook) /\ AfterBook.at \notin Busy
         /\ AfterBook.plan = job.plan /\ AfterBook.attempt = job.attempt
<1>1. AfterBook \in Jobs /\ WellFormed(AfterBook) /\ AfterBook.at \notin Busy
  BY QuietForms DEF AfterBook
<1>2. AfterBook.plan = job.plan /\ AfterBook.attempt = job.attempt
  BY DEF AfterBook, To, TypeOK, Jobs
<1> QED BY <1>1, <1>2

LEMMA BookStepInv ==
  ASSUME Inv, Book
  PROVE  Inv'
<1>t. TypeOK /\ WellFormed(job) /\ UNCHANGED <<clock, account, ledger>>
  BY DEF Inv, Book
<1>0. job.at \in OfResult /\ job.plan \in Plans /\ job.who \in Driven /\ TheResult \in Results
  BY <1>t, AtResult DEF Book, OfResult
<1>n. /\ To("post") \in Jobs /\ WellFormed(To("post")) /\ To("post").at = "post"
      /\ To("post").plan = job.plan /\ To("post").attempt = job.attempt
  BY <1>t, <1>0, ToForm DEF Labels
<1>1. ASSUME NEW path \in Paths, NEW profit \in Profits,
             SaveBook(Pending(path, profit), To("post"))
      PROVE  Inv'
  <2>1. Pending(path, profit) \in BookRecords /\ Pending(path, profit).state # "NONE"
    BY DEF Pending, BookRecords
  <2> QED BY <1>t, <1>0, <1>n, <1>1, <2>1, BookInv
<1>2. CASE Goes(Thrown)
  <2>1. Thrown \in Jobs /\ WellFormed(Thrown) /\ Thrown.at \notin Busy
    BY <1>t, <1>0, QuietForms
  <2> QED BY <1>t, <1>2, <2>1, GoesInv DEF Busy
<1>3. CASE TheBook.state # "NONE" /\ Goes(To("post"))
  BY <1>t, <1>n, <1>3, GoesInv DEF TheBook, TheResult
<1>4. CASE Goes(AfterBook)
  BY <1>t, <1>0, <1>4, AfterBookForm, GoesInv DEF Busy
<1> QED BY <1>1, <1>2, <1>3, <1>4 DEF Book

LEMMA PostInv ==
  ASSUME Inv, Post
  PROVE  Inv'
<1>t. TypeOK /\ WellFormed(job) /\ UNCHANGED <<clock, mem, disk>>
  BY DEF Inv, Post
<1>0. job.at \in OfResult /\ job.plan \in Plans /\ job.who \in Driven /\ TheResult \in Results
  BY <1>t, AtResult DEF Post, OfResult
<1>b. TheBook.profit \in Int /\ TheBook.path \in Paths /\ TheBook.state # "NONE"
  <2>1. TheBook.state # "NONE"
    BY DEF Inv, Ready, Post
  <2>2. TheBook \in BookRecords
    BY <1>t, <1>0 DEF TheBook, TypeOK, Stores
  <2> QED BY <2>1, <2>2, MoneyAssumption DEF BookRecords
<1>n. /\ To("posted") \in Jobs /\ WellFormed(To("posted")) /\ To("posted").at = "posted"
      /\ To("posted").plan = job.plan /\ To("posted").attempt = job.attempt
  BY <1>t, <1>0, ToForm DEF Labels
<1>h. Thrown \in Jobs /\ WellFormed(Thrown) /\ Thrown.at \in {"idle", "catch", "unbind"}
  BY <1>t, ThrownForm
<1>j. job' = To("posted") \/ job' = Thrown
  BY DEF Post
<1>w. job' \in Jobs /\ WellFormed(job)'
  BY <1>n, <1>h, <1>j
<1>r. Ready'
  <2>1. CASE job' = To("posted")
    BY <1>t, <1>b, <1>n, <2>1 DEF Ready, TheBook, TheResult
  <2>2. CASE job' = Thrown
    BY <1>h, <2>2 DEF Ready
  <2> QED BY <1>j, <2>1, <2>2
<1>f. faults' \in 0..MaxFaults
  BY <1>t, BoundsAssumption DEF Post, AppendFails, TypeOK
<1>1. CASE /\ account' = RecordProfit(account, TheBook.profit)
           /\ ledger' = [ledger EXCEPT !.posted = @ \cup {Transaction}]
  <2>1. ledger \in Ledgers /\ account \in Accounts
    BY <1>t DEF TypeOK
  <2>t. Transaction \in Results \X Paths
    BY <1>0, <1>b DEF Transaction
  <2>2. /\ ledger' \in Ledgers
        /\ ledger'.released = ledger.released /\ ledger'.reserved = ledger.reserved
    BY <1>1, <2>1, <2>t DEF Ledgers
  <2>3. account' \in Accounts
    BY <1>1, <1>b, <2>1, MoneyAssumption, AccountsClosed
  <2>4. TypeOK'
    BY <1>t, <1>w, <1>f, <2>2, <2>3 DEF TypeOK
  <2>5. Backed'
    BY <1>t, <2>2 DEF Inv, Backed
  <2> DEFINE n == Cardinality(Held)
             held == Amount * n
  <2>6. n \in Nat /\ held \in Nat
    BY <1>t, HeldFinite, MoneyAssumption
  <2>7. Covered(account, held, n)
    BY DEF Inv, CapitalIsCovered, Covered
  <2>8. Held' = Held
    BY <2>2 DEF Held
  <2>9. Cardinality(Held') = n
    BY <2>8
  <2> HIDE DEF n
  <2>10. Covered(account', held, n)
    BY <1>1, <1>b, <2>1, <2>6, <2>7, ProfitCovers
  <2>11. CapitalIsCovered'
    BY <2>9, <2>10 DEF Covered, CapitalIsCovered
  <2> QED BY <1>w, <1>r, <2>4, <2>5, <2>11 DEF Inv
<1>2. CASE UNCHANGED <<account, ledger>>
  <2>1. TypeOK'
    BY <1>t, <1>w, <1>f, <1>2 DEF TypeOK
  <2>2. Backed'
    BY <1>t, <1>2 DEF Inv, Backed
  <2>3. CapitalIsCovered'
    BY <1>2, SameCapital DEF Inv
  <2> QED BY <1>w, <1>r, <2>1, <2>2, <2>3 DEF Inv
<1> QED BY <1>1, <1>2 DEF Post

LEMMA PostedInv ==
  ASSUME Inv, Posted
  PROVE  Inv'
<1>t. TypeOK /\ WellFormed(job) /\ UNCHANGED <<clock, account, ledger>>
  BY DEF Inv, Posted
<1>0. job.at \in OfResult /\ TheResult \in Results
  BY <1>t, AtResult DEF Posted, OfResult
<1> DEFINE b == [TheBook EXCEPT !.state = "ACCOUNT_POSTED"]
<1>1. b \in BookRecords /\ b.state # "NONE"
  <2>1. TheBook.state # "NONE"
    BY DEF Inv, Ready, Posted
  <2>2. TheBook \in BookRecords
    BY <1>t, <1>0 DEF TheBook, TypeOK, Stores
  <2> QED BY <2>1, <2>2 DEF BookRecords
<1>2. SaveBook(b, AfterBook)
  BY DEF Posted
<1> HIDE DEF b
<1> QED BY <1>t, <1>0, <1>1, <1>2, AfterBookForm, BookInv DEF Busy

LEMMA CrashInv ==
  ASSUME Inv, Crash
  PROVE  Inv'
<1>1. faults' \in 0..MaxFaults
  BY BoundsAssumption DEF Inv, TypeOK, Crash
<1>2. job' \in Jobs /\ WellFormed(job)' /\ job'.at = "restart"
  <2>1. job' = Job("restart", "restart", 0, 0)
    BY DEF Crash
  <2>2. /\ Job("restart", "restart", 0, 0) \in Jobs
        /\ Job("restart", "restart", 0, 0).at = "restart"
        /\ Job("restart", "restart", 0, 0).who = "restart"
    BY BoundsAssumption DEF Job, Jobs, Runners, Labels
  <2> QED BY <2>1, <2>2 DEF WellFormed
<1>3. TypeOK'
  BY <1>1, <1>2 DEF Inv, TypeOK, Crash
<1>4. Ready'
  BY <1>2 DEF Ready
<1>5. Backed'
  BY DEF Inv, Backed, Crash
<1>6. CapitalIsCovered'
  BY SameCapital DEF Inv, Crash
<1> QED BY <1>2, <1>3, <1>4, <1>5, <1>6 DEF Inv

LEMMA ReconcileInv ==
  ASSUME Inv, Reconcile
  PROVE  Inv'
<1>t. TypeOK /\ WellFormed(job) /\ UNCHANGED <<clock, account, ledger>>
  BY DEF Inv, Reconcile
<1>1. ASSUME NEW p \in Plans, NEW x \in {"reserve", "free"}
      PROVE  /\ Job("restart", x, p, 0) \in Jobs /\ WellFormed(Job("restart", x, p, 0))
             /\ Job("restart", x, p, 0).at = x /\ Job("restart", x, p, 0).plan = p
  <2>1. /\ Job("restart", x, p, 0) \in Jobs
        /\ Job("restart", x, p, 0).at = x /\ Job("restart", x, p, 0).plan = p
        /\ Job("restart", x, p, 0).who = "restart"
    BY BoundsAssumption DEF Job, Jobs, Runners, Labels
  <2> QED BY <2>1 DEF WellFormed
<1>2. ASSUME NEW p \in Plans, Goes(Job("restart", "reserve", p, 0))
      PROVE  Inv'
  BY <1>t, <1>1, <1>2, GoesInv
<1>3. ASSUME NEW p \in Plans, mem.alloc[p] = "PENDING_RELEASE", Goes(Job("restart", "free", p, 0))
      PROVE  Inv'
  <2>1. p \in ledger.reserved
    BY <1>3 DEF Inv, Backed, Owned
  <2> QED BY <1>t, <1>1, <1>3, <2>1, GoesInv
<1>4. CASE Goes(Idle)
  BY <1>t, <1>4, IdleForm, GoesInv
<1> QED BY <1>2, <1>3, <1>4 DEF Reconcile

\* The quiet actions.
Calm == \/ \E p \in Plans : Enqueue(p)
        \/ WorkerStarts \/ Tick
        \/ \E r \in Results : Scan(r)
        \/ ReleaseTerminal \/ LeaseNext \/ RejectUnallocated \/ NoEvidence
        \/ SimulationThrows \/ Capture \/ StageRecovery \/ RecordEntry
        \/ MarkPositionAccounted \/ Finish \/ Catch \/ NoConversion
        \/ MarkRecoveryCompleted

\* They are quiet.
LEMMA CalmQuiet ==
  ASSUME TypeOK, WellFormed(job), Calm
  PROVE  Quiet
<1>1. CASE \E p \in Plans : Enqueue(p)
  BY <1>1, EnqueueQuiet
<1>2. CASE WorkerStarts
  BY <1>2, WorkerStartsQuiet
<1>3. CASE Tick
  BY <1>3, TickQuiet
<1>4. CASE \E r \in Results : Scan(r)
  BY <1>4, ScanQuiet
<1>5. CASE ReleaseTerminal
  BY <1>5, ReleaseTerminalQuiet
<1>6. CASE LeaseNext
  BY <1>6, LeaseNextQuiet
<1>7. CASE RejectUnallocated
  BY <1>7, RejectUnallocatedQuiet
<1>8. CASE NoEvidence
  BY <1>8, NoEvidenceQuiet
<1>9. CASE SimulationThrows
  BY <1>9, SimulationThrowsQuiet
<1>10. CASE Capture
  BY <1>10, CaptureQuiet
<1>11. CASE StageRecovery
  BY <1>11, StageRecoveryQuiet
<1>12. CASE RecordEntry
  BY <1>12, RecordEntryQuiet
<1>13. CASE MarkPositionAccounted \/ MarkRecoveryCompleted
  BY <1>13, MarksQuiet
<1>14. CASE Finish
  BY <1>14, FinishQuiet
<1>15. CASE Catch
  BY <1>15, CatchQuiet
<1>16. CASE NoConversion
  BY <1>16, NoConversionQuiet
<1> QED BY <1>1, <1>2, <1>3, <1>4, <1>5, <1>6, <1>7, <1>8, <1>9, <1>10, <1>11,
           <1>12, <1>13, <1>14, <1>15, <1>16 DEF Calm

\* The invariant holds at the start.
LEMMA InvInit ==
  ASSUME Init
  PROVE  Inv
<1>1. Empty \in Stores
  <2>1. NoQueueRecord \in QueueRecords /\ NoJournalRecord \in JournalRecords
        /\ NoBookRecord \in BookRecords /\ "NONE" \in AllocationStates /\ "NONE" \in GroupStates
    BY BoundsAssumption DEF NoQueueRecord, QueueRecords, QueueStates, NoJournalRecord,
       JournalRecords, JournalStates, NoBookRecord, BookRecords, AllocationStates, GroupStates
  <2> QED BY <2>1 DEF Empty, Stores
<1>2. NewAccount(InitialCapital) \in Accounts /\ EmptyLedger \in Ledgers
  BY MoneyAssumption DEF NewAccount, Accounts, EmptyLedger, Ledgers
<1>3. TypeOK
  BY <1>1, <1>2, IdleForm, BoundsAssumption DEF Init, TypeOK
<1>4. WellFormed(job) /\ Ready
  BY IdleForm DEF Init, Ready
<1>5. Backed
  BY DEF Init, Backed, EmptyLedger, Empty, Owned
<1>6. Held = {}
  BY DEF Init, Held, EmptyLedger
<1>7. Cardinality(Held) = 0
  BY <1>6, FS_EmptySet
<1>8. CapitalIsCovered
  BY <1>7, MoneyAssumption DEF Init, NewAccount, CapitalIsCovered
<1> QED BY <1>3, <1>4, <1>5, <1>8 DEF Inv

\* Every step keeps it.
LEMMA InvNext ==
  ASSUME Inv, [Next]_vars
  PROVE  Inv'
<1>1. CASE Calm
  BY <1>1, CalmQuiet, QuietInv DEF Inv
<1>2. CASE Allocate
  BY <1>2, AllocateInv
<1>3. CASE ReserveCapital
  BY <1>3, ReserveCapitalInv
<1>4. CASE Reserved
  BY <1>4, ReservedInv
<1>5. CASE Unbind
  BY <1>5, UnbindInv
<1>6. CASE ReleaseCapital
  BY <1>6, ReleaseCapitalInv
<1>7. CASE Released
  BY <1>7, ReleasedInv
<1>8. CASE Book
  BY <1>8, BookStepInv
<1>9. CASE Post
  BY <1>9, PostInv
<1>10. CASE Posted
  BY <1>10, PostedInv
<1>11. CASE Crash
  BY <1>11, CrashInv
<1>12. CASE Reconcile
  BY <1>12, ReconcileInv
<1>13. CASE UNCHANGED vars
  <2>1. UNCHANGED <<mem, disk, account, ledger, job, faults, clock>>
    BY <1>13 DEF vars
  <2>2. TypeOK' /\ Backed' /\ WellFormed(job)'
    BY <2>1 DEF Inv, TypeOK, Backed
  <2>3. Ready'
    BY <2>1 DEF Inv, Ready, TheBook, TheResult
  <2>4. CapitalIsCovered'
    BY <2>1, SameCapital DEF Inv
  <2> QED BY <2>2, <2>3, <2>4 DEF Inv
<1> QED BY <1>1, <1>2, <1>3, <1>4, <1>5, <1>6, <1>7, <1>8, <1>9, <1>10, <1>11, <1>12, <1>13
        DEF Next, Continue, WorkerContinues, CapitalContinues, BookingContinues, Calm

\* The invariant holds throughout, for any plans, amounts, profits, bounds and
\* faults.
THEOREM Invariant == Spec => []Inv
<1>1. Init => Inv
  BY InvInit
<1>2. Inv /\ [Next]_vars => Inv'
  BY InvNext
<1> QED BY <1>1, <1>2, PTL DEF Spec

\* Every reachable state of the PAPER path is well typed.
THEOREM TypeCorrect == Spec => []TypeOK
<1>1. Inv => TypeOK
  BY DEF Inv
<1> QED BY <1>1, Invariant, PTL

\* The account's free capital never exceeds its capital, its capital is covered by
\* what is free and what the allocations hold, and it counts one open trade for each
\* -- for any number of plans, any profits and losses, crashes and failed appends.
THEOREM CapitalCovered == Spec => []CapitalIsCovered
<1>1. Inv => CapitalIsCovered
  BY DEF Inv
<1> QED BY <1>1, Invariant, PTL

-----------------------------------------------------------------------------
(* The invariant with durable appends *)

\* No append throws: what a service keeps in memory is on disk.
DurableAppends == "failedAppend" \notin Faults

\* The strengthening of HeldIsOwned: memory and disk agree, an allocation is held
\* by the account from its reservation to its release, and the run between the two
\* journal writes of one knows which.
Owning ==
  /\ mem.alloc = disk.alloc
  /\ \A p \in Plans :
       /\ p \in Held => mem.alloc[p] \in {"PENDING_RESERVE", "ACTIVE", "PENDING_RELEASE"}
       /\ mem.alloc[p] = "ACTIVE" => p \in Held
       /\ p \in ledger.released => mem.alloc[p] \in {"PENDING_RELEASE", "RELEASED"}
  /\ job.at \in {"reserve", "reserved"} => mem.alloc[job.plan] = "PENDING_RESERVE"
  /\ job.at \in {"free", "freed"} => mem.alloc[job.plan] = "PENDING_RELEASE"
  /\ job.at = "freed" => job.plan \in ledger.released

\* The strengthening of PostedIsBooked.
Booking == mem.books = disk.books /\ PostedIsBooked

\* The inductive invariant with durable appends.
Durable == Inv /\ Owning /\ Booking

\* Quiet steps keep both parts.
LEMMA QuietOwning ==
  ASSUME Owning, Quiet
  PROVE  Owning'
  BY DEF Owning, Quiet, Busy, Held

LEMMA QuietBooking ==
  ASSUME Booking, Quiet
  PROVE  Booking'
  BY DEF Booking, PostedIsBooked, Quiet

\* So do steps that write nothing.
LEMMA GoesOwning ==
  ASSUME Owning, NEW next, Goes(next), UNCHANGED ledger,
         next.at \in {"reserve", "reserved"} => mem.alloc[next.plan] = "PENDING_RESERVE",
         next.at \in {"free", "freed"} => mem.alloc[next.plan] = "PENDING_RELEASE",
         next.at # "freed"
  PROVE  Owning'
  BY DEF Owning, Goes, Held

\* A save of one allocation keeps both, when the new state fits the ledger.
LEMMA AllocOwning ==
  ASSUME DurableAppends, Inv, Owning, job.plan \in Plans, NEW s \in AllocationStates,
         NEW next \in Jobs, WellFormed(next), SaveAlloc(s, next), UNCHANGED ledger,
         job.plan \in Held => s \in {"PENDING_RESERVE", "ACTIVE", "PENDING_RELEASE"},
         s = "ACTIVE" => job.plan \in Held,
         job.plan \in ledger.released => s \in {"PENDING_RELEASE", "RELEASED"},
         next.at \in {"reserve", "reserved"} => next.plan = job.plan /\ s = "PENDING_RESERVE",
         next.at \in {"free", "freed"} => next.plan = job.plan /\ s = "PENDING_RELEASE",
         next.at # "freed"
  PROVE  Owning'
<1>0. /\ mem'.alloc = [mem.alloc EXCEPT ![job.plan] = s] /\ disk'.alloc = mem'.alloc
      /\ Went(next)
  BY AllocSaved DEF Inv, DurableAppends
<1>1. job' = next
  BY <1>0 DEF Went, DurableAppends
<1>2. mem.alloc \in [Plans -> AllocationStates]
  BY DEF Inv, TypeOK, Stores
<1>3. \A p \in Plans : mem'.alloc[p] = IF p = job.plan THEN s ELSE mem.alloc[p]
  BY <1>0, <1>2
<1>4. Held' = Held /\ ledger' = ledger
  BY DEF Held
<1>5. \A p \in Plans :
        /\ p \in Held => mem'.alloc[p] \in {"PENDING_RESERVE", "ACTIVE", "PENDING_RELEASE"}
        /\ mem'.alloc[p] = "ACTIVE" => p \in Held
        /\ p \in ledger.released => mem'.alloc[p] \in {"PENDING_RELEASE", "RELEASED"}
  BY <1>3 DEF Owning
<1>6. /\ job'.at \in {"reserve", "reserved"} => mem'.alloc[job'.plan] = "PENDING_RESERVE"
      /\ job'.at \in {"free", "freed"} => mem'.alloc[job'.plan] = "PENDING_RELEASE"
      /\ job'.at # "freed"
  BY <1>1, <1>3
<1> QED BY <1>0, <1>4, <1>5, <1>6 DEF Owning

LEMMA AllocBooking ==
  ASSUME Inv, Booking, job.plan \in Plans, NEW s \in AllocationStates,
         NEW next \in Jobs, WellFormed(next), SaveAlloc(s, next), UNCHANGED ledger
  PROVE  Booking'
<1>1. mem'.books = mem.books /\ disk'.books = disk.books
  BY AllocSaved DEF Inv
<1> QED BY <1>1 DEF Booking, PostedIsBooked

LEMMA GoesBooking ==
  ASSUME Booking, NEW next, Goes(next), UNCHANGED ledger
  PROVE  Booking'
  BY DEF Booking, PostedIsBooked, Goes

\* One lemma per action that is not quiet.
LEMMA AllocateDurable ==
  ASSUME DurableAppends, Durable, Allocate
  PROVE  Owning' /\ Booking'
<1>t. TypeOK /\ WellFormed(job) /\ UNCHANGED ledger /\ Inv /\ Owning /\ Booking
  BY DEF Durable, Inv, Allocate
<1>1. job.at \in OfResult /\ job.plan \in Plans
  BY <1>t, AtResult DEF Allocate, OfResult
<1>2. \A x \in {"reserve", "free", "allocated"} :
        /\ To(x) \in Jobs /\ WellFormed(To(x)) /\ To(x).at = x
        /\ To(x).plan = job.plan
  BY <1>t, <1>1, NextForm, AtResult, ToForm DEF Labels
<1>3. CASE mem.alloc[job.plan] = "NONE" /\ SaveAlloc("PENDING_RESERVE", To("reserve"))
  <2>1. "PENDING_RESERVE" \in AllocationStates /\ job.plan \notin ledger.released
    BY <1>t, <1>1, <1>3 DEF AllocationStates, Owning
  <2> QED BY <1>t, <1>1, <1>2, <1>3, <2>1, AllocOwning, AllocBooking
<1>4. CASE mem.alloc[job.plan] = "PENDING_RESERVE" /\ Goes(To("reserve"))
  BY <1>t, <1>2, <1>4, GoesOwning, GoesBooking
<1>5. CASE mem.alloc[job.plan] = "PENDING_RELEASE" /\ Goes(To("free"))
  BY <1>t, <1>2, <1>5, GoesOwning, GoesBooking
<1>6. CASE Goes(To("allocated"))
  BY <1>t, <1>2, <1>6, GoesOwning, GoesBooking
<1>7. CASE Goes(Thrown)
  <2>1. Thrown.at \notin Busy
    BY <1>t, ThrownForm DEF Busy
  <2> QED BY <1>t, <1>7, <2>1, GoesOwning, GoesBooking DEF Busy
<1> QED BY <1>3, <1>4, <1>5, <1>6, <1>7 DEF Allocate

LEMMA UnbindDurable ==
  ASSUME DurableAppends, Durable, Unbind
  PROVE  Owning' /\ Booking'
<1>t. TypeOK /\ WellFormed(job) /\ UNCHANGED ledger /\ Inv /\ Owning /\ Booking
  BY DEF Durable, Inv, Unbind
<1>1. job.plan \in Plans
  BY <1>t DEF Unbind, WellFormed
<1>2. \A x \in {"reserve", "free"} :
        /\ To(x) \in Jobs /\ WellFormed(To(x)) /\ To(x).at = x
        /\ To(x).plan = job.plan
  BY <1>t, <1>1, ToForm DEF Labels, OfResult
<1>3. CASE mem.alloc[job.plan] = "ACTIVE" /\ SaveAlloc("PENDING_RELEASE", To("free"))
  <2>1. "PENDING_RELEASE" \in AllocationStates
    BY DEF AllocationStates
  <2> QED BY <1>t, <1>1, <1>2, <1>3, <2>1, AllocOwning, AllocBooking
<1>4. CASE mem.alloc[job.plan] = "PENDING_RESERVE" /\ Goes(To("reserve"))
  BY <1>t, <1>2, <1>4, GoesOwning, GoesBooking
<1>5. CASE mem.alloc[job.plan] = "PENDING_RELEASE" /\ Goes(To("free"))
  BY <1>t, <1>2, <1>5, GoesOwning, GoesBooking
<1>6. CASE Goes(AfterRelease)
  BY <1>t, <1>1, <1>6, AfterForm, GoesOwning, GoesBooking DEF Busy
<1> QED BY <1>3, <1>4, <1>5, <1>6 DEF Unbind

LEMMA ReserveCapitalDurable ==
  ASSUME DurableAppends, Durable, ReserveCapital
  PROVE  Owning' /\ Booking'
<1>t. /\ TypeOK /\ WellFormed(job) /\ Inv /\ Owning /\ Booking
      /\ UNCHANGED <<mem, disk>> /\ job.at = "reserve"
  BY DEF Durable, Inv, ReserveCapital
<1>0. job.plan \in Plans /\ mem.alloc[job.plan] = "PENDING_RESERVE"
  BY <1>t DEF WellFormed, Owning
<1>n. job'.at = "reserved" /\ job'.plan = job.plan
  BY <1>t, <1>0, ToForm DEF ReserveCapital, Labels, OfResult
<1>1. /\ ledger'.released = ledger.released /\ ledger'.posted = ledger.posted
      /\ ledger'.reserved = ledger.reserved \/ ledger'.reserved = ledger.reserved \cup {job.plan}
  BY <1>t DEF ReserveCapital, TypeOK, Ledgers
<1>2. Held \subseteq Held' /\ Held' \subseteq Held \cup {job.plan}
  BY <1>1 DEF Held
<1>3. Owning'
  BY <1>t, <1>0, <1>n, <1>1, <1>2 DEF Owning
<1>4. Booking'
  BY <1>t, <1>1 DEF Booking, PostedIsBooked
<1> QED BY <1>3, <1>4

LEMMA ReservedDurable ==
  ASSUME DurableAppends, Durable, Reserved
  PROVE  Owning' /\ Booking'
<1>t. TypeOK /\ WellFormed(job) /\ UNCHANGED ledger /\ Inv /\ Owning /\ Booking
  BY DEF Durable, Inv, Reserved
<1>0. job.plan \in Plans /\ mem.alloc[job.plan] = "PENDING_RESERVE"
  BY <1>t DEF Reserved, WellFormed, Owning
<1>1. PICK s \in {"ACTIVE", "REJECTED"}, x \in {"allocated", "restart", "unbind"} :
        /\ SaveAlloc(s, To(x))
        /\ s = "ACTIVE" <=> job.plan \in ledger.reserved
        /\ x = "allocated" => job.who = "worker"
  BY DEF Reserved
<1>2. To(x) \in Jobs /\ WellFormed(To(x)) /\ To(x).at = x
  BY <1>t, <1>0, <1>1, ToForm DEF Labels, OfResult, Driven
<1>3. s \in AllocationStates
  BY <1>1 DEF AllocationStates
<1>4. job.plan \notin ledger.released
  BY <1>t, <1>0 DEF Owning
<1>5. /\ job.plan \in Held => s = "ACTIVE"
      /\ s = "ACTIVE" => job.plan \in Held
  BY <1>1, <1>4 DEF Held
<1> QED BY <1>t, <1>0, <1>1, <1>2, <1>3, <1>4, <1>5, AllocOwning, AllocBooking

LEMMA ReleaseCapitalDurable ==
  ASSUME DurableAppends, Durable, ReleaseCapital
  PROVE  Owning' /\ Booking'
<1>t. /\ TypeOK /\ WellFormed(job) /\ Inv /\ Owning /\ Booking
      /\ UNCHANGED <<mem, disk>> /\ job.at = "free"
  BY DEF Durable, Inv, ReleaseCapital
<1>0. job.plan \in Plans /\ mem.alloc[job.plan] = "PENDING_RELEASE"
  BY <1>t DEF WellFormed, Owning
<1>n. job'.at = "freed" /\ job'.plan = job.plan
  BY <1>t, <1>0, ToForm DEF ReleaseCapital, AppendFails, DurableAppends, Labels, OfResult
<1>1. /\ ledger'.released = ledger.released \cup {job.plan}
      /\ ledger'.posted = ledger.posted /\ ledger'.reserved = ledger.reserved
  BY <1>t DEF ReleaseCapital, AppendFails, DurableAppends, TypeOK, Ledgers
<1>2. Held' = Held \ {job.plan}
  BY <1>1 DEF Held
<1>3. Owning'
  BY <1>t, <1>0, <1>n, <1>1, <1>2 DEF Owning
<1>4. Booking'
  BY <1>t, <1>1 DEF Booking, PostedIsBooked
<1> QED BY <1>3, <1>4

LEMMA ReleasedDurable ==
  ASSUME DurableAppends, Durable, Released
  PROVE  Owning' /\ Booking'
<1>t. TypeOK /\ WellFormed(job) /\ UNCHANGED ledger /\ Inv /\ Owning /\ Booking
  BY DEF Durable, Inv, Released
<1>0. job.plan \in Plans /\ job.plan \in ledger.released /\ job.plan \notin Held
  BY <1>t DEF Released, WellFormed, Owning, Held
<1>1. AfterRelease \in Jobs /\ WellFormed(AfterRelease) /\ AfterRelease.at \notin Busy
  BY <1>t, <1>0, AfterForm
<1>2. "RELEASED" \in AllocationStates /\ SaveAlloc("RELEASED", AfterRelease)
  BY DEF Released, AllocationStates
<1> QED BY <1>t, <1>0, <1>1, <1>2, AllocOwning, AllocBooking DEF Busy

\* A save of one accounting record keeps both, when it keeps its conversion.
LEMMA SaveBookDurable ==
  ASSUME DurableAppends, Durable, TheResult \in Results, NEW b \in BookRecords,
         NEW next \in Jobs, WellFormed(next), SaveBook(b, next), UNCHANGED ledger,
         b.state # "NONE",
         TheBook.state = "NONE" \/ b.path = TheBook.path,
         next.at \notin {"reserve", "reserved", "free", "freed"}
  PROVE  Owning' /\ Booking'
<1>t. TypeOK /\ WellFormed(job) /\ Inv /\ Owning /\ Booking
  BY DEF Durable, Inv
<1>0. /\ mem'.alloc = mem.alloc /\ disk'.alloc = disk.alloc /\ Went(next)
      /\ mem'.books = [mem.books EXCEPT ![TheResult] = b] /\ disk'.books = mem'.books
  BY <1>t, BookSaved DEF DurableAppends
<1>1. job' = next
  BY <1>0 DEF Went, DurableAppends
<1>2. Owning'
  BY <1>t, <1>0, <1>1 DEF Owning, Held
<1>3. mem.books \in [Results -> BookRecords] /\ ledger.posted \subseteq Results \X Paths
  BY <1>t DEF TypeOK, Stores, Ledgers
<1>4. \A r \in Results : disk'.books[r] = IF r = TheResult THEN b ELSE disk.books[r]
  BY <1>t, <1>0, <1>3 DEF Booking
<1>5. ASSUME NEW t \in ledger.posted
      PROVE  disk'.books[t[1]].state # "NONE" /\ disk'.books[t[1]].path = t[2]
  <2>1. t[1] \in Results
    BY <1>3, <1>5
  <2>2. disk.books[t[1]].state # "NONE" /\ disk.books[t[1]].path = t[2]
    BY <1>t, <1>5 DEF Booking, PostedIsBooked
  <2>3. t[1] = TheResult => b.path = t[2]
    BY <1>t, <2>2 DEF TheBook, Booking
  <2> QED BY <1>4, <2>1, <2>2, <2>3
<1> QED BY <1>0, <1>2, <1>5 DEF Booking, PostedIsBooked

LEMMA BookDurable ==
  ASSUME DurableAppends, Durable, Book
  PROVE  Owning' /\ Booking'
<1>t. TypeOK /\ WellFormed(job) /\ UNCHANGED ledger /\ Inv /\ Owning /\ Booking
  BY DEF Durable, Inv, Book
<1>0. job.at \in OfResult /\ TheResult \in Results
  BY <1>t, AtResult DEF Book, OfResult
<1>n. To("post") \in Jobs /\ WellFormed(To("post")) /\ To("post").at = "post"
  BY <1>t, <1>0, NextForm DEF Labels
<1>1. ASSUME NEW path \in Paths, NEW profit \in Profits, TheBook.state = "NONE",
             SaveBook(Pending(path, profit), To("post"))
      PROVE  Owning' /\ Booking'
  <2>1. Pending(path, profit) \in BookRecords /\ Pending(path, profit).state # "NONE"
    BY DEF Pending, BookRecords
  <2> QED BY <1>t, <1>0, <1>n, <1>1, <2>1, SaveBookDurable
<1>2. CASE Goes(Thrown)
  <2>1. Thrown.at \notin Busy
    BY <1>t, <1>0, QuietForms
  <2> QED BY <1>t, <1>2, <2>1, GoesOwning, GoesBooking DEF Busy
<1>3. CASE Goes(To("post"))
  BY <1>t, <1>n, <1>3, GoesOwning, GoesBooking
<1>4. CASE Goes(AfterBook)
  BY <1>t, <1>0, <1>4, AfterBookForm, GoesOwning, GoesBooking DEF Busy
<1> QED BY <1>1, <1>2, <1>3, <1>4 DEF Book

LEMMA PostDurable ==
  ASSUME DurableAppends, Durable, Post
  PROVE  Owning' /\ Booking'
<1>t. /\ TypeOK /\ WellFormed(job) /\ Inv /\ Owning /\ Booking
      /\ UNCHANGED <<mem, disk>> /\ job.at = "post"
  BY DEF Durable, Inv, Post
<1>0. TheResult \in Results /\ TheBook.state # "NONE" /\ job.plan \in Plans
  BY <1>t, AtResult DEF Inv, Ready, OfResult
<1>n. job'.at = "posted"
  BY <1>t, <1>0, NextForm DEF Post, AppendFails, DurableAppends, OfResult, Labels
<1>1. /\ ledger'.released = ledger.released /\ ledger'.reserved = ledger.reserved
      /\ ledger'.posted = ledger.posted \cup {Transaction}
  BY <1>t DEF Post, AppendFails, DurableAppends, TypeOK, Ledgers
<1>2. Held' = Held
  BY <1>1 DEF Held
<1>3. Owning'
  BY <1>t, <1>n, <1>1, <1>2 DEF Owning
<1>4. Booking'
  BY <1>t, <1>0, <1>1 DEF Booking, PostedIsBooked, Transaction, TheBook
<1> QED BY <1>3, <1>4

LEMMA PostedDurable ==
  ASSUME DurableAppends, Durable, Posted
  PROVE  Owning' /\ Booking'
<1>t. TypeOK /\ WellFormed(job) /\ UNCHANGED ledger
  BY DEF Durable, Inv, Posted
<1>0. job.at \in OfResult /\ TheResult \in Results
  BY <1>t, AtResult DEF Posted, OfResult
<1> DEFINE b == [TheBook EXCEPT !.state = "ACCOUNT_POSTED"]
<1>1. b \in BookRecords /\ b.state # "NONE" /\ b.path = TheBook.path
  <2>1. TheBook.state # "NONE"
    BY DEF Durable, Inv, Ready, Posted
  <2>2. TheBook \in BookRecords
    BY <1>t, <1>0 DEF TheBook, TypeOK, Stores
  <2> QED BY <2>1, <2>2 DEF BookRecords
<1>2. SaveBook(b, AfterBook)
  BY DEF Posted
<1> HIDE DEF b
<1> QED BY <1>t, <1>0, <1>1, <1>2, AfterBookForm, SaveBookDurable DEF Busy

LEMMA CrashDurable ==
  ASSUME Durable, Crash
  PROVE  Owning' /\ Booking'
<1>1. job'.at = "restart" /\ mem' = disk /\ UNCHANGED <<disk, ledger>>
  BY DEF Crash, Job
<1>2. Owning'
  BY <1>1 DEF Durable, Owning, Held
<1>3. Booking'
  BY <1>1 DEF Durable, Booking, PostedIsBooked
<1> QED BY <1>2, <1>3

LEMMA ReconcileDurable ==
  ASSUME Durable, Reconcile
  PROVE  Owning' /\ Booking'
<1>t. Owning /\ Booking /\ UNCHANGED ledger
  BY DEF Durable, Reconcile
<1>1. \A p \in Plans, x \in {"reserve", "free"} :
        Job("restart", x, p, 0).at = x /\ Job("restart", x, p, 0).plan = p
  BY DEF Job
<1>2. ASSUME NEW p \in Plans, mem.alloc[p] = "PENDING_RESERVE", Goes(Job("restart", "reserve", p, 0))
      PROVE  Owning' /\ Booking'
  BY <1>t, <1>1, <1>2, GoesOwning, GoesBooking
<1>3. ASSUME NEW p \in Plans, mem.alloc[p] = "PENDING_RELEASE", Goes(Job("restart", "free", p, 0))
      PROVE  Owning' /\ Booking'
  BY <1>t, <1>1, <1>3, GoesOwning, GoesBooking
<1>4. CASE Goes(Idle)
  BY <1>t, <1>4, IdleForm, GoesOwning, GoesBooking
<1> QED BY <1>2, <1>3, <1>4 DEF Reconcile

\* Every step keeps the invariant.
LEMMA DurableNext ==
  ASSUME DurableAppends, Durable, [Next]_vars
  PROVE  Durable'
<1>i. Inv'
  BY InvNext DEF Durable
<1>1. CASE Calm
  BY <1>i, <1>1, CalmQuiet, QuietOwning, QuietBooking DEF Durable, Inv
<1>2. CASE Allocate
  BY <1>i, <1>2, AllocateDurable DEF Durable
<1>3. CASE ReserveCapital
  BY <1>i, <1>3, ReserveCapitalDurable DEF Durable
<1>4. CASE Reserved
  BY <1>i, <1>4, ReservedDurable DEF Durable
<1>5. CASE Unbind
  BY <1>i, <1>5, UnbindDurable DEF Durable
<1>6. CASE ReleaseCapital
  BY <1>i, <1>6, ReleaseCapitalDurable DEF Durable
<1>7. CASE Released
  BY <1>i, <1>7, ReleasedDurable DEF Durable
<1>8. CASE Book
  BY <1>i, <1>8, BookDurable DEF Durable
<1>9. CASE Post
  BY <1>i, <1>9, PostDurable DEF Durable
<1>10. CASE Posted
  BY <1>i, <1>10, PostedDurable DEF Durable
<1>11. CASE Crash
  BY <1>i, <1>11, CrashDurable DEF Durable
<1>12. CASE Reconcile
  BY <1>i, <1>12, ReconcileDurable DEF Durable
<1>13. CASE UNCHANGED vars
  <2>1. UNCHANGED <<mem, disk, ledger, job>>
    BY <1>13 DEF vars
  <2>2. Owning'
    BY <2>1 DEF Durable, Owning, Held
  <2>3. Booking'
    BY <2>1 DEF Durable, Booking, PostedIsBooked
  <2> QED BY <1>i, <2>2, <2>3 DEF Durable
<1> QED BY <1>1, <1>2, <1>3, <1>4, <1>5, <1>6, <1>7, <1>8, <1>9, <1>10, <1>11, <1>12, <1>13
        DEF Next, Continue, WorkerContinues, CapitalContinues, BookingContinues, Calm

\* It holds at the start.
LEMMA DurableInit ==
  ASSUME Init
  PROVE  Durable
<1>1. Owning
  BY IdleForm DEF Init, Owning, Held, Empty, EmptyLedger
<1>2. Booking
  BY DEF Init, Booking, PostedIsBooked, EmptyLedger
<1> QED BY <1>1, <1>2, InvInit DEF Durable

\* Without failed appends the stronger invariant holds throughout.
THEOREM DurableInvariant ==
  DurableAppends => (Spec => []Durable)
<1> SUFFICES ASSUME DurableAppends PROVE Spec => []Durable
  OBVIOUS
<1>1. Init => Durable
  BY DurableInit
<1>2. Durable /\ [Next]_vars => Durable'
  BY DurableNext
<1> QED BY <1>1, <1>2, PTL DEF Spec

\* journalBeforeAccountMutation: whatever step a crash comes after, capital the
\* account holds has an allocation on disk that the restart finds, as long as no
\* append fails.
THEOREM CapitalStaysOwned ==
  DurableAppends => (Spec => []HeldIsOwned)
<1> SUFFICES ASSUME DurableAppends PROVE Spec => []HeldIsOwned
  OBVIOUS
<1>1. Durable => HeldIsOwned
  <2> SUFFICES ASSUME Durable, NEW p \in Held
               PROVE  disk.alloc[p] \in {"PENDING_RESERVE", "ACTIVE", "PENDING_RELEASE"}
    BY DEF HeldIsOwned
  <2>1. p \in Plans
    BY DEF Durable, Inv, TypeOK, Ledgers, Held
  <2> QED BY <2>1 DEF Durable, Owning
<1> QED BY <1>1, DurableInvariant, PTL

\* duplicatePnlProtection: under the same assumption every profit in the account has
\* its accounting record on disk, under the conversion it was posted with.
THEOREM ProfitsStayBooked ==
  DurableAppends => (Spec => []PostedIsBooked)
<1> SUFFICES ASSUME DurableAppends PROVE Spec => []PostedIsBooked
  OBVIOUS
<1>1. Durable => PostedIsBooked
  BY DEF Durable, Booking
<1> QED BY <1>1, DurableInvariant, PTL

-----------------------------------------------------------------------------
(* What a completed plan leaves *)

\* The result of a run; the plans whose profit is in the account, whose result is
\* accounted, whose record is COMPLETED; and those whose capital may go back.
Result(j) == <<j.plan, j.attempt>>
Settled(m, p) ==
  \E r \in ResultsOf(p) : m.groups[r] # "NONE" /\ m.books[r].state = "ACCOUNT_POSTED"
Accounted(m, p) == \E r \in ResultsOf(p) : m.journal[r].state = "POSITION_ACCOUNTED"
Completed(m, p) == m.queue[p].state = "COMPLETED"
MayRelease(m, p) == Completed(m, p) => Settled(m, p)

\* The stores fit together: an accounted result has its position group, and a
\* completed plan an accounted result and its capital, until a profit is posted.
StoreFits(m) ==
  /\ \A r \in Results : m.journal[r].state = "POSITION_ACCOUNTED" => m.groups[r] # "NONE"
  /\ \A p \in Plans :
       Completed(m, p) => Accounted(m, p) /\ (m.alloc[p] = "ACTIVE" \/ Settled(m, p))

\* What the run under way relies on, step by step.
BookSteps == {"book", "post", "posted"}
RunFits(m, j) ==
  /\ j.at \in {"allocate", "allocated", "captured", "mark", "acknowledge"} => j.who = "worker"
  /\ j.at = "captured" =>
       m.journal[Result(j)].state \in {"PENDING_SHARED_RECOVERY", "READY_FOR_POSITION_ACCOUNTING"}
  /\ j.at \in {"mark", "recovered"} \cup BookSteps => m.groups[Result(j)] # "NONE"
  /\ j.at = "mark" \/ (j.who = "worker" /\ j.at \in BookSteps)
       => m.journal[Result(j)].state # "NONE"
  /\ j.at = "recovered" =>
       j.who = "recovery" /\ m.journal[Result(j)].state = "SHARED_RECOVERY_STAGED"
  /\ j.who = "worker" /\ j.at \in {"captured", "mark", "acknowledge", "unbind"} \cup BookSteps
       => m.alloc[j.plan] = "ACTIVE"
  /\ j.at = "catch" => ~Completed(m, j.plan)
  /\ j.who = "worker" /\ j.at \in {"allocate", "reserve", "reserved", "allocated", "captured",
                                   "mark", "acknowledge"} \cup BookSteps
       => ~Completed(m, j.plan)
  /\ j.at = "unbind" => MayRelease(m, j.plan)
  /\ j.at \in {"reserve", "reserved"} /\ j.who \notin {"worker", "restart"}
       => MayRelease(m, j.plan)

\* Memory and disk agree on journal, groups and completed plans.  The queue in
\* memory may be ahead: an intake that finds it full has swept it and throws.
Agreeing ==
  /\ mem.journal = disk.journal /\ mem.groups = disk.groups
  /\ \A p \in Plans : Completed(mem, p) <=> Completed(disk, p)

Funding == Agreeing /\ StoreFits(mem) /\ RunFits(mem, job)

\* What ResultsAreFunded says of a step.
FundedCapture ==
  \A r \in Results :
    disk.journal[r].state = "NONE" /\ disk'.journal[r].state # "NONE"
      => r[1] \in Held /\ mem.alloc[r[1]] = "ACTIVE"

\* A save without a failed append.
LEMMA SavedDurably ==
  ASSUME DurableAppends, NEW m, NEW d, NEW next, Save(m, d, next)
  PROVE  mem' = m /\ disk' = d /\ job' = next
  BY DEF Save, AppendFails, DurableAppends

\* A store in which one map is replaced.
LEMMA Replaced ==
  ASSUME NEW m \in Stores, NEW v
  PROVE  /\ LET n == [m EXCEPT !.queue = v]
            IN  n.queue = v /\ n.alloc = m.alloc /\ n.journal = m.journal
                /\ n.groups = m.groups /\ n.books = m.books
         /\ LET n == [m EXCEPT !.alloc = v]
            IN  n.queue = m.queue /\ n.alloc = v /\ n.journal = m.journal
                /\ n.groups = m.groups /\ n.books = m.books
         /\ LET n == [m EXCEPT !.journal = v]
            IN  n.queue = m.queue /\ n.alloc = m.alloc /\ n.journal = v
                /\ n.groups = m.groups /\ n.books = m.books
         /\ LET n == [m EXCEPT !.groups = v]
            IN  n.queue = m.queue /\ n.alloc = m.alloc /\ n.journal = m.journal
                /\ n.groups = v /\ n.books = m.books
         /\ LET n == [m EXCEPT !.books = v]
            IN  n.queue = m.queue /\ n.alloc = m.alloc /\ n.journal = m.journal
                /\ n.groups = m.groups /\ n.books = v
  BY DEF Stores

\* Steps that write nothing keep the parts that are about the stores.
LEMMA GoesFunding ==
  ASSUME Funding, NEW next, Goes(next), RunFits(mem, next)
  PROVE  Funding' /\ FundedCapture
<1>1. mem' = mem /\ disk' = disk /\ job' = next
  BY DEF Goes
<1>2. Agreeing'
  BY <1>1 DEF Funding, Agreeing, Completed
<1>3. StoreFits(mem)' /\ RunFits(mem, job)'
  BY <1>1 DEF Funding
<1> QED BY <1>1, <1>2, <1>3 DEF Funding, FundedCapture

\* A save of the queue keeps them, when what it completes is accounted and funded.
LEMMA QueueFunding ==
  ASSUME DurableAppends, TypeOK, Funding, NEW v, NEW next, SaveQueue(v, next),
         \A p \in Plans : v[p].state = "COMPLETED" =>
           Completed(mem, p) \/ (Accounted(mem, p) /\ mem.alloc[p] = "ACTIVE"),
         \A m : /\ m.queue = v /\ m.alloc = mem.alloc /\ m.journal = mem.journal
                /\ m.groups = mem.groups /\ m.books = mem.books
                => RunFits(m, next)
  PROVE  Funding' /\ FundedCapture
<1> DEFINE m == [mem EXCEPT !.queue = v]
           d == [disk EXCEPT !.queue = v]
<1>1. mem' = m /\ disk' = d /\ job' = next
  BY SavedDurably DEF SaveQueue
<1>2. /\ m.queue = v /\ m.alloc = mem.alloc /\ m.journal = mem.journal
      /\ m.groups = mem.groups /\ m.books = mem.books
      /\ d.queue = v /\ d.journal = disk.journal /\ d.groups = disk.groups
  BY Replaced DEF TypeOK
<1> HIDE DEF m, d
<1>r. RunFits(m, next)
  BY <1>2
<1>3. Agreeing'
  BY <1>1, <1>2 DEF Funding, Agreeing, Completed
<1>4. StoreFits(m)
  <2>1. \A p \in Plans : /\ Accounted(m, p) <=> Accounted(mem, p)
                         /\ Settled(m, p) <=> Settled(mem, p)
                         /\ Completed(m, p) <=> v[p].state = "COMPLETED"
    BY <1>2 DEF Accounted, Settled, Completed
  <2> QED BY <1>2, <2>1 DEF Funding, StoreFits
<1>5. FundedCapture
  BY <1>1, <1>2 DEF FundedCapture
<1> QED BY <1>1, <1>3, <1>4, <1>5, <1>r DEF Funding

\* A save of one allocation, when it takes no capital from a completed plan that
\* is not settled.
LEMMA AllocFunding ==
  ASSUME DurableAppends, TypeOK, Funding, job.plan \in Plans, NEW s \in AllocationStates,
         NEW next, SaveAlloc(s, next),
         s = "ACTIVE" \/ MayRelease(mem, job.plan),
         \A m : /\ m.queue = mem.queue /\ m.journal = mem.journal
                /\ m.groups = mem.groups /\ m.books = mem.books
                /\ m.alloc[job.plan] = s
                => RunFits(m, next)
  PROVE  Funding' /\ FundedCapture
<1> DEFINE v == [mem.alloc EXCEPT ![job.plan] = s]
           m == [mem EXCEPT !.alloc = v]
           d == [disk EXCEPT !.alloc = v]
<1>1. mem' = m /\ disk' = d /\ job' = next
  BY SavedDurably DEF SaveAlloc
<1>2. /\ m.queue = mem.queue /\ m.alloc = v /\ m.journal = mem.journal
      /\ m.groups = mem.groups /\ m.books = mem.books
      /\ d.queue = disk.queue /\ d.journal = disk.journal /\ d.groups = disk.groups
  BY Replaced DEF TypeOK
<1>3. \A p \in Plans : m.alloc[p] = IF p = job.plan THEN s ELSE mem.alloc[p]
  BY <1>2 DEF TypeOK, Stores
<1> HIDE DEF m, d, v
<1>4. RunFits(m, next)
  BY <1>2, <1>3
<1>5. Agreeing'
  BY <1>1, <1>2 DEF Funding, Agreeing, Completed
<1>6. StoreFits(m)
  <2>1. \A p \in Plans : /\ Accounted(m, p) <=> Accounted(mem, p)
                         /\ Settled(m, p) <=> Settled(mem, p)
                         /\ Completed(m, p) <=> Completed(mem, p)
    BY <1>2 DEF Accounted, Settled, Completed
  <2> QED BY <1>2, <1>3, <2>1 DEF Funding, StoreFits, MayRelease
<1>7. FundedCapture
  BY <1>1, <1>2 DEF FundedCapture
<1> QED BY <1>1, <1>4, <1>5, <1>6, <1>7 DEF Funding

\* A result and its plan.
LEMMA ResultPlan ==
  ASSUME NEW p \in Plans, NEW r \in ResultsOf(p)
  PROVE  r \in Results /\ r[1] = p
  BY DEF ResultsOf, Results

\* A save of the run's result, when only a result with a group is accounted, none
\* of a completed plan stops being so, and only a funded one is new.
LEMMA JournalFunding ==
  ASSUME DurableAppends, TypeOK, Funding, TheResult \in Results, job.plan \in Plans,
         NEW rec, NEW next,
         LET v == [mem.journal EXCEPT ![TheResult] = rec]
         IN  Save([mem EXCEPT !.journal = v], [disk EXCEPT !.journal = v], next),
         rec.state = "POSITION_ACCOUNTED" => mem.groups[TheResult] # "NONE",
         \/ rec.state = "POSITION_ACCOUNTED" \/ ~Completed(mem, job.plan)
         \/ mem.journal[TheResult].state # "POSITION_ACCOUNTED",
         \/ mem.journal[TheResult].state # "NONE"
         \/ job.plan \in Held /\ mem.alloc[job.plan] = "ACTIVE",
         \A m : /\ m.queue = mem.queue /\ m.alloc = mem.alloc
                /\ m.groups = mem.groups /\ m.books = mem.books
                /\ m.journal[TheResult] = rec
                => RunFits(m, next)
  PROVE  Funding' /\ FundedCapture
<1> DEFINE v == [mem.journal EXCEPT ![TheResult] = rec]
           m == [mem EXCEPT !.journal = v]
           d == [disk EXCEPT !.journal = v]
<1>1. mem' = m /\ disk' = d /\ job' = next
  BY SavedDurably
<1>2. /\ m.queue = mem.queue /\ m.alloc = mem.alloc /\ m.journal = v
      /\ m.groups = mem.groups /\ m.books = mem.books
      /\ d.queue = disk.queue /\ d.journal = v /\ d.groups = disk.groups
  BY Replaced DEF TypeOK
<1>3. \A r \in Results : v[r] = IF r = TheResult THEN rec ELSE mem.journal[r]
  BY DEF TypeOK, Stores
<1> HIDE DEF m, d, v
<1>4. RunFits(m, next)
  BY <1>2, <1>3
<1>5. Agreeing'
  BY <1>1, <1>2 DEF Funding, Agreeing, Completed
<1>t. TheResult[1] = job.plan
  BY DEF TheResult
<1>6. StoreFits(m)
  <2>1. \A p \in Plans : /\ Settled(m, p) <=> Settled(mem, p)
                         /\ Completed(m, p) <=> Completed(mem, p)
    BY <1>2 DEF Settled, Completed
  <2>2. ASSUME NEW p \in Plans, Completed(mem, p), Accounted(mem, p)
        PROVE  Accounted(m, p)
    <3>1. PICK r \in ResultsOf(p) : mem.journal[r].state = "POSITION_ACCOUNTED"
      BY <2>2 DEF Accounted
    <3>2. r \in Results /\ r[1] = p
      BY ResultPlan
    <3>3. m.journal[r].state = "POSITION_ACCOUNTED"
      BY <1>2, <1>3, <1>t, <2>2, <3>1, <3>2
    <3> QED BY <3>3 DEF Accounted
  <2>3. \A r \in Results : m.journal[r].state = "POSITION_ACCOUNTED" => m.groups[r] # "NONE"
    BY <1>2, <1>3 DEF Funding, StoreFits
  <2> QED BY <1>2, <2>1, <2>2, <2>3 DEF Funding, StoreFits
<1>7. FundedCapture
  <2>1. \A r \in Results : r # TheResult => disk'.journal[r] = disk.journal[r]
    BY <1>1, <1>2, <1>3 DEF Funding, Agreeing
  <2>2. disk.journal[TheResult].state = mem.journal[TheResult].state
    BY DEF Funding, Agreeing
  <2> QED BY <1>t, <2>1, <2>2 DEF FundedCapture
<1> QED BY <1>1, <1>4, <1>5, <1>6, <1>7 DEF Funding

\* A save of a group, which is opened or closed and never dropped.
LEMMA GroupFunding ==
  ASSUME DurableAppends, TypeOK, Funding, NEW r \in Results, NEW s \in GroupStates, s # "NONE",
         NEW next, SaveGroup(r, s, next),
         \A m : /\ m.queue = mem.queue /\ m.alloc = mem.alloc
                /\ m.journal = mem.journal /\ m.books = mem.books
                /\ m.groups[r] = s
                => RunFits(m, next)
  PROVE  Funding' /\ FundedCapture
<1> DEFINE v == [mem.groups EXCEPT ![r] = s]
           m == [mem EXCEPT !.groups = v]
           d == [disk EXCEPT !.groups = v]
<1>1. mem' = m /\ disk' = d /\ job' = next
  BY SavedDurably DEF SaveGroup
<1>2. /\ m.queue = mem.queue /\ m.alloc = mem.alloc /\ m.journal = mem.journal
      /\ m.groups = v /\ m.books = mem.books
      /\ d.queue = disk.queue /\ d.journal = disk.journal /\ d.groups = v
  BY Replaced DEF TypeOK
<1>3. \A q \in Results : v[q] = IF q = r THEN s ELSE mem.groups[q]
  BY DEF TypeOK, Stores
<1> HIDE DEF m, d, v
<1>4. RunFits(m, next)
  BY <1>2, <1>3
<1>5. Agreeing'
  BY <1>1, <1>2 DEF Funding, Agreeing, Completed
<1>6. StoreFits(m)
  <2>1. \A p \in Plans : /\ Accounted(m, p) <=> Accounted(mem, p)
                         /\ Completed(m, p) <=> Completed(mem, p)
    BY <1>2 DEF Accounted, Completed
  <2>2. ASSUME NEW p \in Plans, Settled(mem, p)
        PROVE  Settled(m, p)
    <3>1. PICK q \in ResultsOf(p) : mem.groups[q] # "NONE" /\ mem.books[q].state = "ACCOUNT_POSTED"
      BY <2>2 DEF Settled
    <3>2. q \in Results
      BY ResultPlan
    <3>3. m.groups[q] # "NONE" /\ m.books[q].state = "ACCOUNT_POSTED"
      BY <1>2, <1>3, <3>1, <3>2
    <3> QED BY <3>3 DEF Settled
  <2> QED BY <1>2, <1>3, <2>1, <2>2 DEF Funding, StoreFits
<1>7. FundedCapture
  BY <1>1, <1>2 DEF FundedCapture
<1> QED BY <1>1, <1>4, <1>5, <1>6, <1>7 DEF Funding

\* A save of an accounting record, when it does not take a posting back.
LEMMA BookFunding ==
  ASSUME DurableAppends, TypeOK, Funding, TheResult \in Results,
         NEW b, NEW next, SaveBook(b, next),
         b.state = "ACCOUNT_POSTED" \/ mem.books[TheResult].state # "ACCOUNT_POSTED",
         \A m : /\ m.queue = mem.queue /\ m.alloc = mem.alloc
                /\ m.journal = mem.journal /\ m.groups = mem.groups
                /\ m.books[TheResult] = b
                => RunFits(m, next)
  PROVE  Funding' /\ FundedCapture
<1> DEFINE v == [mem.books EXCEPT ![TheResult] = b]
           m == [mem EXCEPT !.books = v]
           d == [disk EXCEPT !.books = v]
<1>1. mem' = m /\ disk' = d /\ job' = next
  BY SavedDurably DEF SaveBook
<1>2. /\ m.queue = mem.queue /\ m.alloc = mem.alloc /\ m.journal = mem.journal
      /\ m.groups = mem.groups /\ m.books = v
      /\ d.queue = disk.queue /\ d.journal = disk.journal /\ d.groups = disk.groups
  BY Replaced DEF TypeOK
<1>3. \A q \in Results : v[q] = IF q = TheResult THEN b ELSE mem.books[q]
  BY DEF TypeOK, Stores
<1> HIDE DEF m, d, v
<1>4. RunFits(m, next)
  BY <1>2, <1>3
<1>5. Agreeing'
  BY <1>1, <1>2 DEF Funding, Agreeing, Completed
<1>6. StoreFits(m)
  <2>1. \A p \in Plans : /\ Accounted(m, p) <=> Accounted(mem, p)
                         /\ Completed(m, p) <=> Completed(mem, p)
    BY <1>2 DEF Accounted, Completed
  <2>2. ASSUME NEW p \in Plans, Settled(mem, p)
        PROVE  Settled(m, p)
    <3>1. PICK q \in ResultsOf(p) : mem.groups[q] # "NONE" /\ mem.books[q].state = "ACCOUNT_POSTED"
      BY <2>2 DEF Settled
    <3>2. q \in Results
      BY ResultPlan
    <3>3. m.groups[q] # "NONE" /\ m.books[q].state = "ACCOUNT_POSTED"
      BY <1>2, <1>3, <3>1, <3>2
    <3> QED BY <3>3 DEF Settled
  <2> QED BY <1>2, <2>1, <2>2 DEF Funding, StoreFits
<1>7. FundedCapture
  BY <1>1, <1>2 DEF FundedCapture
<1> QED BY <1>1, <1>4, <1>5, <1>6, <1>7 DEF Funding

\* The fields of a step and of a new run.
LEMMA StepFields ==
  ASSUME TypeOK, NEW x
  PROVE  /\ To(x).at = x /\ To(x).who = job.who /\ To(x).plan = job.plan
         /\ Result(To(x)) = TheResult
  BY DEF TypeOK, Jobs, To, Result, TheResult

LEMMA JobFields ==
  ASSUME NEW who, NEW x, NEW p, NEW n
  PROVE  /\ Job(who, x, p, n).at = x /\ Job(who, x, p, n).who = who
         /\ Job(who, x, p, n).plan = p /\ Result(Job(who, x, p, n)) = <<p, n>>
  BY DEF Job, Result

\* Between runs nothing is relied on.
LEMMA IdleFits == \A m : RunFits(m, Idle)
  BY DEF Idle, RunFits, BookSteps

\* Where a throw takes the run.
LEMMA ThrownFits ==
  ASSUME TypeOK, NEW m,
         job.who = "worker" => ~Completed(m, job.plan),
         job.who = "catch" /\ job.at = "catch" => MayRelease(m, job.plan)
  PROVE  RunFits(m, Thrown)
<1>1. CASE job.who = "worker"
  <2>1. Thrown.who = "catch" /\ Thrown.at = "catch" /\ Thrown.plan = job.plan
    BY <1>1 DEF Thrown, TypeOK, Jobs
  <2> QED BY <1>1, <2>1 DEF RunFits, BookSteps
<1>2. CASE job.who = "catch" /\ job.at = "catch" /\ ~job.exposed
  <2>1. Thrown = To("unbind")
    BY <1>2 DEF Thrown
  <2> QED BY <1>2, <2>1, StepFields DEF RunFits, BookSteps
<1>3. CASE job.who # "worker" /\ ~(job.who = "catch" /\ job.at = "catch" /\ ~job.exposed)
  BY <1>3, IdleFits DEF Thrown
<1> QED BY <1>1, <1>2, <1>3

\* Where a release goes on.
LEMMA AfterReleaseFits ==
  ASSUME TypeOK, NEW m, m.queue = mem.queue
  PROVE  RunFits(m, AfterRelease)
<1>1. \A x \in {"release", "restart"} : RunFits(m, To(x))
  BY StepFields DEF RunFits, BookSteps
<1>2. ASSUME job.who = "worker", mem.queue[job.plan].state = "LEASED"
      PROVE  RunFits(m, To("allocated"))
  BY <1>2, StepFields DEF RunFits, BookSteps, Completed
<1> QED BY <1>1, <1>2, IdleFits DEF AfterRelease

\* An acknowledgement, which completes only what is accounted and funded.
LEMMA AcknowledgeFunding ==
  ASSUME DurableAppends, TypeOK, Funding, job.plan \in Plans, NEW outcome, NEW next,
         Acknowledge(outcome, next),
         outcome = "COMPLETED" =>
           Accounted(mem, job.plan) /\ mem.alloc[job.plan] = "ACTIVE",
         \A m : /\ Completed(m, job.plan) => outcome = "COMPLETED"
                /\ m.alloc = mem.alloc /\ m.journal = mem.journal
                /\ m.groups = mem.groups /\ m.books = mem.books
                => RunFits(m, next)
  PROVE  Funding' /\ FundedCapture
<1> DEFINE v == [mem.queue EXCEPT ![job.plan].state = outcome,
                                  ![job.plan].leaseExpiresAt = 0]
<1>1. mem.queue \in [Plans -> QueueRecords]
  BY DEF TypeOK, Stores
<1>2. v[job.plan].state = outcome
  BY <1>1 DEF QueueRecords
<1>3. \A p \in Plans : p # job.plan => v[p] = mem.queue[p]
  BY <1>1
<1>4. SaveQueue(v, next)
  BY DEF Acknowledge
<1> HIDE DEF v
<1>5. \A m : /\ m.queue = v /\ m.alloc = mem.alloc /\ m.journal = mem.journal
             /\ m.groups = mem.groups /\ m.books = mem.books
             => RunFits(m, next)
  BY <1>2 DEF Completed
<1>6. \A p \in Plans : v[p].state = "COMPLETED" =>
        Completed(mem, p) \/ (Accounted(mem, p) /\ mem.alloc[p] = "ACTIVE")
  BY <1>2, <1>3 DEF Completed
<1> QED BY <1>4, <1>5, <1>6, QueueFunding

\* One lemma per action.  Intake completes nothing, and takes no run along.
LEMMA EnqueueFunding ==
  ASSUME DurableAppends, TypeOK, Funding, NEW p \in Plans, Enqueue(p)
  PROVE  Funding' /\ FundedCapture
<1>0. mem.queue \in [Plans -> QueueRecords]
  BY DEF TypeOK, Stores
<1>1. Swept \in [Plans -> QueueRecords]
  BY SweptTyped
<1>2. \A q \in Plans : Swept[q].state = "COMPLETED" <=> Completed(mem, q)
  BY <1>0 DEF Swept, SweptRecord, Completed, QueueRecords
<1>3. ASSUME NEW w \in [Plans -> QueueRecords],
             \A q \in Plans : w[q].state = "COMPLETED" => Completed(mem, q)
      PROVE  \A q \in Plans : Enqueued(w, p)[q].state = "COMPLETED" => Completed(mem, q)
  BY <1>3 DEF Enqueued, NoQueueRecord
<1>4. \A m : RunFits(m, Idle)
  BY IdleFits
<1>5. CASE SaveQueue(Enqueued(Swept, p), Idle)
  <2>1. \A q \in Plans : Enqueued(Swept, p)[q].state = "COMPLETED" => Completed(mem, q)
    BY <1>1, <1>2, <1>3
  <2> QED BY <1>4, <1>5, <2>1, QueueFunding
<1>6. ASSUME NEW x \in Plans, SaveQueue(Enqueued([Swept EXCEPT ![x] = NoQueueRecord], p), Idle)
      PROVE  Funding' /\ FundedCapture
  <2> DEFINE w == [Swept EXCEPT ![x] = NoQueueRecord]
  <2>1. NoQueueRecord \in QueueRecords /\ NoQueueRecord.state = "NONE"
    BY BoundsAssumption DEF NoQueueRecord, QueueRecords, QueueStates
  <2>2. w \in [Plans -> QueueRecords]
    BY <1>1, <2>1
  <2>3. \A q \in Plans : w[q].state = "COMPLETED" => Completed(mem, q)
    BY <1>1, <1>2, <2>1
  <2>4. \A q \in Plans : Enqueued(w, p)[q].state = "COMPLETED" => Completed(mem, q)
    BY <1>3, <2>2, <2>3
  <2> HIDE DEF w
  <2>5. SaveQueue(Enqueued(w, p), Idle)
    BY <1>6 DEF w
  <2> QED BY <1>4, <2>4, <2>5, QueueFunding
<1>7. CASE mem' = [mem EXCEPT !.queue = Swept] /\ UNCHANGED <<disk, job>>
  <2>1. /\ mem'.queue = Swept /\ mem'.alloc = mem.alloc /\ mem'.journal = mem.journal
        /\ mem'.groups = mem.groups /\ mem'.books = mem.books
    BY <1>7, Replaced DEF TypeOK
  <2>2. Agreeing'
    BY <1>2, <1>7, <2>1 DEF Funding, Agreeing, Completed
  <2>3. StoreFits(mem)'
    <3>1. \A q \in Plans : /\ Accounted(mem', q) <=> Accounted(mem, q)
                           /\ Settled(mem', q) <=> Settled(mem, q)
                           /\ Completed(mem', q) <=> Completed(mem, q)
      BY <1>2, <2>1 DEF Accounted, Settled, Completed
    <3>2. StoreFits(mem')
      BY <2>1, <3>1 DEF Funding, StoreFits
    <3> QED BY <3>2
  <2>4. RunFits(mem, job)'
    BY <1>4, <1>7 DEF Enqueue
  <2>5. FundedCapture
    BY <1>7 DEF FundedCapture
  <2> QED BY <2>2, <2>3, <2>4, <2>5 DEF Funding
<1>8. \/ SaveQueue(Enqueued(Swept, p), Idle)
      \/ \E q \in Plans : SaveQueue(Enqueued([Swept EXCEPT ![q] = NoQueueRecord], p), Idle)
      \/ mem' = [mem EXCEPT !.queue = Swept] /\ UNCHANGED <<disk, job>>
  BY DEF Enqueue, Removable
<1> QED BY <1>5, <1>6, <1>7, <1>8

LEMMA WorkerStartsFunding ==
  ASSUME DurableAppends, TypeOK, Funding, WorkerStarts
  PROVE  Funding' /\ FundedCapture
<1> DEFINE next == Job("terminal", "release", 0, 0)
<1>1. \A m : RunFits(m, next)
  BY JobFields DEF RunFits, BookSteps
<1>2. \A p \in Plans : Swept[p].state = "COMPLETED" => Completed(mem, p)
  BY DEF Swept, SweptRecord, Completed, TypeOK, Stores, QueueRecords
<1>3. Goes(next) \/ SaveQueue(Swept, next)
  BY DEF WorkerStarts
<1> HIDE DEF next
<1> QED BY <1>1, <1>2, <1>3, GoesFunding, QueueFunding

LEMMA ReleaseTerminalFunding ==
  ASSUME TypeOK, Funding, ReleaseTerminal
  PROVE  Funding' /\ FundedCapture
<1>1. ASSUME NEW p \in Plans, Owes(p), Goes(Job("terminal", "unbind", p, 0))
      PROVE  Funding' /\ FundedCapture
  <2>1. MayRelease(mem, p)
    BY <1>1 DEF Owes, MayRelease, Completed
  <2>2. RunFits(mem, Job("terminal", "unbind", p, 0))
    BY <2>1, JobFields DEF RunFits, BookSteps
  <2> QED BY <1>1, <2>2, GoesFunding
<1>2. CASE Goes(Job("terminal", "lease", 0, 0))
  <2>1. RunFits(mem, Job("terminal", "lease", 0, 0))
    BY JobFields DEF RunFits, BookSteps
  <2> QED BY <1>2, <2>1, GoesFunding
<1> QED BY <1>1, <1>2 DEF ReleaseTerminal

LEMMA LeaseNextFunding ==
  ASSUME DurableAppends, TypeOK, Funding, LeaseNext
  PROVE  Funding' /\ FundedCapture
<1>1. ASSUME NEW p \in Plans,
             SaveQueue([mem.queue EXCEPT ![p] = Leased(p)],
                       Job("worker", "allocate", p, mem.queue[p].attempts + 1))
      PROVE  Funding' /\ FundedCapture
  <2> DEFINE v == [mem.queue EXCEPT ![p] = Leased(p)]
             next == Job("worker", "allocate", p, mem.queue[p].attempts + 1)
  <2>1. Leased(p).state = "LEASED"
    BY DEF Leased, TypeOK, Stores, QueueRecords
  <2>2. v[p].state = "LEASED" /\ \A q \in Plans : q # p => v[q] = mem.queue[q]
    BY <2>1 DEF TypeOK, Stores
  <2>3. next.at = "allocate" /\ next.who = "worker" /\ next.plan = p
    BY JobFields
  <2>4. SaveQueue(v, next)
    BY <1>1
  <2> HIDE DEF v, next
  <2>5. \A m : m.queue = v => RunFits(m, next)
    BY <2>2, <2>3 DEF RunFits, BookSteps, Completed
  <2>6. \A q \in Plans : v[q].state = "COMPLETED" => Completed(mem, q)
    BY <2>2 DEF Completed
  <2> QED BY <2>4, <2>5, <2>6, QueueFunding
<1>2. CASE Goes(Idle)
  BY <1>2, IdleFits, GoesFunding
<1> QED BY <1>1, <1>2 DEF LeaseNext

LEMMA AllocateFunding ==
  ASSUME DurableAppends, TypeOK, WellFormed(job), Funding, Allocate
  PROVE  Funding' /\ FundedCapture
<1>0. job.plan \in Plans /\ job.at = "allocate" /\ job.who = "worker" /\ ~Completed(mem, job.plan)
  BY DEF Allocate, WellFormed, Funding, RunFits
<1>1. \A m : m.queue = mem.queue => RunFits(m, To("reserve"))
  BY <1>0, StepFields DEF RunFits, BookSteps, Completed
<1>2. RunFits(mem, To("free"))
  BY StepFields DEF RunFits, BookSteps
<1>3. RunFits(mem, To("allocated"))
  BY <1>0, StepFields DEF RunFits, BookSteps
<1>4. CASE SaveAlloc("PENDING_RESERVE", To("reserve"))
  <2>1. "PENDING_RESERVE" \in AllocationStates /\ MayRelease(mem, job.plan)
    BY <1>0 DEF AllocationStates, MayRelease
  <2> QED BY <1>0, <1>1, <1>4, <2>1, AllocFunding
<1>5. CASE Goes(To("reserve")) \/ Goes(To("free")) \/ Goes(To("allocated"))
  BY <1>1, <1>2, <1>3, <1>5, GoesFunding
<1>6. CASE Goes(Thrown)
  BY <1>0, <1>6, ThrownFits, GoesFunding
<1> QED BY <1>4, <1>5, <1>6 DEF Allocate

LEMMA AllocatedFunding ==
  ASSUME DurableAppends, TypeOK, WellFormed(job), Funding,
         RejectUnallocated \/ NoEvidence \/ SimulationThrows
  PROVE  Funding' /\ FundedCapture
<1>0. job.plan \in Plans /\ job.at = "allocated" /\ job.who = "worker" /\ ~Completed(mem, job.plan)
  BY DEF RejectUnallocated, NoEvidence, SimulationThrows, WellFormed, Funding, RunFits
<1>1. CASE RejectUnallocated
  <2>1. Acknowledge("REJECTED", Idle)
    BY <1>1 DEF RejectUnallocated
  <2> QED BY <1>0, <2>1, IdleFits, AcknowledgeFunding
<1>2. CASE NoEvidence /\ Acknowledge("REJECTED", To("unbind"))
  <2>1. \A m : ~Completed(m, job.plan) /\ m.alloc = mem.alloc => RunFits(m, To("unbind"))
    BY <1>0, <1>2, StepFields DEF NoEvidence, RunFits, BookSteps, MayRelease
  <2> QED BY <1>0, <1>2, <2>1, AcknowledgeFunding
<1>3. CASE SaveQueue([mem.queue EXCEPT ![job.plan] = Deferred(@)], Idle)
  <2> DEFINE v == [mem.queue EXCEPT ![job.plan] = Deferred(@)]
  <2>1. mem.queue \in [Plans -> QueueRecords]
    BY DEF TypeOK, Stores
  <2>2. v[job.plan].state = "QUEUED" /\ \A q \in Plans : q # job.plan => v[q] = mem.queue[q]
    BY <1>0, <2>1 DEF Deferred, QueueRecords
  <2>3. SaveQueue(v, Idle)
    BY <1>3
  <2> HIDE DEF v
  <2>4. \A q \in Plans : v[q].state = "COMPLETED" => Completed(mem, q)
    BY <2>2 DEF Completed
  <2> QED BY <2>3, <2>4, IdleFits, QueueFunding
<1>4. CASE SimulationThrows
  <2>1. Goes(Thrown) /\ RunFits(mem, Thrown)
    BY <1>0, <1>4, ThrownFits DEF SimulationThrows
  <2> QED BY <2>1, GoesFunding
<1> QED BY <1>1, <1>2, <1>3, <1>4 DEF NoEvidence

LEMMA CaptureFunding ==
  ASSUME DurableAppends, TypeOK, WellFormed(job), Owning, Funding, Capture
  PROVE  Funding' /\ FundedCapture
<1>0. /\ job.plan \in Plans /\ job.who = "worker" /\ TheResult \in Results
      /\ ~Completed(mem, job.plan)
  <2>1. job.at = "allocated" /\ job.at \in OfResult
    BY DEF Capture, OfResult
  <2> QED BY <2>1, AtResult DEF Funding, RunFits
<1>a. job.plan \in Held /\ mem.alloc[job.plan] = "ACTIVE"
  BY <1>0 DEF Capture, Owning
<1>1. PICK o \in Outcomes :
        LET v == [mem.journal EXCEPT ![TheResult] = Captured(o)]
        IN  Save([mem EXCEPT !.journal = v], [disk EXCEPT !.journal = v],
                 [To("captured") EXCEPT !.exposed = (o # "NO_FILL")])
  BY DEF Capture
<1> DEFINE next == [To("captured") EXCEPT !.exposed = (o # "NO_FILL")]
           rec == Captured(o)
<1>2. /\ next.at = "captured" /\ next.who = "worker" /\ next.plan = job.plan
      /\ Result(next) = TheResult
  BY <1>0 DEF TypeOK, Jobs, To, Result, TheResult
<1>3. rec.state \in {"PENDING_SHARED_RECOVERY", "READY_FOR_POSITION_ACCOUNTING"}
  BY DEF Captured
<1>4. LET v == [mem.journal EXCEPT ![TheResult] = rec]
      IN  Save([mem EXCEPT !.journal = v], [disk EXCEPT !.journal = v], next)
  BY <1>1
<1> HIDE DEF next, rec
<1>5. ASSUME NEW m, m.queue = mem.queue, m.alloc = mem.alloc, m.journal[TheResult] = rec
      PROVE  RunFits(m, next)
  <2>1. /\ ~Completed(m, job.plan) /\ m.alloc[job.plan] = "ACTIVE"
        /\ m.journal[TheResult].state \in {"PENDING_SHARED_RECOVERY", "READY_FOR_POSITION_ACCOUNTING"}
    BY <1>0, <1>a, <1>3, <1>5 DEF Completed
  <2> QED BY <1>2, <2>1 DEF RunFits, BookSteps
<1>6. rec.state # "POSITION_ACCOUNTED"
  BY <1>3
<1> QED BY <1>0, <1>a, <1>4, <1>5, <1>6, JournalFunding

\* A change of the state of the run's result.
LEMMA MarkFunding ==
  ASSUME DurableAppends, TypeOK, Funding, TheResult \in Results, job.plan \in Plans,
         NEW s \in JournalStates, NEW next, SaveJournal(s, next),
         s = "POSITION_ACCOUNTED" => mem.groups[TheResult] # "NONE",
         \/ s = "POSITION_ACCOUNTED" \/ ~Completed(mem, job.plan)
         \/ mem.journal[TheResult].state # "POSITION_ACCOUNTED",
         mem.journal[TheResult].state # "NONE",
         \A m : /\ m.queue = mem.queue /\ m.alloc = mem.alloc
                /\ m.groups = mem.groups /\ m.books = mem.books
                => RunFits(m, next)
  PROVE  Funding' /\ FundedCapture
<1> DEFINE rec == [mem.journal[TheResult] EXCEPT !.state = s]
<1>1. mem.journal \in [Results -> JournalRecords]
  BY DEF TypeOK, Stores
<1>2. rec.state = s
  BY <1>1 DEF JournalRecords
<1>3. LET v == [mem.journal EXCEPT ![TheResult] = rec]
      IN  Save([mem EXCEPT !.journal = v], [disk EXCEPT !.journal = v], next)
  BY DEF SaveJournal
<1> HIDE DEF rec
<1> QED BY <1>2, <1>3, JournalFunding

LEMMA StageRecoveryFunding ==
  ASSUME DurableAppends, TypeOK, WellFormed(job), Funding, StageRecovery
  PROVE  Funding' /\ FundedCapture
<1>0. /\ job.plan \in Plans /\ job.who = "worker" /\ TheResult \in Results
      /\ ~Completed(mem, job.plan) /\ mem.alloc[job.plan] = "ACTIVE"
      /\ mem.journal[TheResult].state # "NONE"
  <2>1. job.at = "captured" /\ job.at \in OfResult
    BY DEF StageRecovery, OfResult
  <2> QED BY <2>1, AtResult DEF Funding, RunFits, Result, TheResult
<1>1. \A m : m.queue = mem.queue /\ m.alloc = mem.alloc => RunFits(m, To("acknowledge"))
  BY <1>0, StepFields DEF RunFits, BookSteps, Completed
<1>2. PICK s \in {"SHARED_RECOVERY_STAGED", "RECOVERY_STAGING_FAILED"} :
        SaveJournal(s, To("acknowledge"))
  BY DEF StageRecovery
<1>3. s \in JournalStates /\ s # "POSITION_ACCOUNTED"
  BY DEF JournalStates
<1> QED BY <1>0, <1>1, <1>2, <1>3, MarkFunding

LEMMA RecordEntryFunding ==
  ASSUME DurableAppends, TypeOK, WellFormed(job), Funding, RecordEntry
  PROVE  Funding' /\ FundedCapture
<1>0. /\ job.plan \in Plans /\ job.who = "worker" /\ TheResult \in Results
      /\ ~Completed(mem, job.plan) /\ mem.alloc[job.plan] = "ACTIVE"
      /\ mem.journal[TheResult].state # "NONE"
  <2>1. job.at = "captured" /\ job.at \in OfResult
    BY DEF RecordEntry, OfResult
  <2> QED BY <2>1, AtResult DEF Funding, RunFits, Result, TheResult
<1>1. ASSUME NEW x \in {"mark", "book"}, NEW m,
             m.queue = mem.queue, m.alloc = mem.alloc, m.journal = mem.journal,
             m.groups[TheResult] # "NONE"
      PROVE  RunFits(m, To(x))
  BY <1>0, <1>1, StepFields DEF RunFits, BookSteps, Completed
<1>2. ASSUME NEW x \in {"mark", "book"}, NEW s \in {"OPEN", "CLOSED"},
             SaveGroup(TheResult, s, To(x))
      PROVE  Funding' /\ FundedCapture
  <2>1. s \in GroupStates /\ s # "NONE"
    BY DEF GroupStates
  <2> QED BY <1>0, <1>1, <1>2, <2>1, GroupFunding
<1>3. CASE Goes(Thrown)
  <2>1. RunFits(mem, Thrown)
    BY <1>0, ThrownFits
  <2> QED BY <1>3, <2>1, GoesFunding
<1> QED BY <1>2, <1>3 DEF RecordEntry

LEMMA MarkPositionFunding ==
  ASSUME DurableAppends, TypeOK, WellFormed(job), Funding, MarkPositionAccounted
  PROVE  Funding' /\ FundedCapture
<1>0. /\ job.plan \in Plans /\ job.who = "worker" /\ TheResult \in Results
      /\ ~Completed(mem, job.plan) /\ mem.alloc[job.plan] = "ACTIVE"
      /\ mem.journal[TheResult].state # "NONE" /\ mem.groups[TheResult] # "NONE"
  <2>1. job.at = "mark" /\ job.at \in OfResult
    BY DEF MarkPositionAccounted, OfResult
  <2> QED BY <2>1, AtResult DEF Funding, RunFits, Result, TheResult
<1>1. \A m : m.queue = mem.queue /\ m.alloc = mem.alloc => RunFits(m, To("acknowledge"))
  BY <1>0, StepFields DEF RunFits, BookSteps, Completed
<1>2. "POSITION_ACCOUNTED" \in JournalStates /\ SaveJournal("POSITION_ACCOUNTED", To("acknowledge"))
  BY DEF MarkPositionAccounted, JournalStates
<1> QED BY <1>0, <1>1, <1>2, MarkFunding

LEMMA MarkRecoveryFunding ==
  ASSUME DurableAppends, TypeOK, WellFormed(job), Funding, MarkRecoveryCompleted
  PROVE  Funding' /\ FundedCapture
<1>0. /\ job.plan \in Plans /\ TheResult \in Results /\ job.who = "recovery"
      /\ mem.journal[TheResult].state = "SHARED_RECOVERY_STAGED" /\ mem.groups[TheResult] # "NONE"
  <2>1. job.at = "recovered" /\ job.at \in OfResult
    BY DEF MarkRecoveryCompleted, OfResult
  <2> QED BY <2>1, AtResult DEF Funding, RunFits, Result, TheResult
<1>1. \A m : m.groups = mem.groups => RunFits(m, To("book"))
  BY <1>0, StepFields DEF RunFits, BookSteps
<1>2. "RECOVERY_COMPLETED" \in JournalStates /\ SaveJournal("RECOVERY_COMPLETED", To("book"))
  BY DEF MarkRecoveryCompleted, JournalStates
<1> QED BY <1>0, <1>1, <1>2, MarkFunding

LEMMA FinishFunding ==
  ASSUME DurableAppends, TypeOK, WellFormed(job), Funding, Finish
  PROVE  Funding' /\ FundedCapture
<1>0. /\ job.plan \in Plans /\ job.who = "worker" /\ TheResult \in Results
      /\ mem.alloc[job.plan] = "ACTIVE"
  <2>1. job.at = "acknowledge" /\ job.at \in OfResult
    BY DEF Finish, OfResult
  <2> QED BY <2>1, AtResult DEF Funding, RunFits
<1>1. TheResult \in ResultsOf(job.plan)
  BY <1>0 DEF TheResult, Results, ResultsOf
<1>2. CASE Acknowledge("REJECTED", Idle)
  BY <1>0, <1>2, IdleFits, AcknowledgeFunding
<1>3. ASSUME mem.journal[TheResult].state = "POSITION_ACCOUNTED"
      PROVE  Accounted(mem, job.plan) /\ mem.groups[TheResult] # "NONE"
  BY <1>0, <1>1, <1>3 DEF Accounted, Funding, StoreFits
<1>4. CASE mem.journal[TheResult].state = "POSITION_ACCOUNTED" /\ Acknowledge("COMPLETED", Idle)
  BY <1>0, <1>3, <1>4, IdleFits, AcknowledgeFunding
<1>5. CASE /\ mem.journal[TheResult].state = "POSITION_ACCOUNTED"
           /\ mem.books[TheResult].state = "ACCOUNT_POSTED"
           /\ Acknowledge("COMPLETED", To("unbind"))
  <2>1. ASSUME NEW m, m.alloc = mem.alloc, m.groups = mem.groups, m.books = mem.books
        PROVE  RunFits(m, To("unbind"))
    <3>1. Settled(m, job.plan)
      BY <1>1, <1>3, <1>5, <2>1 DEF Settled
    <3> QED BY <1>0, <2>1, <3>1, StepFields DEF RunFits, BookSteps, MayRelease
  <2> QED BY <1>0, <1>3, <1>5, <2>1, AcknowledgeFunding
<1> QED BY <1>2, <1>4, <1>5 DEF Finish

LEMMA CatchFunding ==
  ASSUME DurableAppends, TypeOK, WellFormed(job), Funding, Catch
  PROVE  Funding' /\ FundedCapture
<1>0. job.plan \in Plans /\ job.at = "catch" /\ ~Completed(mem, job.plan)
  BY DEF Catch, WellFormed, Funding, RunFits
<1>1. \A m : ~Completed(m, job.plan) => RunFits(m, Thrown)
  BY <1>0, ThrownFits DEF MayRelease
<1>2. CASE Acknowledge("REJECTED", Thrown)
  BY <1>0, <1>1, <1>2, AcknowledgeFunding
<1>3. CASE Goes(Thrown)
  BY <1>0, <1>1, <1>3, GoesFunding
<1> QED BY <1>2, <1>3 DEF Catch

\* The steps that touch the account alone.
LEMMA AccountFunding ==
  ASSUME DurableAppends, TypeOK, WellFormed(job), Ready, Funding,
         ReserveCapital \/ ReleaseCapital \/ Post
  PROVE  Funding' /\ FundedCapture
<1>1. /\ mem' = mem /\ disk' = disk
      /\ \/ job.at = "reserve" /\ job' = To("reserved")
         \/ job.at = "free" /\ job' = To("freed")
         \/ job.at = "post" /\ job' = To("posted")
  BY DEF ReserveCapital, ReleaseCapital, Post, AppendFails, DurableAppends
<1>2. ASSUME job.at = "reserve", job' = To("reserved")
      PROVE  RunFits(mem, job')
  BY <1>2, StepFields DEF Funding, RunFits, BookSteps
<1>3. ASSUME job.at = "free", job' = To("freed")
      PROVE  RunFits(mem, job')
  BY <1>3, StepFields DEF RunFits, BookSteps
<1>4. ASSUME job.at = "post", job' = To("posted")
      PROVE  RunFits(mem, job')
  BY <1>4, StepFields DEF Funding, RunFits, BookSteps, Result, TheResult
<1>5. RunFits(mem, job')
  BY <1>1, <1>2, <1>3, <1>4
<1>6. Agreeing' /\ StoreFits(mem)' /\ RunFits(mem, job)' /\ FundedCapture
  BY <1>1, <1>5 DEF Funding, Agreeing, Completed, FundedCapture
<1> QED BY <1>6 DEF Funding

\* A plan whose capital is on its way back is settled, if it is completed.
LEMMA OnItsWayBack ==
  ASSUME Funding, NEW p \in Plans, mem.alloc[p] # "ACTIVE"
  PROVE  MayRelease(mem, p)
  BY DEF Funding, StoreFits, MayRelease

LEMMA ReservedFunding ==
  ASSUME DurableAppends, TypeOK, WellFormed(job), Owning, Funding, Reserved
  PROVE  Funding' /\ FundedCapture
<1>0. job.plan \in Plans /\ job.at = "reserved" /\ mem.alloc[job.plan] = "PENDING_RESERVE"
  BY DEF Reserved, WellFormed, Owning
<1>1. MayRelease(mem, job.plan)
  BY <1>0, OnItsWayBack
<1>2. ASSUME NEW s \in {"ACTIVE", "REJECTED"}, NEW next,
             SaveAlloc(s, next),
             \A m : /\ m.queue = mem.queue /\ m.groups = mem.groups /\ m.books = mem.books
                    => RunFits(m, next)
      PROVE  Funding' /\ FundedCapture
  <2>1. s \in AllocationStates
    BY DEF AllocationStates
  <2> QED BY <1>0, <1>1, <1>2, <2>1, AllocFunding
<1>3. CASE job.who = "worker"
  <2>1. ~Completed(mem, job.plan)
    BY <1>0, <1>3 DEF Funding, RunFits
  <2>2. \A m : m.queue = mem.queue => RunFits(m, To("allocated"))
    BY <1>3, <2>1, StepFields DEF RunFits, BookSteps, Completed
  <2>3. PICK s \in {"ACTIVE", "REJECTED"} : SaveAlloc(s, To("allocated"))
    BY <1>3 DEF Reserved
  <2> QED BY <1>2, <2>2, <2>3
<1>4. CASE job.who = "restart"
  <2>1. \A m : RunFits(m, To("restart"))
    BY StepFields DEF RunFits, BookSteps
  <2>2. PICK s \in {"ACTIVE", "REJECTED"} : SaveAlloc(s, To("restart"))
    BY <1>4 DEF Reserved
  <2> QED BY <1>2, <2>1, <2>2
<1>5. CASE job.who \notin {"worker", "restart"}
  <2>1. ASSUME NEW m, m.queue = mem.queue, m.groups = mem.groups, m.books = mem.books
        PROVE  RunFits(m, To("unbind"))
    <3>1. MayRelease(m, job.plan)
      BY <1>1, <2>1 DEF MayRelease, Completed, Settled
    <3> QED BY <1>5, <3>1, StepFields DEF RunFits, BookSteps
  <2>2. PICK s \in {"ACTIVE", "REJECTED"} : SaveAlloc(s, To("unbind"))
    BY <1>5 DEF Reserved
  <2> QED BY <1>2, <2>1, <2>2
<1> QED BY <1>3, <1>4, <1>5

LEMMA UnbindFunding ==
  ASSUME DurableAppends, TypeOK, WellFormed(job), Funding, Unbind
  PROVE  Funding' /\ FundedCapture
<1>0. job.plan \in Plans /\ job.at = "unbind" /\ MayRelease(mem, job.plan)
  BY DEF Unbind, WellFormed, Funding, RunFits
<1>w. job.who = "worker" => mem.alloc[job.plan] = "ACTIVE"
  BY <1>0 DEF Funding, RunFits
<1>1. \A m : RunFits(m, To("free"))
  BY StepFields DEF RunFits, BookSteps
<1>2. CASE SaveAlloc("PENDING_RELEASE", To("free"))
  <2>1. "PENDING_RELEASE" \in AllocationStates
    BY DEF AllocationStates
  <2> QED BY <1>0, <1>1, <1>2, <2>1, AllocFunding
<1>3. CASE mem.alloc[job.plan] = "PENDING_RESERVE" /\ Goes(To("reserve"))
  <2>1. RunFits(mem, To("reserve"))
    BY <1>0, <1>3, <1>w, StepFields DEF RunFits, BookSteps
  <2> QED BY <1>3, <2>1, GoesFunding
<1>4. CASE Goes(To("free")) \/ Goes(AfterRelease)
  BY <1>1, <1>4, AfterReleaseFits, GoesFunding
<1> QED BY <1>2, <1>3, <1>4 DEF Unbind

LEMMA ReleasedFunding ==
  ASSUME DurableAppends, TypeOK, WellFormed(job), Owning, Funding, Released
  PROVE  Funding' /\ FundedCapture
<1>0. job.plan \in Plans /\ mem.alloc[job.plan] = "PENDING_RELEASE"
  BY DEF Released, WellFormed, Owning
<1>1. MayRelease(mem, job.plan)
  BY <1>0, OnItsWayBack
<1>2. "RELEASED" \in AllocationStates /\ SaveAlloc("RELEASED", AfterRelease)
  BY DEF Released, AllocationStates
<1>3. \A m : m.queue = mem.queue => RunFits(m, AfterRelease)
  BY AfterReleaseFits
<1> QED BY <1>0, <1>1, <1>2, <1>3, AllocFunding

\* Where a booking goes on: to the mark of a worker, or to the release of what is
\* posted by then.
LEMMA AfterBookFits ==
  ASSUME TypeOK, WellFormed(job), Funding, job.at \in BookSteps, TheResult \in Results,
         NEW m, m.queue = mem.queue, m.alloc = mem.alloc, m.journal = mem.journal,
         m.groups = mem.groups, m.books[TheResult].state = "ACCOUNT_POSTED"
  PROVE  RunFits(m, AfterBook)
<1>0. m.groups[TheResult] # "NONE"
  BY DEF Funding, RunFits, Result, TheResult
<1>1. CASE job.who = "worker"
  <2>1. /\ ~Completed(m, job.plan) /\ m.alloc[job.plan] = "ACTIVE"
        /\ m.journal[TheResult].state # "NONE"
    BY <1>1 DEF Funding, RunFits, Result, TheResult, Completed
  <2> QED BY <1>0, <1>1, <2>1, StepFields DEF AfterBook, RunFits, BookSteps
<1>2. CASE job.who # "worker"
  <2>1. TheResult \in ResultsOf(job.plan)
    BY DEF TheResult, Results, ResultsOf
  <2>2. MayRelease(m, job.plan)
    BY <1>0, <2>1 DEF MayRelease, Settled
  <2> QED BY <1>2, <2>2, StepFields DEF AfterBook, RunFits, BookSteps
<1> QED BY <1>1, <1>2

LEMMA BookingFunding ==
  ASSUME DurableAppends, TypeOK, WellFormed(job), Funding, NoConversion \/ Book \/ Posted
  PROVE  Funding' /\ FundedCapture
<1>0. /\ job.plan \in Plans /\ TheResult \in Results /\ job.at \in BookSteps
      /\ mem.groups[TheResult] # "NONE"
      /\ job.who = "worker" => /\ ~Completed(mem, job.plan) /\ mem.alloc[job.plan] = "ACTIVE"
                               /\ mem.journal[TheResult].state # "NONE"
  <2>1. job.at \in BookSteps /\ job.at \in OfResult
    BY DEF NoConversion, Book, Posted, BookSteps, OfResult
  <2> QED BY <2>1, AtResult DEF Funding, RunFits, Result, TheResult
<1>1. job.at = "book" => job.who # "catch"
  BY DEF WellFormed
<1>2. CASE NoConversion
  <2>1. RunFits(mem, IF job.who = "worker" THEN To("mark") ELSE Idle)
    BY <1>0, StepFields, IdleFits DEF RunFits, BookSteps
  <2> QED BY <1>2, <2>1, GoesFunding DEF NoConversion
<1>3. ASSUME NEW m, m.queue = mem.queue, m.alloc = mem.alloc, m.journal = mem.journal,
             m.groups = mem.groups
      PROVE  RunFits(m, To("post"))
  BY <1>0, <1>3, StepFields DEF RunFits, BookSteps, Completed
<1>4. ASSUME NEW path \in Paths, NEW profit \in Profits, Book, TheBook.state = "NONE",
             SaveBook(Pending(path, profit), To("post"))
      PROVE  Funding' /\ FundedCapture
  BY <1>0, <1>3, <1>4, BookFunding DEF TheBook
<1>5. CASE Goes(To("post"))
  BY <1>3, <1>5, GoesFunding
<1>6. CASE Book /\ Goes(Thrown)
  <2>1. RunFits(mem, Thrown)
    BY <1>0, <1>1, <1>6, ThrownFits DEF Book
  <2> QED BY <1>6, <2>1, GoesFunding
<1>7. CASE TheBook.state = "ACCOUNT_POSTED" /\ Goes(AfterBook)
  <2>1. RunFits(mem, AfterBook)
    BY <1>0, <1>7, AfterBookFits DEF TheBook
  <2> QED BY <1>7, <2>1, GoesFunding
<1>8. CASE Posted
  <2> DEFINE b == [TheBook EXCEPT !.state = "ACCOUNT_POSTED"]
  <2>1. b.state = "ACCOUNT_POSTED"
    <3>1. TheBook \in BookRecords
      BY <1>0 DEF TheBook, TypeOK, Stores
    <3> QED BY <3>1 DEF BookRecords
  <2>2. SaveBook(b, AfterBook)
    BY <1>8 DEF Posted
  <2> HIDE DEF b
  <2>3. \A m : /\ m.queue = mem.queue /\ m.alloc = mem.alloc /\ m.journal = mem.journal
               /\ m.groups = mem.groups /\ m.books[TheResult] = b
               => RunFits(m, AfterBook)
    BY <1>0, <2>1, AfterBookFits
  <2> QED BY <1>0, <2>1, <2>2, <2>3, BookFunding
<1> QED BY <1>2, <1>4, <1>5, <1>6, <1>7, <1>8 DEF Book

LEMMA ScanFunding ==
  ASSUME DurableAppends, TypeOK, Funding, NEW r \in Results, Scan(r)
  PROVE  Funding' /\ FundedCapture
<1>r. r = <<r[1], r[2]>> /\ r[1] \in Plans /\ r \in ResultsOf(r[1])
  BY DEF Results, ResultsOf
<1>1. CASE ReconcileClosed(r)
  <2> DEFINE x == IF mem.books[r].state = "ACCOUNT_POSTED" THEN "unbind" ELSE "book"
             next == Job("lifecycle", x, r[1], r[2])
  <2>1. x = "unbind" => MayRelease(mem, r[1])
    BY <1>1, <1>r DEF ReconcileClosed, MayRelease, Settled
  <2>2. x \in {"unbind", "book"} /\ mem.groups[r] # "NONE"
    BY <1>1 DEF ReconcileClosed
  <2>3. Goes(next)
    BY <1>1 DEF ReconcileClosed
  <2>4. next.at = x /\ next.who = "lifecycle" /\ next.plan = r[1] /\ Result(next) = r
    BY <1>r, JobFields
  <2> HIDE DEF x, next
  <2>5. RunFits(mem, next)
    BY <2>1, <2>2, <2>4 DEF RunFits, BookSteps
  <2> QED BY <2>3, <2>5, GoesFunding
<1>2. CASE CloseOpen(r)
  <2> DEFINE next == Job("lifecycle", "book", r[1], r[2])
  <2>1. next.at = "book" /\ next.who = "lifecycle" /\ Result(next) = r
    BY <1>r, JobFields
  <2>2. SaveGroup(r, "CLOSED", next) /\ "CLOSED" \in GroupStates
    BY <1>2 DEF CloseOpen, GroupStates
  <2> HIDE DEF next
  <2>3. \A m : m.groups[r] = "CLOSED" => RunFits(m, next)
    BY <2>1 DEF RunFits, BookSteps
  <2> QED BY <2>2, <2>3, GroupFunding
<1>3. CASE Recover(r)
  <2> DEFINE next == Job("recovery", "recovered", r[1], r[2])
  <2>1. next.at = "recovered" /\ next.who = "recovery" /\ Result(next) = r
    BY <1>r, JobFields
  <2>2. /\ mem.journal[r].state = "SHARED_RECOVERY_STAGED" /\ "CLOSED" \in GroupStates
        /\ \/ SaveGroup(r, "CLOSED", next)
           \/ mem.groups[r] # "NONE" /\ Goes(next)
    BY <1>3 DEF Recover, GroupStates
  <2> HIDE DEF next
  <2>3. \A m : m.groups[r] # "NONE" /\ m.journal = mem.journal => RunFits(m, next)
    BY <2>1, <2>2 DEF RunFits, BookSteps
  <2> QED BY <2>2, <2>3, GroupFunding, GoesFunding
<1> QED BY <1>1, <1>2, <1>3 DEF Scan

\* After a crash the stores of the disk fit as those of the memory did.
LEMMA CrashFunding ==
  ASSUME Owning, Booking, Funding, Crash
  PROVE  Funding' /\ FundedCapture
<1>1. mem' = disk /\ disk' = disk /\ job' = Job("restart", "restart", 0, 0)
  BY DEF Crash
<1>2. Agreeing'
  BY <1>1 DEF Agreeing
<1>3. StoreFits(disk)
  <2>1. \A p \in Plans : /\ Accounted(disk, p) <=> Accounted(mem, p)
                         /\ Settled(disk, p) <=> Settled(mem, p)
                         /\ Completed(disk, p) <=> Completed(mem, p)
    BY DEF Funding, Agreeing, Booking, Accounted, Settled
  <2> QED BY <2>1 DEF Funding, Agreeing, Owning, StoreFits
<1>4. RunFits(disk, Job("restart", "restart", 0, 0))
  BY JobFields DEF RunFits, BookSteps
<1>5. FundedCapture
  BY <1>1 DEF FundedCapture
<1> QED BY <1>1, <1>2, <1>3, <1>4, <1>5 DEF Funding

LEMMA ReconcileFunding ==
  ASSUME Funding, Reconcile
  PROVE  Funding' /\ FundedCapture
<1>1. \A x \in {"reserve", "free"}, p \in Plans : RunFits(mem, Job("restart", x, p, 0))
  BY JobFields DEF RunFits, BookSteps
<1> QED BY <1>1, IdleFits, GoesFunding DEF Reconcile

\* A step that leaves the stores and the run alone.
LEMMA StillFunding ==
  ASSUME Funding, UNCHANGED <<mem, disk, job>>
  PROVE  Funding' /\ FundedCapture
  BY DEF Funding, Agreeing, Completed, FundedCapture

\* The stores and the run fit after every step, and a result is captured only
\* while its plan is funded.
LEMMA FundingNext ==
  ASSUME DurableAppends, Durable, Funding, [Next]_vars
  PROVE  Funding' /\ FundedCapture
<1>t. TypeOK /\ WellFormed(job) /\ Ready /\ Owning /\ Booking
  BY DEF Durable, Inv
<1>1. ASSUME NEW p \in Plans, Enqueue(p) PROVE Funding' /\ FundedCapture
  BY <1>t, <1>1, EnqueueFunding
<1>2. CASE WorkerStarts
  BY <1>t, <1>2, WorkerStartsFunding
<1>3. ASSUME NEW r \in Results, Scan(r) PROVE Funding' /\ FundedCapture
  BY <1>t, <1>3, ScanFunding
<1>4. CASE ReleaseTerminal
  BY <1>t, <1>4, ReleaseTerminalFunding
<1>5. CASE LeaseNext
  BY <1>t, <1>5, LeaseNextFunding
<1>6. CASE Allocate
  BY <1>t, <1>6, AllocateFunding
<1>7. CASE RejectUnallocated \/ NoEvidence \/ SimulationThrows
  BY <1>t, <1>7, AllocatedFunding
<1>8. CASE Capture
  BY <1>t, <1>8, CaptureFunding
<1>9. CASE StageRecovery
  BY <1>t, <1>9, StageRecoveryFunding
<1>10. CASE RecordEntry
  BY <1>t, <1>10, RecordEntryFunding
<1>11. CASE MarkPositionAccounted
  BY <1>t, <1>11, MarkPositionFunding
<1>12. CASE Finish
  BY <1>t, <1>12, FinishFunding
<1>13. CASE Catch
  BY <1>t, <1>13, CatchFunding
<1>14. CASE ReserveCapital \/ ReleaseCapital \/ Post
  BY <1>t, <1>14, AccountFunding
<1>15. CASE Reserved
  BY <1>t, <1>15, ReservedFunding
<1>16. CASE Unbind
  BY <1>t, <1>16, UnbindFunding
<1>17. CASE Released
  BY <1>t, <1>17, ReleasedFunding
<1>18. CASE NoConversion \/ Book \/ Posted
  BY <1>t, <1>18, BookingFunding
<1>19. CASE MarkRecoveryCompleted
  BY <1>t, <1>19, MarkRecoveryFunding
<1>20. CASE Reconcile
  BY <1>20, ReconcileFunding
<1>21. CASE Crash
  BY <1>t, <1>21, CrashFunding
<1>22. CASE Tick \/ UNCHANGED vars
  BY <1>22, StillFunding DEF Tick, vars
<1> QED BY <1>1, <1>2, <1>3, <1>4, <1>5, <1>6, <1>7, <1>8, <1>9, <1>10, <1>11, <1>12, <1>13,
           <1>14, <1>15, <1>16, <1>17, <1>18, <1>19, <1>20, <1>21, <1>22
        DEF Next, Continue, WorkerContinues, CapitalContinues, BookingContinues

\* They fit at the start.
LEMMA FundingInit ==
  ASSUME Init
  PROVE  Funding
<1>1. mem = Empty /\ disk = Empty /\ job = Idle
  BY DEF Init
<1>2. Agreeing
  BY <1>1 DEF Agreeing
<1>3. StoreFits(mem)
  BY <1>1 DEF StoreFits, Completed, Empty, NoQueueRecord, NoJournalRecord
<1>4. RunFits(mem, job)
  BY <1>1, IdleFits
<1> QED BY <1>2, <1>3, <1>4 DEF Funding

\* The inductive invariant of a PAPER path whose appends do not fail.
THEOREM FundingInvariant ==
  DurableAppends => (Spec => [](Durable /\ Funding))
<1> SUFFICES ASSUME DurableAppends PROVE Spec => [](Durable /\ Funding)
  OBVIOUS
<1>1. Init => Durable /\ Funding
  BY DurableInit, FundingInit
<1>2. Durable /\ Funding /\ [Next]_vars => (Durable /\ Funding)'
  BY DurableNext, FundingNext
<1> QED BY <1>1, <1>2, PTL DEF Spec

\* journalBeforeTerminalAcknowledgement: whatever step a crash comes after, a plan
\* that is COMPLETED on disk has an accounted result and its position group there.
THEOREM CompletedStaysJournaled ==
  DurableAppends => (Spec => []CompletedIsJournaled)
<1> SUFFICES ASSUME DurableAppends PROVE Spec => []CompletedIsJournaled
  OBVIOUS
<1>1. ASSUME Funding
      PROVE  CompletedIsJournaled
  <2> SUFFICES ASSUME NEW p \in Plans, disk.queue[p].state = "COMPLETED"
               PROVE  \E r \in ResultsOf(p) :
                        disk.journal[r].state = "POSITION_ACCOUNTED" /\ disk.groups[r] # "NONE"
    BY DEF CompletedIsJournaled
  <2>1. PICK r \in ResultsOf(p) : mem.journal[r].state = "POSITION_ACCOUNTED"
    BY <1>1 DEF Funding, Agreeing, StoreFits, Completed, Accounted
  <2>2. r \in Results
    BY ResultPlan
  <2>3. disk.journal[r].state = "POSITION_ACCOUNTED" /\ disk.groups[r] # "NONE"
    BY <1>1, <2>1, <2>2 DEF Funding, Agreeing, StoreFits
  <2> QED BY <2>3
<1> QED BY <1>1, FundingInvariant, PTL

\* A position is funded until the account has its profit: a completed plan whose
\* only result is not posted yet still has its capital, whatever crash or release
\* of terminal capital came between.
THEOREM PositionsStayFunded ==
  DurableAppends => (Spec => []PositionsAreFunded)
<1> SUFFICES ASSUME DurableAppends PROVE Spec => []PositionsAreFunded
  OBVIOUS
<1>1. ASSUME Durable, Funding
      PROVE  PositionsAreFunded
  <2> SUFFICES ASSUME NEW p \in Plans, disk.queue[p].state = "COMPLETED",
                      Cardinality({r \in ResultsOf(p) : disk.groups[r] # "NONE"}) = 1,
                      \E r \in ResultsOf(p) : Unposted(r)
               PROVE  p \in Held
    BY DEF PositionsAreFunded
  <2> DEFINE G == {r \in ResultsOf(p) : disk.groups[r] # "NONE"}
  <2>1. IsFiniteSet(G)
    <3> DEFINE A == {p}
               B == 1..MaxAttempts
    <3>1. IsFiniteSet(A)
      BY FS_Singleton
    <3>2. IsFiniteSet(B)
      BY FS_Interval, BoundsAssumption
    <3>3. ResultsOf(p) = A \X B
      BY DEF ResultsOf
    <3> HIDE DEF A, B
    <3>4. IsFiniteSet(ResultsOf(p))
      BY <3>1, <3>2, <3>3, FS_Product
    <3> QED BY <3>4, FS_Subset
  <2>2. PICK q : G = {q}
    BY <2>1, FS_Singleton
  <2>3. ~Settled(mem, p)
    <3>1. PICK u \in ResultsOf(p) : Unposted(u)
      OBVIOUS
    <3>2. u = q /\ mem.books[q].state # "ACCOUNT_POSTED"
      BY <2>2, <3>1 DEF Unposted
    <3>3. \A r \in ResultsOf(p) : mem.groups[r] # "NONE" => r = q
      BY <1>1, <2>2 DEF Funding, Agreeing
    <3> QED BY <3>2, <3>3 DEF Settled
  <2>4. mem.alloc[p] = "ACTIVE"
    BY <1>1, <2>3 DEF Funding, Agreeing, StoreFits, Completed
  <2> QED BY <1>1, <2>4 DEF Durable, Owning
<1> QED BY <1>1, FundingInvariant, PTL

\* durableCapitalBeforeSimulation: no step journals a result of a plan for which the
\* account does not hold the capital on an allocation that is ACTIVE on disk.
THEOREM ResultsStayFunded ==
  DurableAppends => (Spec => ResultsAreFunded)
<1> SUFFICES ASSUME DurableAppends PROVE Spec => ResultsAreFunded
  OBVIOUS
<1>1. Durable /\ Funding /\ [Next]_vars => FundedCapture
  BY FundingNext
<1>2. Durable /\ Funding /\ [Next]_vars =>
        [\A r \in Results :
           disk.journal[r].state = "NONE" /\ disk'.journal[r].state # "NONE"
             => r[1] \in Held /\ disk.alloc[r[1]] = "ACTIVE"]_vars
  BY <1>1 DEF FundedCapture, Durable, Owning
<1> QED BY <1>2, FundingInvariant, PTL DEF Spec, ResultsAreFunded

-----------------------------------------------------------------------------
(* What the account's capital is made of *)

\* The profit of the posted transactions P under the accounting records b.
Earned(b, P) == MapThenSumSet(LAMBDA t : b[t[1]].profit, P)
ProfitOf(b, P) == [t \in P |-> b[t[1]].profit]

\* A profit is an integer.
LEMMA ProfitIsInt ==
  ASSUME NEW r \in BookRecords
  PROVE  r.profit \in Int
<1>1. CASE r \in [state : {"NONE"}, path : {"NONE"}, profit : {0}]
  BY <1>1
<1>2. CASE r \in [state : {"PENDING_ACCOUNT_POST", "ACCOUNT_POSTED"}, path : Paths, profit : Profits]
  BY <1>2, MoneyAssumption
<1> QED BY <1>1, <1>2 DEF BookRecords

\* It is the total of a function, so that the facts about totals apply.
LEMMA EarnedIsTotal ==
  ASSUME NEW b \in [Results -> BookRecords], NEW P \in SUBSET (Results \X Paths), IsFiniteSet(P)
  PROVE  ProfitOf(b, P) \in [P -> Int] /\ Earned(b, P) = Total(ProfitOf(b, P), P)
<1>1. ProfitOf(b, P) \in [P -> Int]
  <2>1. \A t \in P : b[t[1]] \in BookRecords
    OBVIOUS
  <2> QED BY <2>1, ProfitIsInt DEF ProfitOf
<1> DEFINE f == ProfitOf(b, P)
<1>2. PICK g : Sums(g, P, f) /\ Total(f, P) = g[P]
  BY <1>1, TotalIsSum
<1> DEFINE iter[s \in SUBSET P] ==
             IF s = {} THEN 0
             ELSE LET x == CHOOSE x \in s : TRUE IN b[x[1]].profit + iter[s \ {x}]
<1>3. Earned(b, P) = iter[P]
  BY DEF Earned, MapThenSumSet, MapThenFoldSet
<1>4. iter = [s \in SUBSET P |->
               IF s = {} THEN 0
               ELSE LET x == CHOOSE x \in s : TRUE IN b[x[1]].profit + iter[s \ {x}]]
  <2>1. g = [s \in SUBSET P |-> g[s]]
    BY <1>2 DEF Sums
  <2>2. ASSUME NEW s \in SUBSET P
        PROVE  g[s] = IF s = {} THEN 0
                      ELSE LET x == CHOOSE x \in s : TRUE IN b[x[1]].profit + g[s \ {x}]
    <3>1. s # {} => f[First(s)] = b[First(s)[1]].profit
      BY FirstIsIn DEF ProfitOf
    <3>2. g[s] = IF s = {} THEN 0 ELSE f[First(s)] + g[s \ {First(s)}]
      BY <1>2 DEF Sums, Adds
    <3> HIDE DEF f
    <3> QED BY <3>1, <3>2 DEF First
  <2>3. g = [s \in SUBSET P |->
               IF s = {} THEN 0
               ELSE LET x == CHOOSE x \in s : TRUE IN b[x[1]].profit + g[s \ {x}]]
    BY <2>1, <2>2
  <2> QED BY <2>3
<1> HIDE DEF iter
<1>5. Adds(iter, P, f)
  <2>1. \A s \in SUBSET P : s # {} => f[First(s)] = b[First(s)[1]].profit
    BY FirstIsIn DEF ProfitOf
  <2> HIDE DEF f
  <2>2. \A s \in SUBSET P :
          iter[s] = IF s = {} THEN 0 ELSE b[First(s)[1]].profit + iter[s \ {First(s)}]
    BY <1>4 DEF First
  <2> QED BY <2>1, <2>2 DEF Adds
<1>6. iter[P] = g[P]
  <2>1. P \in SUBSET P /\ P \subseteq P
    OBVIOUS
  <2> HIDE DEF f
  <2> QED BY <1>1, <1>2, <1>5, <2>1, SumsAgree DEF Sums, f
<1> QED BY <1>1, <1>2, <1>3, <1>6

\* Records that agree on the posted profits earn the same.
LEMMA EarnedSame ==
  ASSUME NEW b \in [Results -> BookRecords], NEW c \in [Results -> BookRecords],
         NEW P \in SUBSET (Results \X Paths), IsFiniteSet(P),
         \A t \in P : b[t[1]].profit = c[t[1]].profit
  PROVE  Earned(b, P) = Earned(c, P) /\ Earned(b, P) \in Int
<1>1. ProfitOf(b, P) = ProfitOf(c, P)
  BY DEF ProfitOf
<1>2. Earned(b, P) = Total(ProfitOf(b, P), P) /\ Earned(c, P) = Total(ProfitOf(c, P), P)
  BY EarnedIsTotal
<1>3. Total(ProfitOf(b, P), P) \in Int
  BY EarnedIsTotal, TotalType
<1> QED BY <1>1, <1>2, <1>3

\* A transaction posted for the first time earns its profit.
LEMMA EarnedMore ==
  ASSUME NEW b \in [Results -> BookRecords],
         NEW P \in SUBSET (Results \X Paths), IsFiniteSet(P),
         NEW x \in Results \X Paths, x \notin P
  PROVE  Earned(b, P \cup {x}) = Earned(b, P) + b[x[1]].profit
<1> DEFINE Q == P \cup {x}
           f == ProfitOf(b, P)
           f2 == ProfitOf(b, Q)
<1>1. Q \in SUBSET (Results \X Paths) /\ IsFiniteSet(Q)
  BY FS_AddElement
<1>2. (\A y \in P : f[y] = f2[y]) /\ f2[x] = b[x[1]].profit
  BY DEF ProfitOf
<1> HIDE DEF Q, f, f2
<1>3. f \in [P -> Int] /\ f2 \in [Q -> Int]
  BY <1>1, EarnedIsTotal DEF f, f2
<1>4. Earned(b, P) = Total(f, P) /\ Earned(b, Q) = Total(f2, Q)
  BY <1>1, EarnedIsTotal DEF f, f2
<1>5. Total(f2, Q) = Total(f, P) + f2[x]
  BY <1>2, <1>3, TotalAdd DEF Q
<1> QED BY <1>2, <1>4, <1>5 DEF Q

\* The losses posted so far are covered by the capital and the gains: the clamp of
\* recordProfit() at zero has absorbed nothing.
Solvent == InitialCapital + Earned(disk.books, ledger.posted) >= 0

\* CapitalIsExplained, of finitely many transactions.
Explaining ==
  /\ IsFiniteSet(ledger.posted)
  /\ account.current = InitialCapital + Earned(disk.books, ledger.posted)

\* Steps that post nothing, and keep the profit of what is posted.
LEMMA SameExplaining ==
  ASSUME TypeOK, TypeOK', Explaining, account'.current = account.current,
         ledger'.posted = ledger.posted,
         \A t \in ledger.posted : disk'.books[t[1]].profit = disk.books[t[1]].profit
  PROVE  Explaining'
<1>1. /\ disk.books \in [Results -> BookRecords] /\ disk'.books \in [Results -> BookRecords]
      /\ ledger.posted \in SUBSET (Results \X Paths)
  BY DEF TypeOK, Stores, Ledgers
<1> DEFINE b == disk.books
           c == disk'.books
           P == ledger.posted
<1>2. IsFiniteSet(P) /\ \A t \in P : b[t[1]].profit = c[t[1]].profit
  BY DEF Explaining
<1>3. account'.current = InitialCapital + Earned(b, P)
  BY DEF Explaining
<1>4. b \in [Results -> BookRecords] /\ c \in [Results -> BookRecords] /\ P \in SUBSET (Results \X Paths)
  BY <1>1
<1> HIDE DEF b, c, P
<1>5. Earned(b, P) = Earned(c, P)
  BY <1>2, <1>4, EarnedSame
<1>6. account'.current = InitialCapital + Earned(c, P)
  BY <1>3, <1>5
<1> QED BY <1>2, <1>6 DEF Explaining, b, c, P

\* The steps other than those of the booking leave profits and capital alone.
LEMMA CapitalExplaining ==
  ASSUME Durable, TypeOK', Explaining,
         ReserveCapital \/ ReleaseCapital \/ Allocate \/ Reserved \/ Unbind \/ Released
  PROVE  Explaining'
<1>t. TypeOK /\ WellFormed(job) /\ job.plan \in Plans
  BY DEF Durable, Inv, WellFormed, ReserveCapital, ReleaseCapital, Allocate, Reserved, Unbind, Released
<1>1. CASE ReserveCapital \/ ReleaseCapital
  <2>1. disk' = disk /\ ledger'.posted = ledger.posted /\ account'.current = account.current
    BY <1>1, <1>t DEF ReserveCapital, ReleaseCapital, Reserve, Release, TypeOK, Accounts, Ledgers
  <2> QED BY <1>t, <2>1, SameExplaining
<1>2. CASE Allocate \/ Reserved \/ Unbind \/ Released
  <2>1. UNCHANGED <<account, ledger>>
    BY <1>2 DEF Allocate, Reserved, Unbind, Released
  <2>2. disk'.books = disk.books
    <3>1. ASSUME NEW s, NEW next, SaveAlloc(s, next)
          PROVE  disk'.books = disk.books
      <4> DEFINE v == [mem.alloc EXCEPT ![job.plan] = s]
      <4>1. disk' = disk \/ disk' = [disk EXCEPT !.alloc = v]
        BY <3>1 DEF SaveAlloc, Save
      <4>2. disk \in Stores
        BY <1>t DEF TypeOK
      <4> HIDE DEF v
      <4> QED BY <4>1, <4>2 DEF Stores
    <3>2. CASE disk' = disk
      BY <3>2
    <3>3. CASE Allocate
      BY <3>1, <3>2, <3>3 DEF Allocate, Goes
    <3>4. CASE Reserved
      BY <3>1, <3>4 DEF Reserved
    <3>5. CASE Unbind
      BY <3>1, <3>2, <3>5 DEF Unbind, Goes
    <3>6. CASE Released
      BY <3>1, <3>6 DEF Released
    <3> QED BY <1>2, <3>3, <3>4, <3>5, <3>6
  <2> QED BY <1>t, <2>1, <2>2, SameExplaining
<1> QED BY <1>1, <1>2

\* A record is booked before it is posted, and keeps its profit afterwards.
LEMMA BookExplaining ==
  ASSUME DurableAppends, Durable, TypeOK', Explaining, Book \/ Posted
  PROVE  Explaining'
<1>t. TypeOK /\ WellFormed(job) /\ Booking /\ UNCHANGED <<account, ledger>> /\ TheResult \in Results
  <2>1. job.at \in OfResult
    BY DEF Book, Posted, OfResult
  <2> QED BY <2>1, AtResult DEF Durable, Inv, Book, Posted
<1>b. disk.books \in [Results -> BookRecords] /\ TheBook = disk.books[TheResult]
  BY <1>t DEF TypeOK, Stores, TheBook, Booking
<1>p. \A t \in ledger.posted : t[1] \in Results /\ disk.books[t[1]].state # "NONE"
  BY <1>t DEF TypeOK, Ledgers, Booking, PostedIsBooked
<1>1. CASE UNCHANGED disk
  BY <1>t, <1>1, SameExplaining
<1>2. ASSUME NEW c, NEW next, SaveBook(c, next),
             TheBook.state = "NONE" \/ c.profit = TheBook.profit
      PROVE  Explaining'
  <2> DEFINE v == [disk.books EXCEPT ![TheResult] = c]
  <2>1. disk'.books = v
    <3>1. mem.books = disk.books
      BY <1>t DEF Booking
    <3>2. disk' = [disk EXCEPT !.books = v]
      BY <1>2, <3>1, SavedDurably DEF SaveBook
    <3> HIDE DEF v
    <3> QED BY <1>t, <3>2, Replaced DEF TypeOK
  <2>2. \A r \in Results : v[r] = IF r = TheResult THEN c ELSE disk.books[r]
    BY <1>b
  <2> HIDE DEF v
  <2>3. \A t \in ledger.posted : disk'.books[t[1]].profit = disk.books[t[1]].profit
    BY <1>2, <1>b, <1>p, <2>1, <2>2
  <2> QED BY <1>t, <2>3, SameExplaining
<1>3. CASE Book
  <2>1. \/ UNCHANGED disk
        \/ TheBook.state = "NONE" /\ \E c, next : SaveBook(c, next)
    BY <1>3 DEF Book, Goes
  <2> QED BY <1>1, <1>2, <2>1
<1>4. CASE Posted
  <2>1. [TheBook EXCEPT !.state = "ACCOUNT_POSTED"].profit = TheBook.profit
    BY <1>b, <1>t DEF BookRecords
  <2> QED BY <1>2, <1>4, <2>1 DEF Posted
<1> QED BY <1>3, <1>4

\* The posting itself adds the profit of its record, which is not clamped while the
\* account is solvent.
LEMMA PostExplaining ==
  ASSUME DurableAppends, Durable, TypeOK', Explaining, Solvent', Post
  PROVE  Explaining'
<1>t. TypeOK /\ WellFormed(job) /\ Booking /\ disk' = disk /\ TheResult \in Results
  <2>1. job.at \in OfResult
    BY DEF Post, OfResult
  <2> QED BY <2>1, AtResult DEF Durable, Inv, Post
<1>1. CASE UNCHANGED <<account, ledger>>
  BY <1>t, <1>1, SameExplaining
<1>2. CASE /\ Transaction \notin ledger.posted
           /\ account' = RecordProfit(account, TheBook.profit)
           /\ ledger' = [ledger EXCEPT !.posted = @ \cup {Transaction}]
  <2> DEFINE b == disk.books
             P == ledger.posted
             x == Transaction
             profit == b[x[1]].profit
  <2>1. /\ b \in [Results -> BookRecords] /\ P \in SUBSET (Results \X Paths) /\ IsFiniteSet(P)
        /\ ledger'.posted = P \cup {x} /\ x \notin P
    BY <1>t, <1>2 DEF TypeOK, Stores, Ledgers, Explaining
  <2>2. x \in Results \X Paths /\ x[1] = TheResult
    <3>1. ledger'.posted \in SUBSET (Results \X Paths)
      BY DEF TypeOK, Ledgers
    <3> QED BY <2>1, <3>1 DEF Transaction
  <2>3. TheBook.profit = profit
    BY <1>t, <2>2 DEF TheBook, Booking
  <2>4. profit \in Int
    <3>1. b[x[1]] \in BookRecords
      BY <2>1, <2>2
    <3> QED BY <3>1, ProfitIsInt
  <2>5. account'.current = Greater(0, account.current + TheBook.profit)
    BY <1>t, <1>2 DEF RecordProfit, TypeOK, Accounts
  <2>6. account.current = InitialCapital + Earned(b, P)
    BY DEF Explaining
  <2>7. InitialCapital + Earned(b, P \cup {x}) >= 0
    BY <1>t, <2>1 DEF Solvent
  <2> HIDE DEF b, P, x, profit
  <2>8. Earned(b, P \cup {x}) = Earned(b, P) + b[x[1]].profit
    BY <2>1, <2>2, EarnedMore
  <2>9. Earned(b, P) \in Int
    BY <2>1, EarnedSame
  <2>10. account'.current = InitialCapital + Earned(b, P \cup {x})
    BY <2>3, <2>4, <2>5, <2>6, <2>7, <2>8, <2>9, MoneyAssumption DEF Greater, profit
  <2>11. IsFiniteSet(P \cup {x})
    BY <2>1, FS_AddElement
  <2> QED BY <1>t, <2>1, <2>10, <2>11 DEF Explaining, b
<1> QED BY <1>1, <1>2 DEF Post

LEMMA ExplainingNext ==
  ASSUME DurableAppends, Durable, Explaining, Solvent', [Next]_vars
  PROVE  Explaining'
<1>t. TypeOK /\ WellFormed(job) /\ TypeOK'
  BY InvNext DEF Durable, Inv
<1>1. CASE Calm
  <2>1. Quiet
    BY <1>t, <1>1, CalmQuiet
  <2> QED BY <1>t, <2>1, SameExplaining DEF Quiet
<1>2. CASE ReserveCapital \/ ReleaseCapital \/ Allocate \/ Reserved \/ Unbind \/ Released
  BY <1>t, <1>2, CapitalExplaining
<1>3. CASE Book \/ Posted
  BY <1>t, <1>3, BookExplaining
<1>4. CASE Post
  BY <1>t, <1>4, PostExplaining
<1>5. CASE Crash \/ Reconcile \/ UNCHANGED vars
  <2>1. UNCHANGED <<disk, account, ledger>>
    BY <1>5 DEF Crash, Reconcile, Goes, vars
  <2> QED BY <1>t, <2>1, SameExplaining
<1> QED BY <1>1, <1>2, <1>3, <1>4, <1>5
        DEF Next, Continue, WorkerContinues, CapitalContinues, BookingContinues, Calm

LEMMA ExplainingInit ==
  ASSUME Init
  PROVE  Explaining
<1>1. /\ ledger.posted = {} /\ account.current = InitialCapital
      /\ disk.books \in [Results -> BookRecords]
  BY InvInit DEF Init, EmptyLedger, NewAccount, Inv, TypeOK, Stores
<1> DEFINE b == disk.books
<1>2. b \in [Results -> BookRecords] /\ {} \in SUBSET (Results \X Paths) /\ IsFiniteSet({})
  BY <1>1, FS_EmptySet
<1> HIDE DEF b
<1>3. Earned(b, {}) = 0
  BY <1>2, EarnedIsTotal, TotalEmpty
<1> QED BY <1>1, <1>2, <1>3, MoneyAssumption DEF Explaining, b

\* The capital is what the account started with and the profit of every posted
\* record, through any crashes: nothing is posted twice, lost, or posted with
\* another profit than its record says -- for as long as the losses posted do not
\* exceed the capital and the gains, where recordProfit() stops at zero.
THEOREM CapitalStaysExplained ==
  DurableAppends => (Spec /\ []Solvent => []CapitalIsExplained)
<1> SUFFICES ASSUME DurableAppends PROVE Spec /\ []Solvent => []CapitalIsExplained
  OBVIOUS
<1>1. Init => Explaining
  BY ExplainingInit
<1>2. Durable /\ Explaining /\ Solvent' /\ [Next]_vars => Explaining'
  BY ExplainingNext
<1>3. Explaining => CapitalIsExplained
  BY DEF Explaining, CapitalIsExplained, Earned
<1> QED BY <1>1, <1>2, <1>3, DurableInvariant, PTL DEF Spec

\* A constant reason for solvency: no profit is a loss of more than `loss', and the
\* initial capital covers such a loss for every result there may be.
LossesCovered ==
  \E loss \in Nat : /\ \A x \in Profits : 0 <= x + loss
                    /\ loss * Cardinality(Results) <= InitialCapital

\* A result is posted under the path of its record alone, so no more transactions
\* are posted than there are results.
LEMMA PostedFinite ==
  ASSUME TypeOK, PostedIsBooked
  PROVE  /\ IsFiniteSet(Results) /\ IsFiniteSet(ledger.posted)
         /\ Cardinality(ledger.posted) <= Cardinality(Results)
<1>1. IsFiniteSet(Results)
  <2>1. IsFiniteSet(1..MaxAttempts)
    BY BoundsAssumption, FS_Interval
  <2> DEFINE A == Plans
             B == 1..MaxAttempts
  <2>2. IsFiniteSet(A) /\ IsFiniteSet(B)
    BY <2>1, PlansAssumption
  <2> HIDE DEF A, B
  <2>3. IsFiniteSet(A \X B)
    BY <2>2, FS_Product
  <2> QED BY <2>3 DEF A, B, Results
<1> DEFINE P == ledger.posted
           f == [t \in P |-> t[1]]
<1>2. P \in SUBSET (Results \X Paths) /\ \A t \in P : t[2] = disk.books[t[1]].path
  BY DEF TypeOK, Ledgers, PostedIsBooked
<1>3. \A t, u \in P : t[1] = u[1] => t = u
  BY <1>2
<1> HIDE DEF P
<1>4. f \in [P -> Results] /\ \A t, u \in P : f[t] = f[u] => t = u
  BY <1>2, <1>3
<1> HIDE DEF f
<1>5. f \in Injection(P, Results)
  BY <1>4 DEF Injection, IsInjective
<1>6. IsFiniteSet(P) /\ Cardinality(P) <= Cardinality(Results)
  BY <1>1, <1>5, FS_Injection
<1> QED BY <1>1, <1>6 DEF P

\* Then the account is solvent in every state.
LEMMA CoveredIsSolvent ==
  ASSUME LossesCovered, TypeOK, PostedIsBooked
  PROVE  Solvent
<1>1. PICK loss \in Nat : /\ \A x \in Profits : 0 <= x + loss
                          /\ loss * Cardinality(Results) <= InitialCapital
  BY DEF LossesCovered
<1> DEFINE b == disk.books
           P == ledger.posted
           f == ProfitOf(b, P)
<1>2. /\ b \in [Results -> BookRecords] /\ P \in SUBSET (Results \X Paths)
      /\ \A t \in P : b[t[1]].state # "NONE"
  BY DEF TypeOK, Stores, Ledgers, PostedIsBooked
<1>3. /\ IsFiniteSet(Results) /\ IsFiniteSet(P)
      /\ Cardinality(P) <= Cardinality(Results)
  BY PostedFinite
<1>4. \A t \in P : 0 <= f[t] + loss
  <2>1. \A r \in BookRecords : r.state # "NONE" => r.profit \in Profits
    BY DEF BookRecords
  <2>2. \A t \in P : b[t[1]] \in BookRecords
    BY <1>2
  <2>3. \A t \in P : f[t] \in Profits
    <3> HIDE DEF b, P
    <3> QED BY <1>2, <2>1, <2>2 DEF ProfitOf
  <2> QED BY <1>1, <2>3
<1> HIDE DEF b, P, f
<1>5. f \in [P -> Int] /\ Earned(b, P) = Total(f, P)
  BY <1>2, <1>3, EarnedIsTotal DEF f
<1>6. 0 <= Total(f, P) + loss * Cardinality(P) /\ Total(f, P) \in Int
  BY <1>3, <1>4, <1>5, TotalAtLeast, TotalType
<1>7. loss * Cardinality(P) <= loss * Cardinality(Results)
      /\ loss * Cardinality(P) \in Nat /\ loss * Cardinality(Results) \in Nat
  <2>1. \A c, d \in Nat : c <= d => loss * c <= loss * d /\ loss * c \in Nat /\ loss * d \in Nat
    OBVIOUS
  <2>2. Cardinality(P) \in Nat /\ Cardinality(Results) \in Nat
    BY <1>3, FS_CardinalityType
  <2> QED BY <1>3, <2>1, <2>2
<1>8. InitialCapital + Earned(b, P) >= 0
  BY <1>1, <1>5, <1>6, <1>7, MoneyAssumption
<1> QED BY <1>8 DEF Solvent, b, P

\* So an account that starts with enough for every loss that may come is explained
\* by what was posted, with no further condition on the run.
THEOREM CoveredCapitalIsExplained ==
  DurableAppends /\ LossesCovered => (Spec => []CapitalIsExplained)
<1> SUFFICES ASSUME DurableAppends, LossesCovered PROVE Spec => []CapitalIsExplained
  OBVIOUS
<1>1. Durable => Solvent
  BY CoveredIsSolvent DEF Durable, Inv, Booking
<1>2. Spec => []Durable
  BY DurableInvariant
<1>3. Spec /\ []Solvent => []CapitalIsExplained
  BY CapitalStaysExplained
<1> QED BY <1>1, <1>2, <1>3, PTL
=============================================================================
