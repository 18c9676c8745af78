---------------------- MODULE CentralLiveDispatchProofs ---------------------
(***************************************************************************)
(* Proofs about CentralLiveDispatch, for any number of plans, any windows  *)
(* of authority, any lease length and any number of crashes.  Under every  *)
(* fault: typing, dispatch within authority, one unsettled dispatch, and   *)
(* journals that JsonlSnapshotDisk describes.  With crashes as the only    *)
(* fault: outcomes that agree, handlers that can be traced, settled plans  *)
(* that stay settled, and the promise of module PlanExecution.             *)
(***************************************************************************)
EXTENDS CentralLiveDispatch, JsonlSnapshotStoreTheorems

-----------------------------------------------------------------------------
(* Typing of the building blocks *)

\* The constant records and every value of `turn' have their types.
LEMMA ConstantTypes ==
  /\ NoQueueRecord \in QueueRecords /\ NoJournalRecord \in JournalRecords
  /\ Idle \in Turns
  /\ \A step \in Steps \ {"idle"}, p \in Plans : At(step, p) \in Turns
BY DEF NoQueueRecord, QueueRecords, QueueStates, NoJournalRecord, JournalRecords,
       JournalStates, Outcomes, Idle, At, Turns, Steps

\* Saving the queue keeps its disk inside any set that holds what was saved.
LEMMA QueueSaved ==
  ASSUME NEW S, queueDisk \in DiskOf(S), queue' \in S, NEW then, SaveQueue(then)
  PROVE  queueDisk' \in DiskOf(S) /\ turn' \in {then, Idle}
BY DiskTypes DEF SaveQueue, AppendBreaks

\* The same for the outcome journal.
LEMMA JournalSaved ==
  ASSUME NEW S, journalDisk \in DiskOf(S), journal' \in S, NEW then, SaveJournal(then)
  PROVE  journalDisk' \in DiskOf(S) /\ turn' \in {then, Idle}
BY DiskTypes DEF SaveJournal, AppendBreaks

\* A sweep keeps every queue record well typed.
LEMMA SweptType ==
  ASSUME TypeOK
  PROVE  Swept \in Queues
<1> SUFFICES ASSUME NEW p \in Plans PROVE SweptRecord(p) \in QueueRecords
  BY DEF Swept, Queues
<1>1. queue[p] \in QueueRecords
  BY DEF TypeOK, Queues
<1>2. Requeued(queue[p]) \in QueueRecords /\ Expired(queue[p]) \in QueueRecords
  BY <1>1 DEF Requeued, Expired, QueueRecords, QueueStates
<1> QED BY <1>1, <1>2 DEF SweptRecord

\* What complete() writes is well typed.
LEMMA CompletedType ==
  ASSUME TypeOK, NEW p \in Plans, NEW outcome \in Outcomes, NEW performed \in BOOLEAN
  PROVE  Completed(p, outcome, performed) \in Journals
BY DEF TypeOK, Completed, Journals, JournalRecords, JournalStates

-----------------------------------------------------------------------------
(* Type correctness *)

\* Every step keeps the types.
LEMMA TypeStep == TypeOK /\ [Next]_vars => TypeOK'
<1> SUFFICES ASSUME TypeOK, [Next]_vars PROVE TypeOK'
  OBVIOUS
<1> USE ConstantTypes
<1>q. ASSUME queue' \in Queues, NEW then \in Turns, SaveQueue(then)
      PROVE  queueDisk' \in DiskOf(Queues) /\ turn' \in Turns
  BY <1>q, QueueSaved DEF TypeOK
<1>j. ASSUME journal' \in Journals, NEW then \in Turns, SaveJournal(then)
      PROVE  journalDisk' \in DiskOf(Journals) /\ turn' \in Turns
  BY <1>j, JournalSaved DEF TypeOK
<1>r. \A p \in Plans : queue[p] \in QueueRecords /\ journal[p] \in JournalRecords
  BY DEF TypeOK, Queues, Journals
<1>e. EffectiveExpiry \in [Plans -> Nat] /\ LeaseTtl \in Nat
  BY ExpiryAssumption, BoundsAssumption
<1>1. ASSUME NEW p \in Plans, Enqueue(p) PROVE TypeOK'
  <2>1. queue' \in Queues
    BY <1>1, SweptType DEF Enqueue, NewQueueRecord, NoQueueRecord, Queues, QueueRecords,
                           QueueStates, TypeOK
  <2>2. queueDisk' \in DiskOf(Queues) /\ turn' \in Turns
    BY <1>1, <2>1, <1>q DEF Enqueue
  <2> QED BY <1>1, <2>1, <2>2 DEF Enqueue, TypeOK
<1>2. ASSUME NEW p \in Plans, EnqueueAtCapacity(p) PROVE TypeOK'
  BY <1>2, SweptType DEF EnqueueAtCapacity, TypeOK
<1>3. CASE SweepIdle
  <2>1. queueDisk' \in DiskOf(Queues) /\ turn' \in Turns
    BY <1>3, SweptType, <1>q DEF SweepIdle
  <2> QED BY <1>3, <2>1, SweptType DEF SweepIdle, TypeOK
<1>4. ASSUME NEW p \in Plans, ResumeDispatching(p) \/ ResumePending(p) PROVE TypeOK'
  BY <1>4 DEF ResumeDispatching, ResumePending, stores, TypeOK, Steps
<1>5. ASSUME NEW p \in Plans, LeaseNext(p) PROVE TypeOK'
  <2>1. Least(clock + LeaseTtl, EffectiveExpiry[p]) \in Nat
    BY <1>e DEF Least, TypeOK
  <2> DEFINE leased == [Swept[p] EXCEPT !.state = "LEASED", !.leasedAt = clock,
                          !.leaseExpiresAt = Least(clock + LeaseTtl, EffectiveExpiry[p])]
  <2>a. leased \in QueueRecords
    BY <2>1, SweptType DEF Queues, QueueRecords, QueueStates, TypeOK
  <2>b. queue' = [Swept EXCEPT ![p] = leased]
    BY <1>5, SweptType DEF LeaseNext, Queues
  <2>2. queue' \in Queues
    BY <2>a, <2>b, SweptType DEF Queues
  <2>3. At("begin", p) \in Turns
    BY DEF Steps
  <2>4. queueDisk' \in DiskOf(Queues) /\ turn' \in Turns
    BY <1>5, <2>2, <2>3, <1>q DEF LeaseNext
  <2> QED BY <1>5, <2>2, <2>4 DEF LeaseNext, TypeOK
<1>6. ASSUME NEW p \in Plans, BeginJournal(p) PROVE TypeOK'
  <2>1. At("dispatch", p) \in Turns
    BY DEF Steps
  <2>2. CASE UNCHANGED stores
    BY <1>6, <2>1, <2>2 DEF BeginJournal, Throw, stores, TypeOK, SaveJournal
  <2>3. CASE ~UNCHANGED stores
    <3>1. /\ journal' = [journal EXCEPT ![p] =
               [NoJournalRecord EXCEPT !.state = "STARTED", !.startedAt = clock]]
          /\ SaveJournal(At("dispatch", p))
          /\ UNCHANGED <<queue, queueDisk>>
      BY <1>6, <2>3 DEF BeginJournal, Throw
    <3>2. journal' \in Journals
      BY <3>1 DEF NoJournalRecord, Journals, JournalRecords, JournalStates, TypeOK
    <3>3. journalDisk' \in DiskOf(Journals) /\ turn' \in Turns
      BY <3>1, <3>2, <2>1, <1>j
    <3> QED BY <1>6, <3>1, <3>2, <3>3 DEF BeginJournal, TypeOK
  <2> QED BY <2>2, <2>3
<1>7. ASSUME NEW p \in Plans, BeginDispatch(p) PROVE TypeOK'
  <2>1. CASE Throw
    BY <1>7, <2>1 DEF BeginDispatch, Throw, stores, TypeOK
  <2>2. CASE ~Throw
    <3>1. /\ queue' = [queue EXCEPT ![p].state = "DISPATCHING",
                                    ![p].dispatchStartedAt = journal[p].startedAt,
                                    ![p].leasedAt = 0,
                                    ![p].leaseExpiresAt = 0]
          /\ SaveQueue(At("resume", p))
          /\ UNCHANGED <<journal, journalDisk>>
      BY <1>7, <2>2 DEF BeginDispatch
    <3> DEFINE started == [queue[p] EXCEPT !.state = "DISPATCHING",
                             !.dispatchStartedAt = journal[p].startedAt,
                             !.leasedAt = 0, !.leaseExpiresAt = 0]
    <3>a. started \in QueueRecords
      BY <1>r DEF QueueRecords, QueueStates, JournalRecords
    <3>b. queue' = [queue EXCEPT ![p] = started]
      BY <3>1 DEF TypeOK, Queues
    <3>2. queue' \in Queues
      BY <3>a, <3>b DEF Queues, TypeOK
    <3>3. At("resume", p) \in Turns
      BY DEF Steps
    <3>4. queueDisk' \in DiskOf(Queues) /\ turn' \in Turns
      BY <3>1, <3>2, <3>3, <1>q
    <3> QED BY <1>7, <3>1, <3>2, <3>4 DEF BeginDispatch, TypeOK
  <2> QED BY <2>1, <2>2
<1>8. ASSUME NEW p \in Plans, ResumeTerminal(p) PROVE TypeOK'
  BY <1>8 DEF ResumeTerminal, stores, TypeOK, Steps
<1>9. ASSUME NEW p \in Plans, CallHandler(p) PROVE TypeOK'
  BY <1>9 DEF CallHandler, stores, TypeOK
<1>10. ASSUME NEW p \in Plans, NEW outcome \in Outcomes, NEW performed \in BOOLEAN,
              journal' = Completed(p, outcome, performed),
              SaveJournal(At("acknowledge", p))
       PROVE  journal' \in Journals /\ journalDisk' \in DiskOf(Journals) /\ turn' \in Turns
  <2>1. journal' \in Journals
    BY <1>10, CompletedType
  <2>2. At("acknowledge", p) \in Turns
    BY DEF Steps
  <2> QED BY <1>10, <2>1, <2>2, <1>j
<1>11. ASSUME NEW p \in Plans, ResumeUnregistered(p) PROVE TypeOK'
  <2>1. journal' \in Journals /\ journalDisk' \in DiskOf(Journals) /\ turn' \in Turns
    BY <1>11, <1>10 DEF ResumeUnregistered, Outcomes
  <2> QED BY <1>11, <2>1 DEF ResumeUnregistered, TypeOK
<1>12. ASSUME NEW p \in Plans, Returned(p) PROVE inFlight' \in [Plans -> Nat]
  BY <1>12 DEF Returned, TypeOK
<1>13. ASSUME NEW p \in Plans, SubmitOrder(p) \/ HandlerThrows(p) PROVE TypeOK'
  <2>1. CASE SubmitOrder(p)
    BY <2>1 DEF SubmitOrder, stores, TypeOK
  <2>2. CASE HandlerThrows(p)
    BY <2>2, <1>12 DEF HandlerThrows, stores, TypeOK
  <2> QED BY <1>13, <2>1, <2>2
<1>14. ASSUME NEW p \in Plans, HandlerMonitors(p) PROVE TypeOK'
  <2>1. CASE Throw
    BY <1>14, <2>1, <1>12 DEF HandlerMonitors, Throw, stores, TypeOK
  <2>2. CASE ~Throw
    <3>1. /\ journal' = [journal EXCEPT ![p].orderSubmissionPerformed = (p \in submitted)]
          /\ SaveJournal(At("progress", p))
          /\ UNCHANGED <<queue, queueDisk>>
      BY <1>14, <2>2 DEF HandlerMonitors
    <3>a. (p \in submitted) \in BOOLEAN
      OBVIOUS
    <3> DEFINE performed == p \in submitted
    <3>2. journal' \in Journals
      <4>1. journal' = [journal EXCEPT ![p].orderSubmissionPerformed = performed]
        BY <3>1
      <4>2. performed \in BOOLEAN
        BY <3>a
      <4> HIDE DEF performed
      <4> QED BY <4>1, <4>2 DEF Journals, JournalRecords, TypeOK
    <3>3. At("progress", p) \in Turns
      BY DEF Steps
    <3>4. journalDisk' \in DiskOf(Journals) /\ turn' \in Turns
      BY <3>1, <3>2, <3>3, <1>j
    <3> QED BY <1>14, <1>12, <3>1, <3>2, <3>4 DEF HandlerMonitors, TypeOK
  <2> QED BY <2>1, <2>2
<1>15. ASSUME NEW p \in Plans, NEW outcome \in Outcomes, HandlerFinishes(p, outcome)
       PROVE  TypeOK'
  <2>1. CASE Throw
    BY <1>15, <2>1, <1>12 DEF HandlerFinishes, Throw, stores, TypeOK
  <2>2. CASE ~Throw
    <3> DEFINE performed == p \in submitted
    <3>a. /\ journal' = Completed(p, outcome, performed)
          /\ SaveJournal(At("acknowledge", p))
      BY <1>15, <2>2 DEF HandlerFinishes
    <3>b. performed \in BOOLEAN
      OBVIOUS
    <3>1. journal' \in Journals /\ journalDisk' \in DiskOf(Journals) /\ turn' \in Turns
      <4> HIDE DEF performed
      <4> QED BY <3>a, <3>b, <1>10
    <3> QED BY <1>15, <2>2, <1>12, <3>1 DEF HandlerFinishes, TypeOK
  <2> QED BY <2>1, <2>2
<1>16. ASSUME NEW p \in Plans, RecordProgress(p) PROVE TypeOK'
  <2>1. CASE Throw
    BY <1>16, <2>1 DEF RecordProgress, Throw, stores, TypeOK
  <2>2. CASE ~Throw
    <3>1. /\ queue' = [queue EXCEPT ![p].orderSubmissionPerformed =
                         @ \/ journal[p].orderSubmissionPerformed]
          /\ SaveQueue(Idle)
          /\ UNCHANGED <<journal, journalDisk>>
      BY <1>16, <2>2 DEF RecordProgress
    <3> DEFINE performed == queue[p].orderSubmissionPerformed
                              \/ journal[p].orderSubmissionPerformed
    <3>2. queue' \in Queues
      <4>1. queue' = [queue EXCEPT ![p].orderSubmissionPerformed = performed]
        BY <3>1
      <4>2. performed \in BOOLEAN
        OBVIOUS
      <4> HIDE DEF performed
      <4> QED BY <4>1, <4>2 DEF Queues, QueueRecords, TypeOK
    <3>3. queueDisk' \in DiskOf(Queues) /\ turn' \in Turns
      BY <3>1, <3>2, <1>q
    <3> QED BY <1>16, <3>1, <3>2, <3>3 DEF RecordProgress, TypeOK
  <2> QED BY <2>1, <2>2
<1>17. ASSUME NEW p \in Plans, AcknowledgeDispatch(p) PROVE TypeOK'
  <2>1. CASE Throw
    BY <1>17, <2>1 DEF AcknowledgeDispatch, Throw, stores, TypeOK
  <2>2. CASE ~Throw
    <3>1. /\ queue' = [queue EXCEPT
               ![p].state = QueueOutcome(journal[p].outcome),
               ![p].orderSubmissionPerformed = journal[p].orderSubmissionPerformed]
          /\ SaveQueue(Idle)
          /\ UNCHANGED <<journal, journalDisk>>
      BY <1>17, <2>2 DEF AcknowledgeDispatch
    <3>a. /\ QueueOutcome(journal[p].outcome) \in QueueStates
          /\ journal[p].orderSubmissionPerformed \in BOOLEAN
      BY <1>r DEF QueueStates, QueueOutcome, JournalRecords
    <3>2. queue' \in Queues
      BY <3>1, <3>a DEF Queues, QueueRecords, TypeOK
    <3>3. queueDisk' \in DiskOf(Queues) /\ turn' \in Turns
      BY <3>1, <3>2, <1>q
    <3> QED BY <1>17, <3>1, <3>2, <3>3 DEF AcknowledgeDispatch, TypeOK
  <2> QED BY <2>1, <2>2
<1>18. CASE Restart
  <2>1. NoQueue \in Queues /\ NoJournal \in Journals
    BY DEF NoQueue, NoJournal, Queues, Journals
  <2>2. queue' \in Queues /\ journal' \in Journals
    BY <1>18, <2>1, ReadTypes DEF Restart, TypeOK
  <2>3. registered' \in SUBSET Plans
    BY <1>18, BoundsAssumption DEF Restart, TypeOK
  <2> QED BY <1>18, <2>2, <2>3 DEF Restart, TypeOK
<1>19. CASE Tick
  BY <1>19 DEF Tick, stores, TypeOK
<1>20. CASE UNCHANGED vars
  BY <1>20 DEF vars, TypeOK
<1> QED BY <1>1, <1>2, <1>3, <1>4, <1>5, <1>6, <1>7, <1>8, <1>9, <1>11, <1>13, <1>14,
           <1>15, <1>16, <1>17, <1>18, <1>19, <1>20
        DEF Next, Intake, StartRun, Continue, Handler

\* The initial state is well typed.
LEMMA InitTyped == Init => TypeOK
<1>1. NoQueue \in Queues /\ NoJournal \in Journals
  BY ConstantTypes DEF NoQueue, NoJournal, Queues, Journals
<1>2. \A S : \A s \in S : Settled(s) \in DiskOf(S)
  BY DEF Settled, DiskOf, TailKinds
<1> QED BY <1>1, <1>2, ConstantTypes DEF Init, TypeOK

\* The variables keep their types, whatever crashes, appends that fail and
\* handlers that throw.
THEOREM TypeCorrect == Spec => []TypeOK
<1>1. Init => TypeOK
  BY InitTyped
<1>2. TypeOK /\ [Next]_vars => TypeOK'
  BY TypeStep
<1> QED BY <1>1, <1>2, PTL DEF Spec

-----------------------------------------------------------------------------
(* Dispatch within the window of authority.  A record keeps its evidence     *)
(* from state to state: the lease lies inside the window, the start of the   *)
(* dispatch inside the lease.  The journal's disk is included because a      *)
(* restart can bring any journaled record back.                              *)

\* What a queue record of plan p guarantees at time t.
Evidenced(p, r, t) ==
  /\ r.state \in {"QUEUED", "LEASED"} => r.queuedAt <= t
  /\ r.state = "LEASED" => r.queuedAt <= r.leasedAt /\ r.leaseExpiresAt <= EffectiveExpiry[p]
  /\ r.state = "DISPATCHING" =>
       /\ r.queuedAt <= r.dispatchStartedAt
       /\ r.dispatchStartedAt <= EffectiveExpiry[p]
       /\ r.dispatchStartedAt <= t

EvidencedQueues(t) == {q \in Queues : \A p \in Plans : Evidenced(p, q[p], t)}

AuthorityInv ==
  /\ TypeOK
  /\ queue \in EvidencedQueues(clock)
  /\ queueDisk \in DiskOf(EvidencedQueues(clock))

\* Replacing one record by an evidenced one leaves an evidenced queue.
LEMMA EvidencedUpdate ==
  ASSUME NEW t, NEW q \in EvidencedQueues(t), NEW p \in Plans, NEW r \in QueueRecords,
         Evidenced(p, r, t)
  PROVE  [q EXCEPT ![p] = r] \in EvidencedQueues(t)
BY DEF EvidencedQueues, Queues

\* A sweep neither invents nor loses evidence.
LEMMA SweptEvidenced ==
  ASSUME AuthorityInv
  PROVE  Swept \in EvidencedQueues(clock)
<1>1. Swept \in Queues
  BY SweptType DEF AuthorityInv
<1> SUFFICES ASSUME NEW p \in Plans PROVE Evidenced(p, SweptRecord(p), clock)
  BY <1>1 DEF Swept, EvidencedQueues
<1>2. queue[p] \in QueueRecords /\ Evidenced(p, queue[p], clock)
  BY DEF AuthorityInv, EvidencedQueues, Queues
<1> QED BY <1>2 DEF SweptRecord, Requeued, Expired, Evidenced, QueueRecords

\* Saving an evidenced queue keeps the invariant.
LEMMA EvidencedSaved ==
  ASSUME AuthorityInv, TypeOK', queue' \in EvidencedQueues(clock), clock' = clock,
         (\E then : SaveQueue(then)) \/ UNCHANGED queueDisk
  PROVE  AuthorityInv'
<1>1. queueDisk' \in DiskOf(EvidencedQueues(clock))
  BY QueueSaved DEF AuthorityInv
<1> QED BY <1>1 DEF AuthorityInv

\* Every step keeps the invariant.
LEMMA AuthorityStep == AuthorityInv /\ [Next]_vars => AuthorityInv'
<1> SUFFICES ASSUME AuthorityInv, [Next]_vars PROVE AuthorityInv'
  OBVIOUS
<1>t. TypeOK /\ TypeOK'
  BY TypeStep DEF AuthorityInv
<1>n. clock \in Nat /\ \A p \in Plans : EffectiveExpiry[p] \in Nat
  BY <1>t, ExpiryAssumption DEF TypeOK
<1>r. \A p \in Plans : /\ queue[p] \in QueueRecords /\ Evidenced(p, queue[p], clock)
                       /\ journal[p] \in JournalRecords
  BY <1>t DEF AuthorityInv, EvidencedQueues, TypeOK, Queues, Journals
<1>u. ASSUME UNCHANGED <<clock, queue, queueDisk>> PROVE AuthorityInv'
  BY <1>u, <1>t DEF AuthorityInv
<1>1. ASSUME NEW p \in Plans, Enqueue(p) PROVE AuthorityInv'
  <2>a. NewQueueRecord \in QueueRecords
    BY <1>n, ConstantTypes DEF NewQueueRecord, QueueRecords, QueueStates
  <2>b. Evidenced(p, NewQueueRecord, clock)
    BY <1>n DEF NewQueueRecord, NoQueueRecord, Evidenced
  <2>1. NewQueueRecord \in QueueRecords /\ Evidenced(p, NewQueueRecord, clock)
    BY <2>a, <2>b
  <2>2. queue' \in EvidencedQueues(clock)
    BY <1>1, <2>1, SweptEvidenced, EvidencedUpdate DEF Enqueue
  <2> QED BY <1>1, <1>t, <2>2, EvidencedSaved DEF Enqueue
<1>2. ASSUME NEW p \in Plans, EnqueueAtCapacity(p) PROVE AuthorityInv'
  BY <1>2, <1>t, SweptEvidenced, EvidencedSaved DEF EnqueueAtCapacity
<1>3. CASE SweepIdle
  BY <1>3, <1>t, SweptEvidenced, EvidencedSaved DEF SweepIdle
<1>4. ASSUME NEW p \in Plans, LeaseNext(p) PROVE AuthorityInv'
  <2> DEFINE expires == Least(clock + LeaseTtl, EffectiveExpiry[p])
             leased == [Swept[p] EXCEPT !.state = "LEASED", !.leasedAt = clock,
                                        !.leaseExpiresAt = expires]
  <2>1. expires \in Nat /\ expires <= EffectiveExpiry[p]
    BY <1>n, BoundsAssumption DEF Least
  <2>2. /\ Swept[p] \in QueueRecords /\ Swept[p].state = "QUEUED"
        /\ Evidenced(p, Swept[p], clock)
    BY <1>4, SweptEvidenced DEF LeaseNext, Earliest, Leasable, EvidencedQueues, Queues
  <2>3. leased \in QueueRecords /\ Evidenced(p, leased, clock)
    <3> HIDE DEF expires
    <3> QED BY <1>n, <2>1, <2>2 DEF QueueRecords, QueueStates, Evidenced
  <2>4. queue' = [Swept EXCEPT ![p] = leased]
    BY <1>4, SweptEvidenced DEF LeaseNext, EvidencedQueues, Queues
  <2>5. queue' \in EvidencedQueues(clock)
    <3> HIDE DEF leased
    <3> QED BY <2>3, <2>4, SweptEvidenced, EvidencedUpdate
  <2> QED BY <1>4, <1>t, <2>5, EvidencedSaved DEF LeaseNext
<1>5. ASSUME NEW p \in Plans, BeginDispatch(p) PROVE AuthorityInv'
  <2> DEFINE started == [queue[p] EXCEPT !.state = "DISPATCHING",
                           !.dispatchStartedAt = journal[p].startedAt,
                           !.leasedAt = 0, !.leaseExpiresAt = 0]
  <2>1. CASE Throw
    BY <1>5, <2>1, <1>u DEF BeginDispatch, Throw, stores
  <2>2. CASE ~Throw
    <3>1. /\ HoldsLease(p) /\ SaveQueue(At("resume", p))
          /\ queue' = [queue EXCEPT ![p] = started]
      BY <1>5, <1>t, <2>2 DEF BeginDispatch, TypeOK, Queues
    <3>a. /\ queue[p].queuedAt \in Nat /\ queue[p].leasedAt \in Nat
          /\ queue[p].leaseExpiresAt \in Nat /\ journal[p].startedAt \in Nat
      BY <1>r DEF QueueRecords, JournalRecords
    <3>b. /\ queue[p].queuedAt <= journal[p].startedAt
          /\ journal[p].startedAt <= EffectiveExpiry[p]
          /\ journal[p].startedAt <= clock
      BY <3>1, <3>a, <1>n, <1>r DEF HoldsLease, Evidenced
    <3>c. started \in QueueRecords
      BY <3>a, <1>r DEF QueueRecords, QueueStates
    <3>d. /\ started.state = "DISPATCHING" /\ started.queuedAt = queue[p].queuedAt
          /\ started.dispatchStartedAt = journal[p].startedAt
      BY <1>r DEF QueueRecords
    <3>2. started \in QueueRecords /\ Evidenced(p, started, clock)
      <4> HIDE DEF started
      <4> QED BY <3>b, <3>c, <3>d DEF Evidenced
    <3>3. queue' \in EvidencedQueues(clock)
      <4> HIDE DEF started
      <4> QED BY <3>1, <3>2, EvidencedUpdate DEF AuthorityInv
    <3> QED BY <1>5, <1>t, <3>1, <3>3, EvidencedSaved DEF BeginDispatch
  <2> QED BY <2>1, <2>2
<1>6. ASSUME NEW p \in Plans, RecordProgress(p) \/ AcknowledgeDispatch(p) PROVE AuthorityInv'
  <2>1. CASE Throw
    BY <1>6, <2>1, <1>u DEF RecordProgress, AcknowledgeDispatch, Throw, stores
  <2>2. CASE ~Throw
    <3>1. queue' \in Queues
      BY <1>t DEF TypeOK
    <3>a. \A q \in Plans :
            /\ queue'[q].state \in {queue[q].state, "COMPLETED", "REJECTED"}
            /\ queue'[q].queuedAt = queue[q].queuedAt
            /\ queue'[q].leasedAt = queue[q].leasedAt
            /\ queue'[q].leaseExpiresAt = queue[q].leaseExpiresAt
            /\ queue'[q].dispatchStartedAt = queue[q].dispatchStartedAt
      <4>1. CASE RecordProgress(p)
        BY <4>1, <2>2, <1>t DEF RecordProgress, TypeOK, Queues, QueueRecords
      <4>2. CASE AcknowledgeDispatch(p)
        BY <4>2, <2>2, <1>t DEF AcknowledgeDispatch, QueueOutcome, TypeOK, Queues, QueueRecords
      <4> QED BY <1>6, <4>1, <4>2
    <3>2. queue' \in Queues /\ \A q \in Plans : Evidenced(q, queue'[q], clock)
      BY <3>1, <3>a, <1>r DEF Evidenced
    <3>3. queue' \in EvidencedQueues(clock)
      BY <3>2 DEF EvidencedQueues
    <3>4. clock' = clock /\ \E then : SaveQueue(then)
      BY <1>6, <2>2 DEF RecordProgress, AcknowledgeDispatch
    <3> QED BY <1>t, <3>3, <3>4, EvidencedSaved
  <2> QED BY <2>1, <2>2
<1>7. ASSUME NEW p \in Plans,
             \/ ResumeDispatching(p) \/ ResumePending(p) \/ BeginJournal(p)
             \/ ResumeTerminal(p) \/ ResumeUnregistered(p) \/ CallHandler(p)
             \/ SubmitOrder(p) \/ HandlerThrows(p) \/ HandlerMonitors(p)
             \/ \E outcome \in Outcomes : HandlerFinishes(p, outcome)
      PROVE  AuthorityInv'
  <2>1. UNCHANGED <<clock, queue, queueDisk>>
    BY <1>7 DEF ResumeDispatching, ResumePending, BeginJournal, ResumeTerminal,
                ResumeUnregistered, CallHandler, SubmitOrder, HandlerThrows,
                HandlerMonitors, HandlerFinishes, Throw, stores
  <2> QED BY <2>1, <1>u
<1>8. CASE Restart
  <2>1. NoQueue \in EvidencedQueues(clock)
    BY ConstantTypes DEF NoQueue, NoQueueRecord, EvidencedQueues, Evidenced, Queues
  <2>2. queue' \in EvidencedQueues(clock) /\ UNCHANGED <<clock, queueDisk>>
    BY <1>8, <2>1, ReadTypes DEF Restart, AuthorityInv
  <2> QED BY <2>2, <1>t, EvidencedSaved
<1>9. CASE Tick
  <2>1. clock' = clock + 1 /\ UNCHANGED <<queue, queueDisk>>
    BY <1>9 DEF Tick, stores
  <2>2. \A p \in Plans, r \in QueueRecords :
          Evidenced(p, r, clock) => Evidenced(p, r, clock + 1)
    BY <1>n DEF Evidenced, QueueRecords
  <2>3. EvidencedQueues(clock) \subseteq EvidencedQueues(clock + 1)
    BY <2>2 DEF EvidencedQueues, Queues
  <2>4. queueDisk \in DiskOf(EvidencedQueues(clock + 1))
    BY <2>3 DEF AuthorityInv, DiskOf
  <2> QED BY <2>1, <2>3, <2>4, <1>t DEF AuthorityInv
<1>10. CASE UNCHANGED vars
  BY <1>10, <1>u DEF vars
<1> QED BY <1>1, <1>2, <1>3, <1>4, <1>5, <1>6, <1>7, <1>8, <1>9, <1>10
        DEF Next, Intake, StartRun, Continue, Handler

\* A plan is dispatched only inside its window of authority, for any number of
\* plans and restarts and every fault the model knows, torn writes included.
THEOREM DispatchWithinAuthority == Spec => []DispatchedWithinAuthority
<1>1. Init => AuthorityInv
  <2> SUFFICES ASSUME Init PROVE queue \in EvidencedQueues(clock)
    BY InitTyped DEF Init, AuthorityInv, Settled, DiskOf, TailKinds
  <2> QED BY InitTyped DEF Init, NoQueue, EvidencedQueues, Evidenced, NoQueueRecord, TypeOK
<1>2. AuthorityInv /\ [Next]_vars => AuthorityInv'
  BY AuthorityStep
<1>3. AuthorityInv => DispatchedWithinAuthority
  BY DEF AuthorityInv, EvidencedQueues, Evidenced, DispatchedWithinAuthority
<1> QED BY <1>1, <1>2, <1>3, PTL DEF Spec

-----------------------------------------------------------------------------
(* One dispatch at a time, whatever fails.  Nothing relates the two journals  *)
(* to each other here: a restart may bring back an older snapshot of either,  *)
(* so every snapshot a disk can restore must have the property by itself.     *)

Single(m, state) == \A p, q \in Plans : m[p].state = state /\ m[q].state = state => p = q

SingleQueues == {q \in Queues : Single(q, "DISPATCHING")}
SingleJournals == {j \in Journals : Single(j, "STARTED")}

\* Between a lease and its dispatch no other plan is being dispatched, and only the
\* leased plan can have become pending.
AloneOnTheWay ==
  turn.step \in {"begin", "dispatch"} =>
    /\ InState("DISPATCHING") = {}
    /\ Pending \subseteq {turn.plan}
    /\ turn.step = "begin" => Pending = {}

SingleInv ==
  /\ TypeOK
  /\ queue \in SingleQueues /\ queueDisk \in DiskOf(SingleQueues)
  /\ journal \in SingleJournals /\ journalDisk \in DiskOf(SingleJournals)
  /\ AloneOnTheWay

\* Which record may be in a state shrinks, or a record enters a state no other has.
LEMMA SingleKept ==
  ASSUME NEW s, NEW m, NEW n, NEW p \in Plans,
         \/ Single(m, s) /\ \A q \in Plans : n[q].state = s => m[q].state = s
         \/ \A q \in Plans : q # p => n[q].state # s
  PROVE  Single(n, s)
BY DEF Single

\* A sweep moves no record into or out of a dispatch.
LEMMA SweptStates ==
  ASSUME TypeOK, NEW p \in Plans
  PROVE  /\ Swept[p].state = "DISPATCHING" <=> queue[p].state = "DISPATCHING"
         /\ Swept[p] = SweptRecord(p)
<1>1. queue[p] \in QueueRecords
  BY DEF TypeOK, Queues
<1> QED BY <1>1 DEF Swept, SweptRecord, Requeued, Expired, QueueRecords

\* A step that leaves the journal alone and saves the queue, or leaves it alone.
LEMMA SingleQueueSaved ==
  ASSUME SingleInv, TypeOK', Single(queue', "DISPATCHING"),
         (\E then : SaveQueue(then)) \/ UNCHANGED queueDisk,
         UNCHANGED <<journal, journalDisk>>, AloneOnTheWay'
  PROVE  SingleInv'
<1>1. queue' \in SingleQueues
  BY DEF SingleQueues, TypeOK
<1>2. queueDisk' \in DiskOf(SingleQueues)
  BY <1>1, QueueSaved DEF SingleInv
<1> QED BY <1>1, <1>2 DEF SingleInv

\* The same with the roles exchanged.
LEMMA SingleJournalSaved ==
  ASSUME SingleInv, TypeOK', Single(journal', "STARTED"),
         (\E then : SaveJournal(then)) \/ UNCHANGED journalDisk,
         UNCHANGED <<queue, queueDisk>>, AloneOnTheWay'
  PROVE  SingleInv'
<1>1. journal' \in SingleJournals
  BY DEF SingleJournals, TypeOK
<1>2. journalDisk' \in DiskOf(SingleJournals)
  BY <1>1, JournalSaved DEF SingleInv
<1> QED BY <1>1, <1>2 DEF SingleInv

\* Every step keeps the invariant.
LEMMA SingleStep == SingleInv /\ [Next]_vars => SingleInv'
<1> SUFFICES ASSUME SingleInv, [Next]_vars PROVE SingleInv'
  OBVIOUS
<1>t. TypeOK /\ TypeOK'
  BY TypeStep DEF SingleInv
<1>i. /\ Idle.step = "idle"
      /\ \A step, p : At(step, p).step = step /\ At(step, p).plan = p
  BY DEF Idle, At
<1>q. Single(queue, "DISPATCHING") /\ Single(journal, "STARTED")
  BY DEF SingleInv, SingleQueues, SingleJournals
\* Off the way from a lease to its dispatch there is nothing to show of it.
<1>a. turn' = Idle \/ turn'.step \notin {"begin", "dispatch"} => AloneOnTheWay'
  BY <1>i DEF AloneOnTheWay
<1>s. ASSUME NEW then, SaveQueue(then) PROVE turn' \in {then, Idle}
  BY <1>s DEF SaveQueue
<1>j. ASSUME NEW then, SaveJournal(then) PROVE turn' \in {then, Idle}
  BY <1>j DEF SaveJournal
<1>u. ASSUME UNCHANGED stores, AloneOnTheWay' PROVE SingleInv'
  BY <1>u, <1>t DEF stores, SingleInv
<1>1. ASSUME NEW p \in Plans, Enqueue(p) PROVE SingleInv'
  <2>1. \A q \in Plans : queue'[q].state = "DISPATCHING" => queue[q].state = "DISPATCHING"
    BY <1>1, <1>t, SweptStates DEF Enqueue, NewQueueRecord, NoQueueRecord, Swept
  <2>2. Single(queue', "DISPATCHING")
    BY <1>q, <2>1, SingleKept
  <2> QED BY <1>1, <1>t, <1>a, <1>s, <2>2, SingleQueueSaved DEF Enqueue
<1>2. ASSUME (\E p \in Plans : EnqueueAtCapacity(p)) \/ SweepIdle PROVE SingleInv'
  <2>1. \A q \in Plans : queue'[q].state = "DISPATCHING" => queue[q].state = "DISPATCHING"
    BY <1>2, <1>t, SweptStates DEF EnqueueAtCapacity, SweepIdle
  <2>2. Single(queue', "DISPATCHING")
    BY <1>2, <1>q, <2>1, SingleKept DEF Single
  <2>3. turn' = Idle
    BY <1>2, <1>s DEF EnqueueAtCapacity, CanEnqueue, SweepIdle
  <2>4. (\E then : SaveQueue(then)) \/ UNCHANGED queueDisk
    BY <1>2 DEF EnqueueAtCapacity, SweepIdle
  <2>5. UNCHANGED <<journal, journalDisk>>
    BY <1>2 DEF EnqueueAtCapacity, SweepIdle
  <2> QED BY <1>t, <1>a, <2>2, <2>3, <2>4, <2>5, SingleQueueSaved
<1>3. ASSUME NEW p \in Plans, LeaseNext(p) PROVE SingleInv'
  <2>1. InState("DISPATCHING") = {} /\ Pending = {} /\ UNCHANGED <<journal, journalDisk>>
    BY <1>3 DEF LeaseNext
  <2>2. \A q \in Plans : queue'[q].state # "DISPATCHING"
    BY <1>3, <1>t, <2>1, SweptStates, SweptType DEF LeaseNext, InState, Queues, QueueRecords
  <2>3. Single(queue', "DISPATCHING") /\ InState("DISPATCHING")' = {} /\ Pending' = {}
    BY <2>1, <2>2 DEF Single, InState, Pending
  <2>4. AloneOnTheWay'
    BY <2>3 DEF AloneOnTheWay
  <2> QED BY <1>3, <1>t, <2>3, <2>4, SingleQueueSaved DEF LeaseNext
<1>4. ASSUME NEW p \in Plans, ResumeDispatching(p) \/ ResumeTerminal(p) \/ CallHandler(p)
                              \/ SubmitOrder(p) \/ HandlerThrows(p)
      PROVE  SingleInv'
  <2>1. UNCHANGED stores /\ turn' \in {At("resume", p), At("acknowledge", p), Idle}
    BY <1>4 DEF ResumeDispatching, ResumeTerminal, CallHandler, SubmitOrder, HandlerThrows,
                Returned
  <2> QED BY <2>1, <1>a, <1>i, <1>u
<1>5. ASSUME NEW p \in Plans, ResumePending(p) PROVE SingleInv'
  <2>1. /\ InState("DISPATCHING") = {} /\ p \in Pending /\ UNCHANGED stores
        /\ turn' = At("dispatch", p)
    BY <1>5 DEF ResumePending, Earliest
  <2>2. Pending \subseteq {p}
    BY <2>1, <1>q DEF Pending, Single
  <2>3. InState("DISPATCHING")' = {} /\ Pending' \subseteq {p}
    BY <2>1, <2>2 DEF InState, Pending, stores
  <2>4. AloneOnTheWay'
    BY <2>1, <2>3, <1>i DEF AloneOnTheWay
  <2> QED BY <2>1, <2>4, <1>u
<1>6. ASSUME NEW p \in Plans, BeginJournal(p) PROVE SingleInv'
  <2>1. InState("DISPATCHING") = {} /\ Pending = {}
    BY <1>6, <1>i DEF BeginJournal, SingleInv, AloneOnTheWay
  <2>2. CASE UNCHANGED stores
    <3>1. InState("DISPATCHING")' = {} /\ Pending' = {}
      BY <2>1, <2>2 DEF InState, Pending, stores
    <3>2. turn' = Idle \/ turn' = At("dispatch", p)
      BY <1>6, <1>j DEF BeginJournal, Throw
    <3>3. AloneOnTheWay'
      BY <3>1 DEF AloneOnTheWay
    <3> QED BY <2>2, <3>3, <1>u
  <2>3. CASE ~UNCHANGED stores
    <3>1. /\ journal' = [journal EXCEPT ![p] =
               [NoJournalRecord EXCEPT !.state = "STARTED", !.startedAt = clock]]
          /\ SaveJournal(At("dispatch", p))
          /\ UNCHANGED <<queue, queueDisk>>
      BY <1>6, <2>3 DEF BeginJournal, Throw
    <3>2. \A q \in Plans : q # p => journal'[q].state # "STARTED"
      BY <3>1, <2>1 DEF Pending
    <3>3. Single(journal', "STARTED")
      BY <3>2, SingleKept
    <3>4. InState("DISPATCHING")' = {} /\ Pending' \subseteq {p}
      BY <3>1, <3>2, <2>1 DEF InState, Pending
    <3>5. turn' \in {At("dispatch", p), Idle}
      BY <3>1, <1>j
    <3>6. AloneOnTheWay'
      BY <3>4, <3>5, <1>i, <1>a DEF AloneOnTheWay
    <3> QED BY <1>t, <3>1, <3>3, <3>6, SingleJournalSaved
  <2> QED BY <2>2, <2>3
<1>7. ASSUME NEW p \in Plans, BeginDispatch(p) PROVE SingleInv'
  <2>1. InState("DISPATCHING") = {}
    BY <1>7, <1>i DEF BeginDispatch, SingleInv, AloneOnTheWay
  <2>2. CASE Throw
    BY <2>2, <1>a, <1>u DEF Throw
  <2>3. CASE ~Throw
    <3>1. /\ queue' = [queue EXCEPT ![p].state = "DISPATCHING",
                                    ![p].dispatchStartedAt = journal[p].startedAt,
                                    ![p].leasedAt = 0,
                                    ![p].leaseExpiresAt = 0]
          /\ SaveQueue(At("resume", p))
          /\ UNCHANGED <<journal, journalDisk>>
      BY <1>7, <2>3 DEF BeginDispatch
    <3>2. \A q \in Plans : q # p => queue'[q].state # "DISPATCHING"
      BY <3>1, <2>1, <1>t DEF InState, TypeOK, Queues
    <3>3. Single(queue', "DISPATCHING")
      BY <3>2, SingleKept
    <3>4. AloneOnTheWay'
      BY <3>1, <1>s, <1>a, <1>i
    <3> QED BY <1>t, <3>1, <3>3, <3>4, SingleQueueSaved
  <2> QED BY <2>2, <2>3
<1>8. ASSUME NEW p \in Plans,
             \/ ResumeUnregistered(p) \/ HandlerMonitors(p)
             \/ \E outcome \in Outcomes : HandlerFinishes(p, outcome)
      PROVE  SingleInv'
  <2>1. CASE Throw
    BY <2>1, <1>a, <1>u DEF Throw
  <2>2. CASE ~Throw
    <3>1. /\ UNCHANGED <<queue, queueDisk>>
          /\ SaveJournal(At("acknowledge", p)) \/ SaveJournal(At("progress", p))
      BY <1>8, <2>2 DEF ResumeUnregistered, HandlerMonitors, HandlerFinishes
    <3>2. \A q \in Plans : journal'[q].state = "STARTED" => journal[q].state = "STARTED"
      <4>1. ASSUME NEW outcome, NEW performed, journal' = Completed(p, outcome, performed),
                   NEW q \in Plans, journal'[q].state = "STARTED"
            PROVE  journal[q].state = "STARTED"
        BY <4>1, <1>t DEF Completed, TypeOK, Journals, JournalRecords
      <4>2. CASE ResumeUnregistered(p) \/ \E outcome \in Outcomes : HandlerFinishes(p, outcome)
        BY <4>1, <4>2, <2>2 DEF ResumeUnregistered, HandlerFinishes
      <4>3. CASE HandlerMonitors(p)
        BY <4>3, <2>2, <1>t DEF HandlerMonitors, TypeOK, Journals, JournalRecords
      <4> QED BY <1>8, <4>2, <4>3
    <3>3. Single(journal', "STARTED")
      BY <3>2, <1>q, SingleKept
    <3>4. AloneOnTheWay'
      BY <3>1, <1>j, <1>a, <1>i
    <3> QED BY <1>t, <3>1, <3>3, <3>4, SingleJournalSaved
  <2> QED BY <2>1, <2>2
<1>9. ASSUME NEW p \in Plans, RecordProgress(p) \/ AcknowledgeDispatch(p) PROVE SingleInv'
  <2>1. CASE Throw
    BY <2>1, <1>a, <1>u DEF Throw
  <2>2. CASE ~Throw
    <3>1. SaveQueue(Idle) /\ UNCHANGED <<journal, journalDisk>>
      BY <1>9, <2>2 DEF RecordProgress, AcknowledgeDispatch
    <3>2. \A q \in Plans : queue'[q].state = "DISPATCHING" => queue[q].state = "DISPATCHING"
      <4>1. CASE RecordProgress(p)
        BY <4>1, <2>2, <1>t DEF RecordProgress, TypeOK, Queues, QueueRecords
      <4>2. CASE AcknowledgeDispatch(p)
        BY <4>2, <2>2, <1>t DEF AcknowledgeDispatch, QueueOutcome, TypeOK, Queues, QueueRecords
      <4> QED BY <1>9, <4>1, <4>2
    <3>3. Single(queue', "DISPATCHING")
      BY <3>2, <1>q, SingleKept
    <3> QED BY <1>t, <1>s, <1>a, <3>1, <3>3, SingleQueueSaved
  <2> QED BY <2>1, <2>2
<1>10. CASE Restart
  <2>1. NoQueue \in SingleQueues /\ NoJournal \in SingleJournals
    BY ConstantTypes DEF NoQueue, NoQueueRecord, NoJournal, NoJournalRecord, Queues, Journals,
                         SingleQueues, SingleJournals, Single
  <2>2. /\ queue' \in SingleQueues /\ journal' \in SingleJournals
        /\ UNCHANGED <<queueDisk, journalDisk>> /\ turn' = Idle
    BY <1>10, <2>1, ReadTypes DEF Restart, SingleInv
  <2> QED BY <2>2, <1>t, <1>a DEF SingleInv
<1>11. CASE Tick
  BY <1>11, <1>a, <1>u DEF Tick
<1>12. CASE UNCHANGED vars
  <2>1. UNCHANGED stores /\ AloneOnTheWay'
    BY <1>12 DEF vars, stores, SingleInv, AloneOnTheWay, InState, Pending
  <2> QED BY <2>1, <1>u
<1> QED BY <1>1, <1>2, <1>3, <1>4, <1>5, <1>6, <1>7, <1>8, <1>9, <1>10, <1>11, <1>12
        DEF Next, Intake, StartRun, Continue, Handler

\* The initial state has the invariant.
LEMMA SingleAtFirst == Init => SingleInv
<1> SUFFICES ASSUME Init PROVE SingleInv
  OBVIOUS
<1>1. queue \in SingleQueues /\ journal \in SingleJournals
  BY InitTyped DEF Init, NoQueue, NoQueueRecord, NoJournal, NoJournalRecord, TypeOK,
                   SingleQueues, SingleJournals, Single
<1>2. queueDisk \in DiskOf(SingleQueues) /\ journalDisk \in DiskOf(SingleJournals)
  BY <1>1 DEF Init, Settled, DiskOf, TailKinds
<1>3. AloneOnTheWay
  BY DEF Init, Idle, AloneOnTheWay
<1> QED BY <1>1, <1>2, <1>3, InitTyped DEF SingleInv

\* Capital is committed to one plan at a time, in memory and after any crash,
\* although appends fail or break off, reads fail and the two journals may
\* come back from different moments.
THEOREM OneDispatchAtATime == Spec => []OneUnsettledDispatch
<1>1. Init => SingleInv
  BY SingleAtFirst
<1>2. SingleInv /\ [Next]_vars => SingleInv'
  BY SingleStep
<1>3. SingleInv => OneUnsettledDispatch
  <2> SUFFICES ASSUME SingleInv PROVE OneUnsettledDispatch
    OBVIOUS
  <2>1. /\ queue \in SingleQueues /\ journal \in SingleJournals
        /\ DurableJournal \in SingleJournals
    BY DEF SingleInv, DurableJournal, Restored, DiskOf
  <2> QED BY <2>1 DEF SingleQueues, SingleJournals, Single, InState, Pending,
                      OneUnsettledDispatch
<1> QED BY <1>1, <1>2, <1>3, PTL DEF Spec

-----------------------------------------------------------------------------
(* When the process may crash at any point but every append that is called    *)
(* returns and every read succeeds, memory and journals cannot drift apart:   *)
(* the outcome journal on disk is the one in memory, and the queue in memory  *)
(* is ahead of its file by sweeps at most.                                    *)

CrashOnly == Faults \subseteq {"crash"}

\* The newest snapshot of the queue's file.
Written == queueDisk.base

OnDisk == queueDisk = Settled(Written) /\ journalDisk = Settled(journal)

\* A record the dispatcher has taken past its lease.
PastLease == {"DISPATCHING", "COMPLETED", "REJECTED"}

\* Memory holds what was written, or what a sweep has made of it since.
SweptSince(p) ==
  \/ queue[p] = Written[p]
  \/ /\ Written[p].state \in {"QUEUED", "LEASED"} /\ queue[p].state \in {"QUEUED", "EXPIRED"}
     /\ queue[p].state = "EXPIRED" => EffectiveExpiry[p] < clock

\* What the queue record r of plan p says about the plan's dispatch.
Linked(p, r) ==
  /\ r.state = "NONE" => journal[p].state = "NONE"
  /\ r.state = "DISPATCHING" => journal[p].state # "NONE"
  /\ journal[p].state = "TERMINAL" => r.state \in PastLease
  /\ r.state \in {"COMPLETED", "REJECTED"} =>
       /\ journal[p].state = "TERMINAL"
       /\ r.state = QueueOutcome(journal[p].outcome)
       /\ r.orderSubmissionPerformed = journal[p].orderSubmissionPerformed
  /\ inFlight[p] > 0 \/ p \in submitted => r.state \in PastLease

\* What the synchronous call under way has established for its plan.
Established ==
  LET p == turn.plan IN
  /\ turn.step = "begin" => queue[p].state = "LEASED" /\ EffectiveExpiry[p] >= clock
  /\ turn.step = "dispatch" => journal[p].state = "STARTED"
  /\ turn.step \in {"resume", "progress"} => queue[p].state = "DISPATCHING"
  /\ turn.step = "acknowledge" =>
       queue[p].state = "DISPATCHING" /\ journal[p].state = "TERMINAL"

CrashInv ==
  /\ SingleInv
  /\ OnDisk
  /\ \A p \in Plans : SweptSince(p) /\ Linked(p, queue[p])
  /\ Established

\* Every append of the queue returns with the file equal to memory.
LEMMA QueueWritten ==
  ASSUME CrashOnly, OnDisk, NEW then, SaveQueue(then)
  PROVE  queueDisk' = Settled(queue') /\ turn' = then
BY DEF CrashOnly, OnDisk, SaveQueue, AppendBreaks, Appended, Settled

\* The same for the outcome journal.
LEMMA JournalWritten ==
  ASSUME CrashOnly, OnDisk, NEW then, SaveJournal(then)
  PROVE  journalDisk' = Settled(journal') /\ turn' = then
BY DEF CrashOnly, OnDisk, SaveJournal, AppendBreaks, Appended, Settled

\* A sweep only queues a lease again or lets a waiting record expire.
LEMMA SweptMoves ==
  ASSUME TypeOK, NEW p \in Plans
  PROVE  \/ Swept[p] = queue[p]
         \/ /\ queue[p].state \in {"QUEUED", "LEASED"} /\ Swept[p].state \in {"QUEUED", "EXPIRED"}
            /\ Swept[p].state = "EXPIRED" => EffectiveExpiry[p] < clock
<1>1. queue[p] \in QueueRecords
  BY DEF TypeOK, Queues
<1> QED BY <1>1 DEF Swept, SweptRecord, Requeued, Expired, QueueRecords

\* A record that waits is linked the same way in whichever state it waits.
LEMMA WaitingLinked ==
  ASSUME NEW p \in Plans, NEW r, NEW s, Linked(p, r),
         r.state \in {"QUEUED", "LEASED", "EXPIRED"}, s.state \in {"QUEUED", "LEASED", "EXPIRED"}
  PROVE  Linked(p, s)
BY DEF Linked, PastLease

\* Every step keeps the invariant.
LEMMA CrashStep ==
  ASSUME CrashOnly, CrashInv, [Next]_vars
  PROVE  CrashInv'
<1> DEFINE Rest == OnDisk /\ (\A p \in Plans : SweptSince(p) /\ Linked(p, queue[p])) /\ Established
           Waits == {"QUEUED", "LEASED", "EXPIRED"}
<1>t. TypeOK /\ TypeOK' /\ SingleInv'
  BY TypeStep, SingleStep DEF CrashInv, SingleInv
<1>i. /\ Idle.step = "idle"
      /\ \A step, p : At(step, p).step = step /\ At(step, p).plan = p
  BY DEF Idle, At
<1>o. OnDisk
  BY DEF CrashInv
<1>e. turn' = Idle => Established'
  BY <1>i DEF Established
\* Nothing but the turn and the clock of an idle process moves.
<1>u. ASSUME UNCHANGED <<clock, stores, inFlight, submitted>>, Established' PROVE Rest'
  BY <1>u DEF stores, CrashInv, OnDisk, Written, SweptSince, Linked
\* A queue that was just written needs nothing but links.
<1>w. ASSUME queueDisk' = Settled(queue'), UNCHANGED <<journal, journalDisk>>,
             \A q \in Plans : Linked(q, queue[q])', Established'
      PROVE  Rest'
  <2>1. queueDisk'.base = queue'
    BY <1>w DEF Settled
  <2> QED BY <1>w, <1>o, <2>1 DEF OnDisk, Written, SweptSince
\* A step of the queue that leaves settled and running records alone keeps the links.
<1>l. ASSUME UNCHANGED <<journal, inFlight, submitted>>, NEW q \in Plans,
             queue'[q] = queue[q] \/ (queue[q].state \in Waits /\ queue'[q].state \in Waits)
      PROVE  Linked(q, queue[q])'
  <2>1. Linked(q, queue[q])
    BY DEF CrashInv
  <2>2. Linked(q, queue'[q])
    BY <1>l, <2>1, WaitingLinked
  <2> QED BY <1>l, <2>2 DEF Linked
<1>1. ASSUME NEW p \in Plans, Enqueue(p) PROVE Rest'
  <2>1. /\ queue' = [Swept EXCEPT ![p] = NewQueueRecord] /\ queue[p].state = "NONE"
        /\ UNCHANGED <<journal, journalDisk, inFlight, submitted>>
    BY <1>1 DEF Enqueue, CanEnqueue
  <2>2. queueDisk' = Settled(queue') /\ turn' = Idle
    BY <1>1, <1>o, QueueWritten DEF Enqueue
  <2>3. Linked(p, queue[p])'
    <3>1. Linked(p, queue[p]) /\ queue'[p].state = "QUEUED"
      BY <2>1, <1>t, SweptType DEF CrashInv, NewQueueRecord, NoQueueRecord, Queues
    <3> QED BY <2>1, <3>1 DEF Linked, PastLease
  <2>4. \A q \in Plans : Linked(q, queue[q])'
    <3> SUFFICES ASSUME NEW q \in Plans, q # p PROVE Linked(q, queue[q])'
      BY <2>3
    <3>1. queue'[q] = Swept[q]
      BY <2>1, <1>t, SweptType DEF Queues
    <3> QED BY <2>1, <3>1, <1>t, <1>l, SweptMoves
  <2> QED BY <2>1, <2>2, <2>4, <1>w, <1>e
<1>2. ASSUME NEW p \in Plans, EnqueueAtCapacity(p) PROVE Rest'
  <2>1. queue' = Swept /\ turn' = Idle
        /\ UNCHANGED <<clock, queueDisk, journal, journalDisk, inFlight, submitted>>
    BY <1>2 DEF EnqueueAtCapacity, CanEnqueue
  <2>2. \A q \in Plans : Linked(q, queue[q])'
    BY <2>1, <1>t, <1>l, SweptMoves
  <2>3. \A q \in Plans : SweptSince(q)'
    BY <2>1, <1>t, SweptMoves DEF CrashInv, SweptSince, Written
  <2> QED BY <2>1, <2>2, <2>3, <1>o, <1>e DEF OnDisk, Written
<1>3. ASSUME SweepIdle PROVE Rest'
  <2>1. queue' = Swept /\ UNCHANGED <<journal, journalDisk, inFlight, submitted>>
    BY <1>3 DEF SweepIdle
  <2>2. queueDisk' = Settled(queue') /\ turn' = Idle
    BY <1>3, <1>o, QueueWritten DEF SweepIdle
  <2>3. \A q \in Plans : Linked(q, queue[q])'
    BY <2>1, <1>t, <1>l, SweptMoves
  <2> QED BY <2>1, <2>2, <2>3, <1>w, <1>e
<1>4. ASSUME NEW p \in Plans, LeaseNext(p) PROVE Rest'
  <2>1. /\ Swept[p].state = "QUEUED" /\ EffectiveExpiry[p] >= clock
        /\ clock' = clock /\ UNCHANGED <<journal, journalDisk, inFlight, submitted>>
    BY <1>4 DEF LeaseNext, Earliest, Leasable
  <2>2. queueDisk' = Settled(queue') /\ turn' = At("begin", p)
    BY <1>4, <1>o, QueueWritten DEF LeaseNext
  <2>3. queue'[p].state = "LEASED" /\ \A q \in Plans : q # p => queue'[q] = Swept[q]
    BY <1>4, <1>t, SweptType DEF LeaseNext, Queues, QueueRecords
  <2>4. queue[p].state \in Waits
    BY <2>1, <1>t, SweptMoves
  <2>5. \A q \in Plans : Linked(q, queue[q])'
    BY <2>1, <2>3, <2>4, <1>t, <1>l, SweptMoves
  <2>6. Established'
    BY <2>1, <2>2, <2>3, <1>i DEF Established
  <2> QED BY <2>1, <2>2, <2>5, <2>6, <1>w
<1>5. ASSUME NEW p \in Plans, ResumeDispatching(p) \/ ResumePending(p) \/ ResumeTerminal(p)
      PROVE  Rest'
  <2>1. UNCHANGED <<clock, stores, inFlight, submitted>>
    BY <1>5 DEF ResumeDispatching, ResumePending, ResumeTerminal
  <2>2. \/ turn' = At("resume", p) /\ queue[p].state = "DISPATCHING"
        \/ turn' = At("dispatch", p) /\ journal[p].state = "STARTED"
        \/ turn' = At("acknowledge", p) /\ queue[p].state = "DISPATCHING"
           /\ journal[p].state = "TERMINAL"
    BY <1>5, <1>i DEF ResumeDispatching, ResumePending, ResumeTerminal, InState, Pending,
                      Earliest, CrashInv, Established
  <2>3. Established'
    BY <2>1, <2>2, <1>i DEF Established, stores
  <2> QED BY <2>1, <2>3, <1>u
<1>6. ASSUME NEW p \in Plans, BeginJournal(p) PROVE Rest'
  <2>1. queue[p].state = "LEASED" /\ Linked(p, queue[p])
    BY <1>6, <1>i DEF BeginJournal, CrashInv, Established
  <2>2. journal[p].state # "TERMINAL" /\ journal[p].state \in JournalStates
    BY <2>1, <1>t DEF Linked, PastLease, TypeOK, Journals, JournalRecords
  <2>3. CASE UNCHANGED stores
    <3>1. journal[p].state # "NONE" => turn' = At("dispatch", p)
      BY <1>6 DEF BeginJournal
    <3>2. ASSUME journal[p].state = "NONE", ~Throw PROVE FALSE
      <4>1. journal'[p].state = "STARTED"
        BY <1>6, <3>2, <1>t DEF BeginJournal, TypeOK, Journals, NoJournalRecord
      <4> QED BY <2>3, <3>2, <4>1 DEF stores
    <3>3. turn' = Idle \/ (turn' = At("dispatch", p) /\ journal'[p].state = "STARTED")
      BY <2>2, <2>3, <3>1, <3>2 DEF stores, JournalStates, Throw
    <3>4. Established'
      BY <3>3, <1>i, <1>e DEF Established
    <3> QED BY <1>6, <2>3, <3>4, <1>u DEF BeginJournal
  <2>4. CASE ~UNCHANGED stores
    <3>1. /\ journal[p].state = "NONE"
          /\ journal' = [journal EXCEPT ![p] =
               [NoJournalRecord EXCEPT !.state = "STARTED", !.startedAt = clock]]
          /\ SaveJournal(At("dispatch", p))
          /\ UNCHANGED <<clock, queue, queueDisk, inFlight, submitted>>
      BY <1>6, <2>4 DEF BeginJournal, Throw
    <3>2. journalDisk' = Settled(journal') /\ turn' = At("dispatch", p)
      BY <3>1, <1>o, JournalWritten
    <3>3. /\ journal'[p].state = "STARTED"
          /\ \A q \in Plans : q # p => journal'[q] = journal[q]
      BY <3>1, <1>t DEF TypeOK, Journals, NoJournalRecord
    <3>4. Established'
      BY <3>2, <3>3, <1>i DEF Established
    <3>5. \A q \in Plans : Linked(q, queue[q])'
      BY <2>1, <3>1, <3>3 DEF CrashInv, Linked, PastLease
    <3>6. OnDisk' /\ \A q \in Plans : SweptSince(q)'
      BY <3>1, <3>2, <1>o DEF OnDisk, Written, SweptSince, CrashInv
    <3> QED BY <3>4, <3>5, <3>6
  <2> QED BY <2>3, <2>4
\* The steps that write one dispatching record.
<1>d. ASSUME NEW p \in Plans, NEW then, SaveQueue(then),
             queue[p].state \in {"LEASED", "DISPATCHING"}, Linked(p, queue[p])',
             \A q \in Plans : q # p => queue'[q] = queue[q],
             UNCHANGED <<journal, journalDisk, inFlight, submitted>>,
             then = Idle \/ (then = At("resume", p) /\ queue'[p].state = "DISPATCHING")
      PROVE  Rest'
  <2>1. queueDisk' = Settled(queue') /\ turn' = then
    BY <1>d, <1>o, QueueWritten
  <2>2. Established'
    BY <2>1, <1>d, <1>e, <1>i DEF Established
  <2>3. \A q \in Plans : Linked(q, queue[q])'
    BY <1>d, <1>l
  <2> QED BY <1>d, <2>1, <2>2, <2>3, <1>w
<1>7. ASSUME NEW p \in Plans, BeginDispatch(p) PROVE Rest'
  <2>1. CASE Throw
    BY <1>7, <2>1, <1>e, <1>u DEF BeginDispatch, Throw
  <2>2. CASE ~Throw
    <3>1. /\ queue[p].state = "LEASED" /\ SaveQueue(At("resume", p))
          /\ UNCHANGED <<journal, journalDisk, inFlight, submitted>>
      BY <1>7, <2>2 DEF BeginDispatch, HoldsLease
    <3>2. /\ queue'[p].state = "DISPATCHING" /\ \A q \in Plans : q # p => queue'[q] = queue[q]
      BY <1>7, <2>2, <1>t DEF BeginDispatch, TypeOK, Queues, QueueRecords
    <3>3. journal[p].state = "STARTED"
      BY <1>7, <1>i DEF BeginDispatch, CrashInv, Established
    <3>4. Linked(p, queue[p])'
      BY <3>1, <3>2, <3>3 DEF Linked, PastLease
    <3> QED BY <3>1, <3>2, <3>4, <1>d
  <2> QED BY <2>1, <2>2
<1>8. ASSUME NEW p \in Plans, RecordProgress(p) PROVE Rest'
  <2>1. CASE Throw
    BY <1>8, <2>1, <1>e, <1>u DEF RecordProgress, Throw
  <2>2. CASE ~Throw
    <3>1. /\ queue[p].state = "DISPATCHING" /\ SaveQueue(Idle)
          /\ UNCHANGED <<journal, journalDisk, inFlight, submitted>>
      BY <1>8, <2>2 DEF RecordProgress
    <3>2. /\ queue'[p].state = "DISPATCHING" /\ \A q \in Plans : q # p => queue'[q] = queue[q]
      BY <1>8, <2>2, <1>t DEF RecordProgress, TypeOK, Queues, QueueRecords
    <3>3. Linked(p, queue[p])'
      BY <3>1, <3>2 DEF CrashInv, Linked, PastLease
    <3> QED BY <3>1, <3>2, <3>3, <1>d
  <2> QED BY <2>1, <2>2
<1>9. ASSUME NEW p \in Plans, AcknowledgeDispatch(p) PROVE Rest'
  <2>1. CASE Throw
    BY <1>9, <2>1, <1>e, <1>u DEF AcknowledgeDispatch, Throw
  <2>2. CASE ~Throw
    <3>1. /\ queue[p].state = "DISPATCHING" /\ SaveQueue(Idle)
          /\ UNCHANGED <<journal, journalDisk, inFlight, submitted>>
      BY <1>9, <2>2 DEF AcknowledgeDispatch
    <3>2. /\ queue'[p].state = QueueOutcome(journal[p].outcome)
          /\ queue'[p].orderSubmissionPerformed = journal[p].orderSubmissionPerformed
          /\ \A q \in Plans : q # p => queue'[q] = queue[q]
      BY <1>9, <2>2, <1>t DEF AcknowledgeDispatch, TypeOK, Queues, QueueRecords
    <3>3. journal[p].state = "TERMINAL"
      BY <1>9, <1>i DEF AcknowledgeDispatch, CrashInv, Established
    <3>4. Linked(p, queue[p])'
      BY <3>1, <3>2, <3>3 DEF Linked, PastLease, QueueOutcome
    <3> QED BY <3>1, <3>2, <3>4, <1>d
  <2> QED BY <2>1, <2>2
\* The steps that write the journal record of a dispatching plan.
<1>j. ASSUME NEW p \in Plans, NEW step \in {"progress", "acknowledge"}, SaveJournal(At(step, p)),
             queue[p].state = "DISPATCHING", UNCHANGED <<clock, queue, queueDisk, submitted>>,
             \A q \in Plans : inFlight'[q] > 0 => inFlight[q] > 0,
             journal'[p].state # "NONE", step = "acknowledge" => journal'[p].state = "TERMINAL",
             \A q \in Plans : q # p => journal'[q] = journal[q]
      PROVE  Rest'
  <2>1. journalDisk' = Settled(journal') /\ turn' = At(step, p)
    BY <1>j, <1>o, JournalWritten
  <2>2. Established'
    BY <2>1, <1>j, <1>i DEF Established
  <2>3. \A q \in Plans : Linked(q, queue[q])'
    BY <1>j DEF CrashInv, Linked, PastLease
  <2>4. OnDisk' /\ \A q \in Plans : SweptSince(q)'
    BY <2>1, <1>j, <1>o DEF OnDisk, Written, SweptSince, CrashInv
  <2> QED BY <2>2, <2>3, <2>4
<1>f. ASSUME NEW p \in Plans, Returned(p)
      PROVE  /\ \A q \in Plans : inFlight'[q] > 0 => inFlight[q] > 0
             /\ journal[p].state = "STARTED" => queue[p].state = "DISPATCHING"
  <2>1. \A q \in Plans : inFlight'[q] > 0 => inFlight[q] > 0
    BY <1>f, <1>t DEF Returned, TypeOK
  <2>2. inFlight[p] > 0 /\ Linked(p, queue[p])
    BY <1>f DEF Returned, CrashInv
  <2> QED BY <2>1, <2>2 DEF Linked, PastLease
<1>h. ASSUME UNCHANGED <<clock, stores>>, \A q \in Plans : inFlight'[q] > 0 => inFlight[q] > 0,
             UNCHANGED submitted, Established'
      PROVE  Rest'
  BY <1>h DEF stores, CrashInv, OnDisk, Written, SweptSince, Linked
<1>10. ASSUME NEW p \in Plans, ResumeUnregistered(p) PROVE Rest'
  <2>1. /\ queue[p].state = "DISPATCHING" /\ SaveJournal(At("acknowledge", p))
        /\ UNCHANGED <<clock, queue, queueDisk, inFlight, submitted>>
    BY <1>10, <1>i DEF ResumeUnregistered, CrashInv, Established
  <2>2. /\ journal'[p].state = "TERMINAL" /\ \A q \in Plans : q # p => journal'[q] = journal[q]
    BY <1>10, <1>t DEF ResumeUnregistered, Completed, TypeOK, Journals, JournalRecords
  <2> QED BY <2>1, <2>2, <1>j
<1>11. ASSUME NEW p \in Plans, NEW outcome \in Outcomes, HandlerFinishes(p, outcome) PROVE Rest'
  <2>1. \A q \in Plans : inFlight'[q] > 0 => inFlight[q] > 0
    BY <1>11, <1>f DEF HandlerFinishes
  <2>2. CASE Throw
    BY <1>11, <2>1, <2>2, <1>e, <1>h DEF HandlerFinishes, Throw
  <2>3. CASE ~Throw
    <3>1. /\ queue[p].state = "DISPATCHING" /\ SaveJournal(At("acknowledge", p))
          /\ UNCHANGED <<clock, queue, queueDisk, submitted>>
      BY <1>11, <2>3, <1>f DEF HandlerFinishes
    <3>2. /\ journal'[p].state = "TERMINAL" /\ \A q \in Plans : q # p => journal'[q] = journal[q]
      BY <1>11, <2>3, <1>t DEF HandlerFinishes, Completed, TypeOK, Journals, JournalRecords
    <3> QED BY <2>1, <3>1, <3>2, <1>j
  <2> QED BY <2>2, <2>3
<1>12. ASSUME NEW p \in Plans, HandlerMonitors(p) PROVE Rest'
  <2>1. \A q \in Plans : inFlight'[q] > 0 => inFlight[q] > 0
    BY <1>12, <1>f DEF HandlerMonitors
  <2>2. CASE Throw
    BY <1>12, <2>1, <2>2, <1>e, <1>h DEF HandlerMonitors, Throw
  <2>3. CASE ~Throw
    <3>1. /\ queue[p].state = "DISPATCHING" /\ SaveJournal(At("progress", p))
          /\ UNCHANGED <<clock, queue, queueDisk, submitted>>
      BY <1>12, <2>3, <1>f DEF HandlerMonitors
    <3>2. /\ journal'[p].state = "STARTED" /\ \A q \in Plans : q # p => journal'[q] = journal[q]
      BY <1>12, <2>3, <1>t DEF HandlerMonitors, TypeOK, Journals, JournalRecords
    <3> QED BY <2>1, <3>1, <3>2, <1>j
  <2> QED BY <2>2, <2>3
<1>13. ASSUME NEW p \in Plans, HandlerThrows(p) PROVE Rest'
  BY <1>13, <1>e, <1>f, <1>h DEF HandlerThrows, Returned
<1>14. ASSUME NEW p \in Plans, SubmitOrder(p) \/ CallHandler(p) PROVE Rest'
  <2>1. queue[p].state \in PastLease
    <3>1. CASE SubmitOrder(p)
      BY <3>1 DEF SubmitOrder, CrashInv, Linked
    <3>2. CASE CallHandler(p)
      BY <3>2, <1>i DEF CallHandler, CrashInv, Established, PastLease
    <3> QED BY <1>14, <3>1, <3>2
  <2>2. /\ UNCHANGED <<clock, stores>> /\ turn' = Idle
        /\ \A q \in Plans : q # p => /\ inFlight'[q] = inFlight[q]
                                     /\ q \in submitted' <=> q \in submitted
    BY <1>14, <1>t DEF SubmitOrder, CallHandler, TypeOK
  <2>3. \A q \in Plans : Linked(q, queue[q])'
    BY <2>1, <2>2 DEF stores, CrashInv, Linked
  <2> QED BY <2>2, <2>3, <1>e DEF stores, CrashInv, OnDisk, Written, SweptSince
<1>15. ASSUME Restart PROVE Rest'
  <2>1. /\ queue' = Written /\ journal' = journal /\ turn' = Idle
        /\ inFlight' = [p \in Plans |-> 0] /\ UNCHANGED <<clock, queueDisk, journalDisk, submitted>>
    BY <1>15, <1>o DEF Restart, CrashOnly, OnDisk, ReadBack, Restored, Settled
  <2>2. \A q \in Plans : Linked(q, queue[q])'
    BY <2>1 DEF CrashInv, SweptSince, Linked, PastLease
  <2> QED BY <2>1, <2>2, <1>o, <1>e DEF OnDisk, Written, SweptSince
<1>16. ASSUME Tick PROVE Rest'
  <2>1. clock' = clock + 1 /\ turn' = Idle /\ UNCHANGED <<stores, inFlight, submitted>>
    BY <1>16 DEF Tick
  <2>2. \A q \in Plans : EffectiveExpiry[q] < clock => EffectiveExpiry[q] < clock'
    BY <2>1, <1>t, ExpiryAssumption DEF TypeOK
  <2> QED BY <2>1, <2>2, <1>e DEF stores, CrashInv, OnDisk, Written, SweptSince, Linked
<1>17. ASSUME UNCHANGED vars PROVE Rest'
  <2>1. Established'
    BY <1>17 DEF vars, CrashInv, Established
  <2> QED BY <1>17, <2>1, <1>u DEF vars, stores
<1>18. Rest'
  BY <1>1, <1>2, <1>3, <1>4, <1>5, <1>6, <1>7, <1>8, <1>9, <1>10, <1>11, <1>12, <1>13,
     <1>14, <1>15, <1>16, <1>17 DEF Next, Intake, StartRun, Continue, Handler
<1> QED BY <1>18, <1>t DEF CrashInv

\* The invariant holds throughout when the process may only crash.
THEOREM CrashInvariant == CrashOnly => (Spec => []CrashInv)
<1> SUFFICES ASSUME CrashOnly PROVE Spec => []CrashInv
  OBVIOUS
<1>1. Init => CrashInv
  <2> SUFFICES ASSUME Init PROVE CrashInv
    OBVIOUS
  <2>1. OnDisk /\ \A p \in Plans : SweptSince(p)
    BY DEF Init, OnDisk, Settled, Written, SweptSince
  <2>2. Established
    BY DEF Init, Idle, Established
  <2>3. \A p \in Plans : Linked(p, queue[p])
    BY DEF Init, Linked, NoQueue, NoQueueRecord, NoJournal, NoJournalRecord
  <2> QED BY <2>1, <2>2, <2>3, SingleAtFirst DEF CrashInv
<1>2. CrashInv /\ [Next]_vars => CrashInv'
  BY CrashStep
<1> QED BY <1>1, <1>2, PTL DEF Spec

\* Queue and journal never disagree on how a dispatch ended, wherever a crash
\* falls between the journal's write and the queue's.
THEOREM OutcomesNeverDisagree == CrashOnly => (Spec => []OutcomesAgree)
<1> SUFFICES ASSUME CrashOnly PROVE Spec => []OutcomesAgree
  OBVIOUS
<1>1. CrashInv => OutcomesAgree
  BY DEF CrashInv, Linked, OutcomesAgree
<1> QED BY <1>1, CrashInvariant, PTL

\* journalStartedBeforeHandler: whatever a handler does can be traced after a
\* crash, because both journals already hold the dispatch when it starts.
THEOREM HandlersStayTraceable == CrashOnly => (Spec => []HandlersAreTraceable)
<1> SUFFICES ASSUME CrashOnly PROVE Spec => []HandlersAreTraceable
  OBVIOUS
<1>1. CrashInv => HandlersAreTraceable
  <2> SUFFICES ASSUME CrashInv, NEW p \in Plans, inFlight[p] > 0 \/ p \in submitted
               PROVE  /\ DurableJournal[p].state # "NONE"
                      /\ DurableQueue[p].state \in {"DISPATCHING", "COMPLETED", "REJECTED"}
    BY DEF HandlersAreTraceable
  <2>1. DurableJournal = journal /\ DurableQueue = Written
    BY DEF CrashInv, OnDisk, DurableJournal, DurableQueue, Restored, Settled
  <2>2. Linked(p, queue[p]) /\ SweptSince(p)
    BY DEF CrashInv
  <2> QED BY <2>1, <2>2 DEF Linked, SweptSince, PastLease
<1> QED BY <1>1, CrashInvariant, PTL

\* No step, restarts included, reopens or rewrites a settled plan or takes a
\* dispatching one back.
THEOREM SettledPlansStaySettled == CrashOnly => (Spec => SettledForever)
<1> SUFFICES ASSUME CrashOnly PROVE Spec => SettledForever
  OBVIOUS
<1> DEFINE Kept(p) ==
      /\ queue[p].state \in {"COMPLETED", "REJECTED"} => queue'[p] = queue[p]
      /\ queue[p].state = "DISPATCHING" =>
           queue'[p].state \in {"DISPATCHING", "COMPLETED", "REJECTED"}
      /\ journal[p].state = "TERMINAL" => journal'[p] = journal[p]
<1>1. ASSUME CrashInv, [Next]_vars, NEW q \in Plans PROVE Kept(q)
  <2>t. TypeOK
    BY <1>1 DEF CrashInv, SingleInv
  <2>i. /\ \A step, p : At(step, p).step = step /\ At(step, p).plan = p
    BY DEF At
  <2>s. Swept \in Queues /\ (queue[q].state \in PastLease \cup {"NONE"} => Swept[q] = queue[q])
    BY <2>t, SweptType, SweptMoves DEF PastLease
  <2>u. ASSUME UNCHANGED <<queue, journal>> PROVE Kept(q)
    BY <2>u
  <2>1. ASSUME NEW p \in Plans, Enqueue(p) \/ EnqueueAtCapacity(p) \/ SweepIdle \/ LeaseNext(p)
        PROVE  Kept(q)
    <3>1. UNCHANGED journal
      BY <2>1 DEF Enqueue, EnqueueAtCapacity, SweepIdle, LeaseNext
    <3>2. ASSUME queue[q].state \in PastLease PROVE queue'[q] = queue[q]
      <4>1. CASE Enqueue(p)
        BY <3>2, <4>1, <2>s DEF Enqueue, CanEnqueue, PastLease, Queues
      <4>2. CASE EnqueueAtCapacity(p) \/ SweepIdle
        BY <3>2, <4>2, <2>s DEF EnqueueAtCapacity, SweepIdle
      <4>3. CASE LeaseNext(p)
        BY <3>2, <4>3, <2>s DEF LeaseNext, Earliest, Leasable, PastLease, Queues
      <4> QED BY <2>1, <4>1, <4>2, <4>3
    <3> QED BY <3>1, <3>2 DEF PastLease
  <2>2. ASSUME NEW p \in Plans, BeginDispatch(p) PROVE Kept(q)
    <3>1. CASE Throw
      BY <3>1, <2>u DEF Throw, stores
    <3>2. CASE ~Throw
      BY <2>2, <3>2, <2>t DEF BeginDispatch, HoldsLease, TypeOK, Queues
    <3> QED BY <3>1, <3>2
  <2>3. ASSUME NEW p \in Plans, RecordProgress(p) \/ AcknowledgeDispatch(p) PROVE Kept(q)
    <3>1. CASE Throw
      BY <3>1, <2>u DEF Throw, stores
    <3>2. CASE ~Throw /\ RecordProgress(p)
      BY <3>2, <2>t DEF RecordProgress, TypeOK, Queues, QueueRecords
    <3>3. CASE ~Throw /\ AcknowledgeDispatch(p)
      BY <3>3, <2>t DEF AcknowledgeDispatch, QueueOutcome, TypeOK, Queues, QueueRecords
    <3> QED BY <2>3, <3>1, <3>2, <3>3
  <2>4. ASSUME NEW p \in Plans, BeginJournal(p) PROVE Kept(q)
    <3>1. CASE UNCHANGED stores
      BY <3>1, <2>u DEF stores
    <3>2. CASE ~UNCHANGED stores
      BY <2>4, <3>2, <2>t DEF BeginJournal, Throw, TypeOK, Journals
    <3> QED BY <3>1, <3>2
  <2>5. ASSUME NEW p \in Plans,
               \/ ResumeUnregistered(p) \/ HandlerMonitors(p)
               \/ \E outcome \in Outcomes : HandlerFinishes(p, outcome)
        PROVE  Kept(q)
    <3>1. CASE Throw
      BY <3>1, <2>u DEF Throw, stores
    <3>2. CASE ~Throw
      <4>1. UNCHANGED queue
        BY <2>5, <3>2 DEF ResumeUnregistered, HandlerMonitors, HandlerFinishes
      <4>2. ASSUME journal[q].state = "TERMINAL" PROVE journal'[q] = journal[q]
        BY <2>5, <3>2, <4>2, <2>t
           DEF ResumeUnregistered, HandlerMonitors, HandlerFinishes, Completed, TypeOK, Journals
      <4> QED BY <4>1, <4>2
    <3> QED BY <3>1, <3>2
  <2>6. ASSUME NEW p \in Plans, ResumeDispatching(p) \/ ResumePending(p) \/ ResumeTerminal(p)
                                \/ CallHandler(p) \/ SubmitOrder(p) \/ HandlerThrows(p)
        PROVE  Kept(q)
    BY <2>6, <2>u DEF ResumeDispatching, ResumePending, ResumeTerminal, CallHandler,
                      SubmitOrder, HandlerThrows, stores
  <2>7. ASSUME Restart PROVE Kept(q)
    <3>1. queue' = Written /\ journal' = journal
      BY <1>1, <2>7 DEF CrashInv, Restart, CrashOnly, OnDisk, ReadBack, Restored, Settled
    <3>2. SweptSince(q)
      BY <1>1 DEF CrashInv
    <3> QED BY <3>1, <3>2 DEF SweptSince
  <2>8. ASSUME Tick \/ UNCHANGED vars PROVE Kept(q)
    BY <2>8, <2>u DEF Tick, vars, stores
  <2> HIDE DEF Kept
  <2> QED BY <1>1, <2>1, <2>2, <2>3, <2>4, <2>5, <2>6, <2>7, <2>8
          DEF Next, Intake, StartRun, Continue, Handler
<1>2. CrashInv /\ [Next]_vars => [\A p \in Plans : Kept(p)]_vars
  BY <1>1
<1>3. Spec => [][\A p \in Plans : Kept(p)]_vars
  <2> HIDE DEF Kept
  <2> QED BY <1>2, CrashInvariant, PTL DEF Spec
<1> QED BY <1>3 DEF SettledForever

-----------------------------------------------------------------------------
(* The refinement of PlanExecution.  A plan's status is read off its journal  *)
(* record j, its written queue record r and the time t.                       *)

StatusOf(p, j, r, t) ==
  IF j.state = "TERMINAL" THEN j.outcome
  ELSE IF j.state = "STARTED" THEN "executing"
  ELSE IF r.state = "NONE" THEN "new"
  ELSE IF r.state = "EXPIRED" \/ EffectiveExpiry[p] < t THEN "lapsed"
  ELSE "waiting"

\* Which records of one plan give the same status: a sweep of the written record
\* shows only what the clock has shown before.
LEMMA SameStatus ==
  ASSUME NEW p \in Plans, NEW t, NEW j, NEW r, NEW k, NEW s,
         k.state = j.state, k.outcome = j.outcome,
         \/ j.state \in {"STARTED", "TERMINAL"}
         \/ s.state = r.state
         \/ /\ r.state \notin {"NONE", "EXPIRED"} /\ s.state # "NONE"
            /\ s.state = "EXPIRED" => EffectiveExpiry[p] < t
  PROVE  StatusOf(p, k, s, t) = StatusOf(p, j, r, t)
BY DEF StatusOf

\* Every step maps to a step of PlanExecution or to none.
LEMMA PromiseStep ==
  ASSUME CrashOnly, CrashInv, CrashInv', [Next]_vars
  PROVE  [Promise!Next]_PlanStatus
<1> DEFINE now(q) == StatusOf(q, journal[q], Written[q], clock)
           then(q) == StatusOf(q, journal'[q], Written'[q], clock')
<1>t. TypeOK /\ TypeOK'
  BY DEF CrashInv, SingleInv
<1>o. OnDisk /\ OnDisk'
  BY DEF CrashInv
<1>i. /\ Idle.step = "idle"
      /\ \A step, p : At(step, p).step = step /\ At(step, p).plan = p
  BY DEF Idle, At
<1>a. /\ PlanStatus = [q \in Plans |-> now(q)]
      /\ PlanStatus' = [q \in Plans |-> then(q)]
  <2>1. /\ DurableJournal = journal /\ DurableQueue = Written
        /\ DurableJournal' = journal' /\ DurableQueue' = Written'
    BY <1>o DEF OnDisk, DurableJournal, DurableQueue, Restored, Settled
  <2> QED BY <2>1 DEF PlanStatus, StatusOf
<1>j. \A q \in Plans : journal[q].state \in JournalStates
  BY <1>t DEF TypeOK, Journals, JournalRecords
<1>s. \A q \in Plans : SweptSince(q) /\ Linked(q, queue[q])
  BY DEF CrashInv
\* The steps of PlanExecution, plan by plan.
<1>n. ASSUME \A q \in Plans : then(q) = now(q) PROVE PlanStatus' = PlanStatus
  <2> HIDE DEF now, then
  <2> QED BY <1>n, <1>a
<1>sb. ASSUME NEW p \in Plans, now(p) = "new", then(p) = "waiting",
              \A q \in Plans : q # p => then(q) = now(q)
       PROVE  Promise!Next
  <2> HIDE DEF now, then
  <2>1. Promise!Submit(p)
    BY <1>sb, <1>a DEF Promise!Submit
  <2> QED BY <2>1 DEF Promise!Next
<1>st. ASSUME NEW p \in Plans, now(p) = "waiting", then(p) = "executing",
              \A q \in Plans : now(q) # "executing",
              \A q \in Plans : q # p => then(q) = now(q)
       PROVE  Promise!Next
  <2> HIDE DEF now, then
  <2>1. Promise!Start(p)
    BY <1>st, <1>a DEF Promise!Start
  <2> QED BY <2>1 DEF Promise!Next
<1>f. ASSUME NEW p \in Plans, NEW outcome \in Outcomes, now(p) = "executing", then(p) = outcome,
             \A q \in Plans : q # p => then(q) = now(q)
      PROVE  Promise!Next
  <2> HIDE DEF now, then
  <2>1. Promise!Finish(p, outcome)
    BY <1>f, <1>a DEF Promise!Finish
  <2> QED BY <2>1 DEF Promise!Next, Promise!PlanOutcomes, Outcomes
<1>l. ASSUME NEW S \in SUBSET Plans, \A q \in S : now(q) = "waiting" /\ then(q) = "lapsed",
             \A q \in Plans \ S : then(q) = now(q)
      PROVE  Promise!Next
  <2> HIDE DEF now, then
  <2>1. Promise!Lapse(S)
    BY <1>l, <1>a DEF Promise!Lapse
  <2> QED BY <2>1 DEF Promise!Next
<1>v. ASSUME NEW next, SaveQueue(next) PROVE Written' = queue'
  <2>1. queueDisk' = Settled(queue')
    BY <1>v, <1>o, QueueWritten
  <2> QED BY <2>1 DEF Written, Settled
\* A sweep that is written shows nothing new of a plan.
<1>w. ASSUME NEW q \in Plans, UNCHANGED <<clock, journal>>, Written'[q] = Swept[q]
      PROVE  then(q) = now(q)
  <2>1. \/ Swept[q].state = Written[q].state
        \/ /\ Written[q].state \in {"QUEUED", "LEASED"} /\ Swept[q].state \in {"QUEUED", "EXPIRED"}
           /\ Swept[q].state = "EXPIRED" => EffectiveExpiry[q] < clock
    BY <1>t, <1>s, SweptMoves DEF SweptSince
  <2> QED BY <1>w, <2>1, SameStatus
<1>u. ASSUME UNCHANGED <<clock, queueDisk>>,
             \A q \in Plans : journal'[q].state = journal[q].state
                              /\ journal'[q].outcome = journal[q].outcome
      PROVE  PlanStatus' = PlanStatus
  <2>1. \A q \in Plans : then(q) = now(q)
    BY <1>u, SameStatus DEF Written
  <2> QED BY <2>1, <1>n
<1>1. ASSUME NEW p \in Plans, Enqueue(p) PROVE Promise!Next
  <2>1. /\ queue' = [Swept EXCEPT ![p] = NewQueueRecord] /\ queue[p].state = "NONE"
        /\ UNCHANGED <<clock, journal>> /\ EffectiveExpiry[p] >= clock
    BY <1>1 DEF Enqueue, CanEnqueue
  <2>2. Written' = queue'
    BY <1>1, <1>v DEF Enqueue
  <2>3. \A q \in Plans : q # p => then(q) = now(q)
    BY <2>1, <2>2, <1>t, <1>w, SweptType DEF Queues
  <2>4. now(p) = "new"
    BY <2>1, <1>s DEF SweptSince, Linked, StatusOf
  <2>5. then(p) = "waiting"
    <3>1. Written'[p].state = "QUEUED" /\ journal'[p].state = "NONE"
      BY <2>1, <2>2, <1>t, <1>s, SweptType DEF NewQueueRecord, NoQueueRecord, Queues, Linked
    <3>2. ~(EffectiveExpiry[p] < clock')
      BY <2>1, <1>t, ExpiryAssumption DEF TypeOK
    <3> QED BY <3>1, <3>2 DEF StatusOf
  <2> QED BY <2>3, <2>4, <2>5, <1>sb
<1>2. ASSUME NEW p \in Plans, EnqueueAtCapacity(p) PROVE PlanStatus' = PlanStatus
  BY <1>2, <1>u DEF EnqueueAtCapacity
<1>3. ASSUME SweepIdle PROVE PlanStatus' = PlanStatus
  <2>1. Written' = Swept /\ UNCHANGED <<clock, journal>>
    BY <1>3, <1>v DEF SweepIdle
  <2> QED BY <2>1, <1>w, <1>n
<1>4. ASSUME NEW p \in Plans, LeaseNext(p) PROVE PlanStatus' = PlanStatus
  <2>1. /\ Swept[p].state = "QUEUED" /\ UNCHANGED <<clock, journal>>
        /\ EffectiveExpiry[p] >= clock
    BY <1>4 DEF LeaseNext, Earliest, Leasable
  <2>2. Written' = queue'
    BY <1>4, <1>v DEF LeaseNext
  <2>3. \A q \in Plans : q # p => then(q) = now(q)
    BY <1>4, <2>1, <2>2, <1>t, <1>w, SweptType DEF LeaseNext, Queues
  <2>4. Written'[p].state = "LEASED"
    BY <1>4, <2>2, <1>t, SweptType DEF LeaseNext, Queues, QueueRecords
  <2>5. Written[p].state \in {"QUEUED", "LEASED"}
    BY <2>1, <1>t, <1>s, SweptMoves DEF SweptSince
  <2>6. then(p) = now(p)
    BY <2>1, <2>4, <2>5, SameStatus
  <2> QED BY <2>3, <2>6, <1>n
<1>5. ASSUME NEW p \in Plans, BeginJournal(p) PROVE Promise!Next \/ PlanStatus' = PlanStatus
  <2>1. CASE UNCHANGED stores
    BY <1>5, <2>1, <1>u DEF BeginJournal, stores
  <2>2. CASE ~UNCHANGED stores
    <3>1. /\ journal[p].state = "NONE"
          /\ journal' = [journal EXCEPT ![p] =
               [NoJournalRecord EXCEPT !.state = "STARTED", !.startedAt = clock]]
          /\ UNCHANGED <<clock, queueDisk>>
      BY <1>5, <2>2 DEF BeginJournal, Throw
    <3>2. queue[p].state = "LEASED" /\ EffectiveExpiry[p] >= clock /\ Pending = {}
      BY <1>5, <1>i DEF BeginJournal, CrashInv, Established, SingleInv, AloneOnTheWay
    <3>3. now(p) = "waiting"
      <4>1. Written[p].state = "LEASED"
        BY <3>2, <1>s DEF SweptSince
      <4>2. ~(EffectiveExpiry[p] < clock)
        BY <3>2, <1>t, ExpiryAssumption DEF TypeOK
      <4> QED BY <3>1, <4>1, <4>2 DEF StatusOf
    <3>4. then(p) = "executing"
      BY <3>1, <1>t DEF TypeOK, Journals, NoJournalRecord, StatusOf
    <3>5. \A q \in Plans : now(q) # "executing"
      <4> SUFFICES ASSUME NEW q \in Plans PROVE now(q) # "executing"
        OBVIOUS
      <4>1. journal[q].state # "STARTED"
        BY <3>2 DEF Pending
      <4>2. journal[q].state = "TERMINAL" => journal[q].outcome # "executing"
        BY <1>t DEF TypeOK, Journals, JournalRecords, Outcomes
      <4> QED BY <4>1, <4>2 DEF StatusOf
    <3>6. \A q \in Plans : q # p => then(q) = now(q)
      BY <3>1, <1>t DEF TypeOK, Journals, Written
    <3> QED BY <3>3, <3>4, <3>5, <3>6, <1>st
  <2> QED BY <2>1, <2>2
<1>6. ASSUME NEW p \in Plans,
             BeginDispatch(p) \/ RecordProgress(p) \/ AcknowledgeDispatch(p)
      PROVE  PlanStatus' = PlanStatus
  <2>1. CASE Throw
    BY <1>6, <2>1, <1>u DEF BeginDispatch, RecordProgress, AcknowledgeDispatch, Throw, stores
  <2>2. CASE ~Throw
    <3>1. /\ UNCHANGED <<clock, journal>> /\ \A q \in Plans : q # p => queue'[q] = queue[q]
          /\ \E next : SaveQueue(next)
      BY <1>6, <2>2, <1>t
         DEF BeginDispatch, RecordProgress, AcknowledgeDispatch, TypeOK, Queues
    <3>2. Written' = queue'
      BY <3>1, <1>v
    <3>3. journal[p].state # "NONE"
      BY <1>6, <2>2, <1>i, <1>s DEF BeginDispatch, RecordProgress, AcknowledgeDispatch,
                                    CrashInv, Established, Linked
    <3>4. \A q \in Plans : q # p => then(q) = now(q)
      BY <3>1, <3>2, <1>s, SameStatus DEF SweptSince
    <3>5. then(p) = now(p)
      BY <3>1, <3>3, <1>j, SameStatus DEF JournalStates
    <3> QED BY <3>4, <3>5, <1>n
  <2> QED BY <2>1, <2>2
<1>c. ASSUME NEW p \in Plans, NEW outcome \in Outcomes, NEW performed,
             journal[p].state = "STARTED", journal' = Completed(p, outcome, performed),
             UNCHANGED <<clock, queueDisk>>
      PROVE  Promise!Next
  <2>1. now(p) = "executing"
    BY <1>c DEF StatusOf
  <2>2. then(p) = outcome /\ \A q \in Plans : q # p => then(q) = now(q)
    <3>1. /\ journal'[p].state = "TERMINAL" /\ journal'[p].outcome = outcome
          /\ \A q \in Plans : q # p => journal'[q] = journal[q]
      BY <1>c, <1>t DEF Completed, TypeOK, Journals, JournalRecords
    <3> QED BY <1>c, <3>1 DEF StatusOf, Written
  <2> QED BY <2>1, <2>2, <1>f
<1>7. ASSUME NEW p \in Plans, ResumeUnregistered(p) PROVE Promise!Next
  BY <1>7, <1>c DEF ResumeUnregistered, Outcomes
<1>8. ASSUME NEW p \in Plans, NEW outcome \in Outcomes, HandlerFinishes(p, outcome)
      PROVE  Promise!Next \/ PlanStatus' = PlanStatus
  <2>1. CASE Throw
    BY <1>8, <2>1, <1>u DEF HandlerFinishes, Throw, stores
  <2>2. CASE ~Throw
    BY <1>8, <2>2, <1>c DEF HandlerFinishes
  <2> QED BY <2>1, <2>2
<1>9. ASSUME NEW p \in Plans, HandlerMonitors(p) PROVE PlanStatus' = PlanStatus
  <2>1. CASE Throw
    BY <1>9, <2>1, <1>u DEF HandlerMonitors, Throw, stores
  <2>2. CASE ~Throw
    <3>1. UNCHANGED <<clock, queueDisk>>
      BY <1>9, <2>2 DEF HandlerMonitors
    <3>2. \A q \in Plans : journal'[q].state = journal[q].state
                           /\ journal'[q].outcome = journal[q].outcome
      BY <1>9, <2>2, <1>t DEF HandlerMonitors, TypeOK, Journals, JournalRecords
    <3> QED BY <3>1, <3>2, <1>u
  <2> QED BY <2>1, <2>2
<1>10. ASSUME NEW p \in Plans, ResumeDispatching(p) \/ ResumePending(p) \/ ResumeTerminal(p)
                               \/ CallHandler(p) \/ SubmitOrder(p) \/ HandlerThrows(p)
       PROVE  PlanStatus' = PlanStatus
  BY <1>10, <1>u DEF ResumeDispatching, ResumePending, ResumeTerminal, CallHandler,
                     SubmitOrder, HandlerThrows, stores
<1>11. ASSUME Restart PROVE PlanStatus' = PlanStatus
  <2>1. journal' = journal /\ UNCHANGED <<clock, queueDisk>>
    BY <1>11, <1>o DEF Restart, CrashOnly, OnDisk, ReadBack, Restored, Settled
  <2> QED BY <2>1, <1>u
<1>12. ASSUME Tick PROVE Promise!Next
  <2> DEFINE S == {q \in Plans : now(q) = "waiting" /\ then(q) = "lapsed"}
  <2>1. clock' = clock + 1 /\ UNCHANGED <<queueDisk, journal>>
    BY <1>12 DEF Tick, stores
  <2>2. \A q \in Plans : EffectiveExpiry[q] < clock => EffectiveExpiry[q] < clock'
    BY <2>1, <1>t, ExpiryAssumption DEF TypeOK
  <2>3. \A q \in Plans \ S : then(q) = now(q)
    BY <2>1, <2>2 DEF StatusOf, Written
  <2>4. /\ S \in SUBSET Plans
        /\ \A q \in S : now(q) = "waiting" /\ then(q) = "lapsed"
    OBVIOUS
  <2> HIDE DEF S, now, then
  <2> QED BY <2>3, <2>4, <1>l
<1>13. ASSUME UNCHANGED vars PROVE PlanStatus' = PlanStatus
  BY <1>13, <1>u DEF vars
<1> QED BY <1>1, <1>2, <1>3, <1>4, <1>5, <1>6, <1>7, <1>8, <1>9, <1>10, <1>11, <1>12, <1>13
        DEF Next, Intake, StartRun, Continue, Handler

\* The dispatch spine keeps the promise of PlanExecution: read off what is
\* durable, no plan starts twice, after it lapsed or beside another, or ends
\* twice, for any number of plans and of crashes between any two writes.
THEOREM PromiseIsKept == CrashOnly => (Spec => PromiseKept)
<1> SUFFICES ASSUME CrashOnly PROVE Spec => PromiseKept
  OBVIOUS
<1>1. Init => Promise!Init
  BY DEF Init, Promise!Init, PlanStatus, DurableJournal, DurableQueue, Restored, Settled,
         NoQueue, NoQueueRecord, NoJournal, NoJournalRecord
<1>2. CrashInv /\ CrashInv' /\ [Next]_vars => [Promise!Next]_PlanStatus
  BY PromiseStep
<1> QED BY <1>1, <1>2, CrashInvariant, PTL DEF Spec, PromiseKept, Promise!Spec

-----------------------------------------------------------------------------
(* The two journals are journals of module JsonlSnapshotDisk, whatever fails: *)
(* nothing but appends of the owner's whole map ever reaches them.  So what   *)
(* module JsonlSnapshotFile shows of such a journal is true of these two.     *)

QueueFile == INSTANCE JsonlSnapshotDisk WITH disk <- queueDisk, Payloads <- Queues, Blank <- NoQueue
OutcomeFile ==
  INSTANCE JsonlSnapshotDisk WITH disk <- journalDisk, Payloads <- Journals, Blank <- NoJournal

\* What an append of s, complete or broken off, leaves of disk d.
Appends(d, e, s) == e = Appended(d, s) \/ e \in BrokenOff(d, s)

\* A step appends to one of the files, the map of its owner, or writes nothing.
LEMMA StepAppends ==
  ASSUME [Next]_vars
  PROVE  /\ queueDisk' = queueDisk \/ Appends(queueDisk, queueDisk', queue')
         /\ journalDisk' = journalDisk \/ Appends(journalDisk, journalDisk', journal')
<1>q. ASSUME NEW then, SaveQueue(then)
      PROVE  queueDisk' = queueDisk \/ Appends(queueDisk, queueDisk', queue')
  BY <1>q DEF SaveQueue, AppendBreaks, Appends
<1>j. ASSUME NEW then, SaveJournal(then)
      PROVE  journalDisk' = journalDisk \/ Appends(journalDisk, journalDisk', journal')
  BY <1>j DEF SaveJournal, AppendBreaks, Appends
<1>1. ASSUME Intake \/ StartRun
      PROVE  /\ queueDisk' = queueDisk \/ \E then : SaveQueue(then)
             /\ journalDisk' = journalDisk
  BY <1>1 DEF Intake, StartRun, Enqueue, EnqueueAtCapacity, SweepIdle, ResumeDispatching,
              ResumePending, LeaseNext, stores
<1>2. ASSUME Continue
      PROVE  /\ queueDisk' = queueDisk \/ \E then : SaveQueue(then)
             /\ journalDisk' = journalDisk \/ \E then : SaveJournal(then)
  <2>1. PICK p \in Plans :
          \/ BeginJournal(p) \/ BeginDispatch(p) \/ ResumeTerminal(p) \/ ResumeUnregistered(p)
          \/ CallHandler(p) \/ RecordProgress(p) \/ AcknowledgeDispatch(p)
    BY <1>2 DEF Continue
  <2>2. CASE BeginJournal(p) \/ ResumeUnregistered(p)
    BY <2>2 DEF BeginJournal, ResumeUnregistered, Throw, stores
  <2>3. CASE BeginDispatch(p) \/ RecordProgress(p) \/ AcknowledgeDispatch(p)
    BY <2>3 DEF BeginDispatch, RecordProgress, AcknowledgeDispatch, Throw, stores
  <2>4. CASE ResumeTerminal(p) \/ CallHandler(p)
    BY <2>4 DEF ResumeTerminal, CallHandler, stores
  <2> QED BY <2>1, <2>2, <2>3, <2>4
<1>3. ASSUME Handler
      PROVE  /\ queueDisk' = queueDisk
             /\ journalDisk' = journalDisk \/ \E then : SaveJournal(then)
  BY <1>3 DEF Handler, SubmitOrder, HandlerThrows, HandlerMonitors, HandlerFinishes, Throw, stores
<1>4. CASE Restart \/ Tick \/ UNCHANGED vars
  BY <1>4 DEF Restart, Tick, vars, stores
<1> QED BY <1>q, <1>j, <1>1, <1>2, <1>3, <1>4 DEF Next

\* Both journals of the dispatch spine are journals of JsonlSnapshotDisk, under every
\* fault: the spine never writes to them but by append().
THEOREM JournalsAreAppended == Spec => QueueFile!Spec /\ OutcomeFile!Spec
<1>1. Init => QueueFile!Init /\ OutcomeFile!Init
  BY DEF Init, QueueFile!Init, OutcomeFile!Init, QueueFile!Settled, OutcomeFile!Settled, Settled
<1>2. TypeOK /\ TypeOK' /\ [Next]_vars
        => [QueueFile!Next]_queueDisk /\ [OutcomeFile!Next]_journalDisk
  <2> SUFFICES ASSUME TypeOK', [Next]_vars
               PROVE  [QueueFile!Next]_queueDisk /\ [OutcomeFile!Next]_journalDisk
    OBVIOUS
  <2>1. queue' \in Queues /\ journal' \in Journals
    BY DEF TypeOK
  <2>2. Appends(queueDisk, queueDisk', queue') => QueueFile!Next
    BY <2>1 DEF Appends, QueueFile!Next, QueueFile!Appended, QueueFile!BrokenOff,
                QueueFile!Settled, Appended, BrokenOff, Settled
  <2>3. Appends(journalDisk, journalDisk', journal') => OutcomeFile!Next
    BY <2>1 DEF Appends, OutcomeFile!Next, OutcomeFile!Appended, OutcomeFile!BrokenOff,
                OutcomeFile!Settled, Appended, BrokenOff, Settled
  <2> QED BY <2>2, <2>3, StepAppends
<1> QED BY <1>1, <1>2, TypeCorrect, PTL DEF Spec, QueueFile!Spec, OutcomeFile!Spec
=============================================================================
