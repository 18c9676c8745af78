------------------- MODULE CentralLiveOrderGatewayProofs --------------------
(***************************************************************************)
(* Proofs about CentralLiveOrderGateway, for any number of keys, callers,  *)
(* lots and restarts: typing, one submission per key, and, where appends   *)
(* do not fail, results that are final and fills that the venue has.       *)
(***************************************************************************)
EXTENDS CentralLiveOrderGateway, JsonlSnapshotStoreTheorems

-----------------------------------------------------------------------------
(* Typing of the building blocks *)

\* The constant records, results and the idle call have their types.
LEMMA RecordTypes ==
  /\ NoResult \in Results /\ FailedResult \in Results
  /\ NoRecord \in Records /\ Prepared \in Records /\ Uncertain \in Records
  /\ IdleCall \in Calls
<1>1. 0 \in 0..Quantity
  BY GatewayBoundsAssumption
<1>2. NoResult \in Results /\ FailedResult \in Results
  BY <1>1 DEF NoResult, FailedResult, Results, Statuses
<1>3. NoRecord \in Records
  BY <1>1, <1>2 DEF NoRecord, Records, States
<1>4. Prepared \in Records /\ Uncertain \in Records
  BY <1>3 DEF Prepared, Uncertain, Records, States
<1> QED BY <1>2, <1>3, <1>4 DEF IdleCall, Calls

\* A record keeps its type when its fields are replaced one by one.
LEMMA RecordUpdates ==
  ASSUME NEW r \in Records, NEW s \in States, NEW x \in Results, NEW b \in BOOLEAN
  PROVE  /\ [r EXCEPT !.state = s] \in Records
         /\ [r EXCEPT !.state = s, !.result = x] \in Records
         /\ \A n \in 0..Quantity : [r EXCEPT !.state = s, !.fees = n] \in Records
         /\ [r EXCEPT !.state = s, !.result = x, !.fees = 0] \in Records
         /\ [r EXCEPT !.cancelRequested = b] \in Records
         /\ [r EXCEPT !.state = s, !.fees = 0] \in Records
         /\ r.result \in Results /\ r.state \in States
<1>1. 0 \in 0..Quantity
  BY GatewayBoundsAssumption
<1> QED BY <1>1 DEF Records

\* A call that waits carries a key and a record.
LEMMA WaitingType ==
  ASSUME NEW kind \in Kinds \ {"idle"}, NEW k \in Keys, NEW r \in Records
  PROVE  Waiting(kind, k, r) \in Calls
BY RecordTypes DEF Waiting, Calls

\* What a call that is not idle carries.
LEMMA CallFields ==
  ASSUME TypeOK, NEW c \in Callers, call[c].kind # "idle"
  PROVE  /\ call[c].key \in Keys
         /\ call[c].seen \in Records
         /\ call[c].reply \in Results
         /\ call[c].kind \in Kinds \ {"idle"}
         /\ \A x \in Results : [call[c] EXCEPT !.reply = x] \in Calls
BY DEF TypeOK, Calls, Kinds

\* What an adapter reads of an order is a result.
LEMMA ViewType ==
  ASSUME TypeOK, NEW k \in Keys
  PROVE  View(k) \in Results
BY DEF TypeOK, View, Results, Orders, Statuses

\* A result keeps its type under another status.
LEMMA StatusUpdate ==
  ASSUME NEW x \in Results, NEW s \in Statuses
  PROVE  [x EXCEPT !.status = s] \in Results
BY DEF Results

\* What the poller's call becomes when the order is accepted.
LEMMA AcceptedType ==
  ASSUME NEW k \in Keys, NEW r \in Records
  PROVE  [Waiting("poll", k, r) EXCEPT
            !.reply = [known |-> TRUE, status |-> "OPEN", filled |-> 0]] \in Calls
<1>1. [known |-> TRUE, status |-> "OPEN", filled |-> 0] \in Results
  BY GatewayBoundsAssumption DEF Results, Statuses
<1> QED BY <1>1 DEF Waiting, Calls, Kinds

\* Every way of storing a record keeps memory and disk typed.
LEMMA StoreTypes ==
  ASSUME TypeOK, NEW k \in Keys, NEW r \in Records, NEW f \in Records,
         Store(k, r) \/ StoreBreaks(k, r) \/ StoreFallsBack(k, r, f)
  PROVE  record' \in RecordMaps /\ disk' \in DiskOf(RecordMaps)
<1>1. \A x \in Records : With(k, x) \in RecordMaps
  BY DEF TypeOK, With, RecordMaps
<1>2. \A d \in DiskOf(RecordMaps) : \A m \in RecordMaps :
        Appended(d, m) \in DiskOf(RecordMaps) /\ Broken(d, m) \subseteq DiskOf(RecordMaps)
  BY DiskTypes DEF Broken
<1>3. disk \in DiskOf(RecordMaps)
  BY DEF TypeOK
<1> QED BY <1>1, <1>2, <1>3 DEF Store, StoreBreaks, StoreFallsBack

\* Receiving the adapter's reply to execute() keeps everything typed.
LEMMA ReceiveTypes ==
  ASSUME TypeOK, NEW c \in Callers, NEW k \in Keys, NEW x \in Results,
         ReceiveExecution(c, k, x)
  PROVE  /\ record' \in RecordMaps /\ disk' \in DiskOf(RecordMaps)
         /\ call' \in [Callers -> Calls] /\ busy' \in SUBSET Callers
<1> DEFINE stored == [Prepared EXCEPT !.state = "ORDER_RECORDED", !.result = x]
<1>1. stored \in Records /\ Uncertain \in Records
  BY RecordTypes, RecordUpdates DEF States
<1>2. /\ Waiting("enrich", k, stored) \in Calls /\ Waiting("unattached", k, stored) \in Calls
      /\ IdleCall \in Calls
  BY <1>1, RecordTypes, WaitingType DEF Kinds
<1>3. call' \in [Callers -> Calls] /\ busy' \in SUBSET Callers
  BY <1>2 DEF ReceiveExecution, Goes, Ends, TypeOK
<1>4. CASE Store(k, stored)
  BY <1>4, <1>1, <1>3, StoreTypes
<1>5. CASE Store(k, Uncertain) \/ StoreBreaks(k, Uncertain)
  BY <1>5, <1>1, <1>3, StoreTypes
<1>6. CASE StoreFallsBack(k, stored, Uncertain)
  BY <1>6, <1>1, <1>3, StoreTypes
<1> QED BY <1>4, <1>5, <1>6 DEF ReceiveExecution

-----------------------------------------------------------------------------
(* Type correctness *)

\* Every step keeps the types.
LEMMA TypeStep == TypeOK /\ [Next]_vars => TypeOK'
<1> SUFFICES ASSUME TypeOK, [Next]_vars PROVE TypeOK'
  OBVIOUS
<1> USE RecordTypes
<1>1. ASSUME NEW c \in Callers, NEW k \in Keys, Prepare(c, k) PROVE TypeOK'
  <2>1. record' \in RecordMaps /\ disk' \in DiskOf(RecordMaps)
    BY <1>1, StoreTypes DEF Prepare
  <2>2. call' \in [Callers -> Calls]
    BY <1>1, WaitingType DEF Prepare, Goes, TypeOK, Kinds
  <2> QED BY <1>1, <2>1, <2>2 DEF Prepare, TypeOK
<1>2. ASSUME NEW c \in Callers, NEW k \in Keys, Reconcile(c, k) PROVE TypeOK'
  <2>1. record[k] \in Records
    BY DEF TypeOK, RecordMaps
  <2>2. call' \in [Callers -> Calls] /\ busy' \in SUBSET Callers
    BY <1>2, <2>1, WaitingType DEF Reconcile, Goes, TypeOK, Kinds
  <2> QED BY <1>2, <2>2 DEF Reconcile, TypeOK
<1>3. ASSUME NEW c \in Callers, NEW k \in Keys, Cancel(c, k) PROVE TypeOK'
  <2> DEFINE requested == [record[k] EXCEPT !.cancelRequested = TRUE]
  <2>1. record[k] \in Records /\ requested \in Records
    BY RecordUpdates DEF TypeOK, RecordMaps, States
  <2>2. call' \in [Callers -> Calls] /\ busy' \in SUBSET Callers
    BY <1>3, <2>1, WaitingType DEF Cancel, Goes, TypeOK, Kinds
  <2>3. record' \in RecordMaps /\ disk' \in DiskOf(RecordMaps)
    <3>1. CASE UNCHANGED <<record, disk>>
      BY <3>1 DEF TypeOK
    <3>2. CASE Store(k, requested) \/ StoreBreaks(k, requested)
      BY <3>2, <2>1, StoreTypes
    <3> QED BY <1>3, <3>1, <3>2 DEF Cancel
  <2> QED BY <1>3, <2>2, <2>3 DEF Cancel, TypeOK
<1>4. ASSUME NEW c \in Callers, NEW k \in Keys, Place(k) PROVE order' \in [Keys -> Orders]
  BY <1>4, GatewayBoundsAssumption DEF Place, TypeOK, Orders
<1>5. ASSUME NEW c \in Callers, CreateAccepted(c) PROVE TypeOK'
  <2>1. PICK k \in Keys : /\ Is(c, "create", k) /\ Place(k)
                          /\ Goes(c, [Waiting("poll", k, call[c].seen) EXCEPT
                                    !.reply = [known |-> TRUE, status |-> "OPEN", filled |-> 0]])
                          /\ UNCHANGED <<record, disk, busy, restarts>>
    BY <1>5 DEF CreateAccepted
  <2>2. call' \in [Callers -> Calls]
    BY <2>1, CallFields, AcceptedType DEF Is, Goes, TypeOK
  <2> QED BY <2>1, <2>2, <1>4 DEF TypeOK
<1>6. ASSUME NEW c \in Callers,
             CreateRefused(c) \/ CreateReplyLost(c) \/ PollFails(c) \/ PollEnds(c)
      PROVE  TypeOK'
  <2>1. PICK k \in Keys, x \in Results : ReceiveExecution(c, k, x)
    <3>1. ASSUME NEW k \in Keys, Is(c, "poll", k)
          PROVE  [call[c].reply EXCEPT !.status = IF @ = "OPEN" THEN "TIMED_OUT" ELSE @] \in Results
      <4>1. call[c].reply \in Results
        BY <3>1, CallFields DEF Is
      <4> QED BY <4>1 DEF Results, Statuses
    <3> QED BY <1>6, <3>1 DEF CreateRefused, CreateReplyLost, PollFails, PollEnds
  <2>2. order' \in [Keys -> Orders]
    <3>1. UNCHANGED order \/ \E j \in Keys : Place(j)
      BY <1>6 DEF CreateRefused, CreateReplyLost, PollFails, PollEnds
    <3> QED BY <3>1, <1>4 DEF TypeOK
  <2>3. UNCHANGED restarts
    BY <1>6 DEF CreateRefused, CreateReplyLost, PollFails, PollEnds
  <2> QED BY <2>1, <2>2, <2>3, ReceiveTypes DEF TypeOK
<1>v. ASSUME NEW k \in Keys, UNCHANGED order \/ CancelAt(k)
      PROVE  order' \in [Keys -> Orders] /\ View(k)' \in Results
  <2>1. order' \in [Keys -> Orders]
    BY <1>v DEF CancelAt, TypeOK, Orders
  <2>2. View(k)' = [known |-> TRUE, status |-> order'[k].status, filled |-> order'[k].filled]
    BY DEF View
  <2>3. order'[k].status \in {"NONE", "OPEN", "FILLED", "CANCELLED"} /\ order'[k].filled \in 0..Quantity
    BY <2>1 DEF Orders
  <2> QED BY <2>1, <2>2, <2>3 DEF Results, Statuses
<1>7. ASSUME NEW c \in Callers, StatusRead(c) \/ PollReads(c) \/ PollCancels(c) PROVE TypeOK'
  <2>1. PICK k \in Keys :
          /\ call[c].kind \in {"status", "cancel", "poll"} /\ call[c].key = k
          /\ UNCHANGED order \/ CancelAt(k)
          /\ \E x \in {View(k), View(k)', [call[c].reply EXCEPT !.status = "TIMED_OUT"]} :
               Goes(c, Answered(c, x))
          /\ UNCHANGED <<record, disk, busy, restarts>>
    BY <1>7 DEF StatusRead, PollReads, PollCancels, Is
  <2>2. [call[c].reply EXCEPT !.status = "TIMED_OUT"] \in Results
    BY <2>1, CallFields, StatusUpdate DEF Statuses
  <2>3. call' \in [Callers -> Calls]
    BY <2>1, <2>2, <1>v, ViewType, CallFields DEF Answered, Goes, TypeOK
  <2> QED BY <2>1, <2>3, <1>v DEF TypeOK
<1>8. ASSUME NEW c \in Callers, StatusReturns(c) PROVE TypeOK'
  <2> DEFINE seen == call[c].seen
             updated == [seen EXCEPT !.state = "ORDER_RECORDED", !.result = call[c].reply,
                                     !.fees = 0]
             incomplete == [seen EXCEPT !.state = "EVIDENCE_INCOMPLETE"]
             fallback == IF call[c].kind = "cancel" THEN seen ELSE incomplete
  <2>1. PICK k \in Keys :
          /\ Is(c, "status", k) \/ Is(c, "cancel", k)
          /\ \/ /\ Store(k, updated)
                /\ Goes(c, Waiting("enrich", k, updated))
                /\ busy' = {c}
             \/ StoreFallsBack(k, updated, fallback) /\ Ends(c) /\ UNCHANGED busy
          /\ UNCHANGED <<order, restarts>>
    BY <1>8 DEF StatusReturns
  <2>2. seen \in Records /\ call[c].reply \in Results
    BY <2>1, CallFields DEF Is
  <2>3. incomplete \in Records /\ fallback \in Records
    BY <2>2, RecordUpdates DEF States
  <2>4. updated \in Records
    BY <2>2, RecordUpdates DEF States
  <2>5. record' \in RecordMaps /\ disk' \in DiskOf(RecordMaps)
    <3> HIDE DEF updated, fallback
    <3> QED BY <2>1, <2>3, <2>4, StoreTypes
  <2>6. call' \in [Callers -> Calls] /\ busy' \in SUBSET Callers
    <3> HIDE DEF updated
    <3> QED BY <2>1, <2>4, WaitingType DEF Goes, Ends, TypeOK, Kinds
  <2> QED BY <2>1, <2>5, <2>6 DEF TypeOK
<1>9. ASSUME NEW c \in Callers, StatusFails(c) PROVE TypeOK'
  <2> DEFINE seen == call[c].seen
             failed == IF call[c].kind = "cancel" THEN seen
                       ELSE [seen EXCEPT !.state = "EVIDENCE_INCOMPLETE"]
  <2>1. PICK k \in Keys : /\ Is(c, "status", k) \/ Is(c, "cancel", k)
                          /\ Store(k, failed) \/ StoreBreaks(k, failed)
                          /\ Ends(c)
                          /\ UNCHANGED <<busy, order, restarts>>
    BY <1>9 DEF StatusFails
  <2>2. failed \in Records
    BY <2>1, CallFields, RecordUpdates DEF Is, States
  <2>3. record' \in RecordMaps /\ disk' \in DiskOf(RecordMaps)
    <3> HIDE DEF failed
    <3> QED BY <2>1, <2>2, StoreTypes
  <2> QED BY <2>1, <2>3 DEF Ends, Goes, TypeOK
<1>10. ASSUME NEW c \in Callers, Enrich(c) PROVE TypeOK'
  <2> DEFINE seen == call[c].seen
             complete == [seen EXCEPT !.state = "FEE_RECONCILED", !.fees = 0]
  <2>1. PICK k \in Keys :
          /\ Is(c, "enrich", k)
          /\ \/ Ends(c) /\ (Store(k, complete) \/ StoreBreaks(k, complete))
             \/ /\ Goes(c, Waiting("fees", k, seen)) \/ Ends(c)
                /\ UNCHANGED <<record, disk>>
          /\ busy' = {} /\ UNCHANGED <<order, restarts>>
    BY <1>10 DEF Enrich
  <2>2. seen \in Records /\ complete \in Records
    BY <2>1, CallFields, RecordUpdates DEF Is, States
  <2>3. record' \in RecordMaps /\ disk' \in DiskOf(RecordMaps)
    <3> HIDE DEF complete
    <3> QED BY <2>1, <2>2, StoreTypes DEF TypeOK
  <2>4. call' \in [Callers -> Calls]
    BY <2>1, <2>2, WaitingType DEF Goes, Ends, TypeOK, Kinds
  <2> QED BY <2>1, <2>3, <2>4 DEF TypeOK
<1>11. ASSUME NEW c \in Callers, FeesReturn(c) PROVE TypeOK'
  <2> DEFINE seen == call[c].seen
             inspected(state, n) == [seen EXCEPT !.state = state, !.fees = n]
             failed == [seen EXCEPT !.state = "EVIDENCE_INCOMPLETE"]
  <2>1. PICK k \in Keys, fills \in 0..Quantity :
          /\ Is(c, "fees", k)
          /\ \/ \E state \in {"FEE_RECONCILED", "EVIDENCE_INCOMPLETE"} :
                  \/ Store(k, inspected(state, fills))
                  \/ StoreFallsBack(k, inspected(state, fills), failed)
             \/ Store(k, failed) \/ StoreBreaks(k, failed)
          /\ Ends(c)
          /\ UNCHANGED <<busy, order, restarts>>
    BY <1>11 DEF FeesReturn
  <2>2. failed \in Records
    BY <2>1, CallFields, RecordUpdates DEF Is, States
  <2>3. \A state \in {"FEE_RECONCILED", "EVIDENCE_INCOMPLETE"} : inspected(state, fills) \in Records
    BY <2>1, CallFields, RecordUpdates DEF Is, States
  <2>4. record' \in RecordMaps /\ disk' \in DiskOf(RecordMaps)
    <3> HIDE DEF inspected, failed
    <3> QED BY <2>1, <2>2, <2>3, StoreTypes
  <2> QED BY <2>1, <2>4 DEF Ends, Goes, TypeOK
<1>u. ASSUME NEW c \in Callers, Unattached(c) PROVE TypeOK'
  <2> DEFINE incomplete == [call[c].seen EXCEPT !.state = "EVIDENCE_INCOMPLETE"]
  <2>1. PICK k \in Keys :
          /\ Is(c, "unattached", k)
          /\ Store(k, incomplete) \/ StoreFallsBack(k, incomplete, Uncertain)
          /\ Ends(c) /\ busy' = {} /\ UNCHANGED <<order, restarts>>
    BY <1>u DEF Unattached
  <2>2. incomplete \in Records
    BY <2>1, CallFields, RecordUpdates DEF Is, States
  <2>3. record' \in RecordMaps /\ disk' \in DiskOf(RecordMaps)
    <3> HIDE DEF incomplete
    <3> QED BY <2>1, <2>2, StoreTypes
  <2> QED BY <2>1, <2>3 DEF Ends, Goes, TypeOK
<1>12. ASSUME NEW k \in Keys, Fill(k) PROVE TypeOK'
  <2>1. order[k].filled + 1 \in 0..Quantity
    BY <1>12, GatewayBoundsAssumption DEF Fill, TypeOK, Orders
  <2>2. order' \in [Keys -> Orders]
    BY <1>12, <2>1 DEF Fill, TypeOK, Orders
  <2> QED BY <1>12, <2>2 DEF Fill, TypeOK
<1>x. ASSUME NEW k \in Keys, Expire(k) PROVE TypeOK'
  BY <1>x DEF Expire, TypeOK, Orders
<1>13. CASE Restart
  <2>1. NoRecords \in RecordMaps
    BY DEF NoRecords, RecordMaps
  <2>2. record' \in RecordMaps
    BY <1>13, <2>1, ReadTypes DEF Restart, TypeOK
  <2> QED BY <1>13, <2>2 DEF Restart, TypeOK
<1>14. CASE UNCHANGED vars
  BY <1>14 DEF vars, TypeOK
<1> QED BY <1>1, <1>2, <1>3, <1>5, <1>6, <1>7, <1>8, <1>9, <1>10, <1>11, <1>12,
           <1>13, <1>14, <1>u, <1>x
        DEF Next, Begin, Continue

\* The initial state is well typed.
LEMMA InitTyped == Init => TypeOK
<1>1. NoRecords \in RecordMaps
  BY RecordTypes DEF NoRecords, RecordMaps
<1>2. Settled(NoRecords) \in DiskOf(RecordMaps)
  BY <1>1 DEF Settled, DiskOf, TailKinds
<1>3. 0 \in 0..Quantity
  BY GatewayBoundsAssumption
<1>4. NoOrder \in Orders
  BY <1>3 DEF NoOrder, Orders
<1> QED BY <1>1, <1>2, <1>4, RecordTypes DEF Init, TypeOK

\* The variables keep their types, for any number of keys, callers and crashes
\* and every fault the model knows.
THEOREM TypeCorrect == Spec => []TypeOK
<1>1. Init => TypeOK
  BY InitTyped
<1>2. TypeOK /\ [Next]_vars => TypeOK'
  BY TypeStep
<1> QED BY <1>1, <1>2, PTL DEF Spec

-----------------------------------------------------------------------------
(* At most one submission.  The journal must be one whose appends, when they *)
(* return, are durable: then its tail is always clean and memory never falls *)
(* behind it.                                                                *)

\* Nothing follows the last newline, and memory knows every journaled key.
JournalIntact ==
  /\ disk = Settled(disk.base)
  /\ \A k \in Keys : disk.base[k].state # "NONE" => record[k].state # "NONE"

\* Whoever is about to create an order is alone, first, and has journaled it.
OneCreator == \A c \in Callers, k \in Keys : Is(c, "create", k) =>
  /\ order[k].placed = 0
  /\ disk.base[k].state # "NONE"
  /\ \A d \in Callers : Is(d, "create", k) => d = c

\* What was sent was journaled, and was sent once.
SentOnce == \A k \in Keys :
  order[k].placed > 0 => order[k].placed = 1 /\ disk.base[k].state # "NONE"

\* No call carries an empty record, so none can erase a key.
CallsCarryRecords == \A c \in Callers :
  call[c].kind # "idle" => call[c].seen.state # "NONE"

\* What the proof asks of the file system: a write is all or nothing and the
\* journal can be read back after a crash.
DurableAppends == "tornAppend" \notin Faults /\ "failedRead" \notin Faults

SubmissionInv == TypeOK /\ JournalIntact /\ OneCreator /\ SentOnce /\ CallsCarryRecords

\* Whatever way a record is stored, the journal stays intact and no key leaves it.
LEMMA StoreKeepsJournal ==
  ASSUME TypeOK, JournalIntact, DurableAppends,
         NEW k \in Keys, NEW r \in Records, NEW f \in Records,
         r.state # "NONE", f.state # "NONE",
         Store(k, r) \/ StoreBreaks(k, r) \/ StoreFallsBack(k, r, f)
  PROVE  /\ JournalIntact'
         /\ \A j \in Keys : disk.base[j].state # "NONE" => disk'.base[j].state # "NONE"
         /\ Store(k, r) => disk'.base[k].state # "NONE"
<1> DEFINE Kept(m) == \A j \in Keys : disk.base[j].state # "NONE" => m[j].state # "NONE"
<1>1. disk.tail = "clean"
  BY DEF JournalIntact, Settled
<1>2. \A m \in RecordMaps : Appended(disk, m) = Settled(m) /\ Broken(disk, m) \subseteq {disk}
  BY <1>1 DEF Appended, Broken, DurableAppends
<1>3. With(k, r) \in RecordMaps /\ With(k, f) \in RecordMaps
  BY DEF TypeOK, With, RecordMaps
<1>4. /\ Kept(With(k, r)) /\ With(k, r)[k].state # "NONE"
      /\ Kept(With(k, f)) /\ With(k, f)[k].state # "NONE"
  BY DEF JournalIntact, TypeOK, With, RecordMaps
<1>5. \/ record' = With(k, r) /\ disk' = Settled(With(k, r))
      \/ record' \in {With(k, r), With(k, f)} /\ disk' = disk /\ ~Store(k, r)
      \/ record' \in {With(k, r), With(k, f)} /\ disk' = Settled(record')
         /\ disk'.base[k].state # "NONE"
  <2>1. CASE Store(k, r)
    BY <2>1, <1>2, <1>3 DEF Store
  <2>2. CASE ~Store(k, r) /\ StoreBreaks(k, r)
    BY <2>2, <1>2, <1>3 DEF StoreBreaks
  <2>3. CASE ~Store(k, r) /\ StoreFallsBack(k, r, f)
    <3>1. /\ record' = With(k, f)
          /\ disk' = Appended(disk, With(k, f)) \/ disk' = disk
      BY <2>3, <1>2, <1>3 DEF StoreFallsBack
    <3> QED BY <3>1, <2>3, <1>2, <1>3, <1>4 DEF Settled
  <2> QED BY <2>1, <2>2, <2>3
<1>6. \A m : Settled(m).base = m /\ Settled(m) = Settled(Settled(m).base)
  BY DEF Settled
<1> QED BY <1>4, <1>5, <1>6 DEF JournalIntact

\* A step that moves one call on, to something that creates no order, keeps the
\* rest of the invariant, provided that it places an order only for that call.
LEMMA CallMovesOn ==
  ASSUME SubmissionInv, NEW c \in Callers, NEW x,
         call' = [call EXCEPT ![c] = x],
         x.kind # "create",
         x.kind # "idle" => x.seen.state # "NONE",
         \A j \in Keys : \/ order'[j].placed = order[j].placed
                         \/ Is(c, "create", j) /\ order'[j].placed = order[j].placed + 1,
         \A j \in Keys : disk.base[j].state # "NONE" => disk'.base[j].state # "NONE"
  PROVE  OneCreator' /\ SentOnce' /\ CallsCarryRecords'
<1>1. CallsCarryRecords'
  BY DEF SubmissionInv, CallsCarryRecords, TypeOK
<1>2. SentOnce'
  BY DEF SubmissionInv, SentOnce, OneCreator, TypeOK, Orders
<1>3. \A d \in Callers, j \in Keys : Is(d, "create", j)' => d # c /\ Is(d, "create", j)
  BY DEF SubmissionInv, TypeOK, Is
<1>4. OneCreator'
  BY <1>3 DEF SubmissionInv, OneCreator, TypeOK, Orders
<1> QED BY <1>1, <1>2, <1>4

\* The same, for a step that stores a record on the way.
LEMMA StoringCallMovesOn ==
  ASSUME SubmissionInv, DurableAppends,
         NEW c \in Callers, NEW k \in Keys, NEW r \in Records, NEW f \in Records,
         r.state # "NONE", f.state # "NONE",
         Store(k, r) \/ StoreBreaks(k, r) \/ StoreFallsBack(k, r, f),
         NEW x, call' = [call EXCEPT ![c] = x], x.kind # "create",
         x.kind # "idle" => x.seen.state # "NONE",
         \A j \in Keys : \/ order'[j].placed = order[j].placed
                         \/ Is(c, "create", j) /\ order'[j].placed = order[j].placed + 1
  PROVE  JournalIntact' /\ OneCreator' /\ SentOnce' /\ CallsCarryRecords'
<1>1. /\ JournalIntact'
      /\ \A j \in Keys : disk.base[j].state # "NONE" => disk'.base[j].state # "NONE"
  BY StoreKeepsJournal DEF SubmissionInv
<1> QED BY <1>1, CallMovesOn

\* Receiving the adapter's reply, whether or not an order was placed for it.
LEMMA ReceivingMovesOn ==
  ASSUME SubmissionInv, DurableAppends,
         NEW c \in Callers, NEW k \in Keys, NEW y \in Results,
         ReceiveExecution(c, k, y),
         \A j \in Keys : \/ order'[j].placed = order[j].placed
                         \/ Is(c, "create", j) /\ order'[j].placed = order[j].placed + 1
  PROVE  JournalIntact' /\ OneCreator' /\ SentOnce' /\ CallsCarryRecords'
<1> DEFINE stored == [Prepared EXCEPT !.state = "ORDER_RECORDED", !.result = y]
           next(kind) == Waiting(kind, k, stored)
<1>1. stored \in Records /\ Uncertain \in Records
  BY RecordTypes, RecordUpdates DEF States
<1>2. stored.state # "NONE" /\ Uncertain.state # "NONE"
  BY DEF Prepared, NoRecord, Uncertain
<1>3. /\ \A kind : next(kind).kind = kind /\ next(kind).seen = stored
      /\ IdleCall.kind = "idle"
  BY DEF Waiting, IdleCall
<1>4. \/ Store(k, stored) /\ call' = [call EXCEPT ![c] = next("enrich")]
      \/ Store(k, stored) /\ call' = [call EXCEPT ![c] = next("unattached")]
      \/ /\ Store(k, Uncertain) \/ StoreBreaks(k, Uncertain) \/ StoreFallsBack(k, stored, Uncertain)
         /\ call' = [call EXCEPT ![c] = IdleCall]
  BY DEF ReceiveExecution, Goes, Ends
<1> HIDE DEF stored, next
<1>5. /\ next("enrich").kind = "enrich" /\ next("enrich").seen.state # "NONE"
      /\ next("unattached").kind = "unattached" /\ next("unattached").seen.state # "NONE"
  BY <1>2, <1>3
<1> QED BY <1>1, <1>2, <1>3, <1>4, <1>5, StoringCallMovesOn

\* Every step keeps the strengthened invariant.
LEMMA SubmissionStep ==
  ASSUME DurableAppends, SubmissionInv, [Next]_vars
  PROVE  SubmissionInv'
<1> DEFINE Rest == JournalIntact /\ OneCreator /\ SentOnce /\ CallsCarryRecords
<1> USE RecordTypes
<1>t. TypeOK /\ TypeOK'
  BY TypeStep DEF SubmissionInv
<1>i. IdleCall.kind = "idle" /\ \A kind, k, r : /\ Waiting(kind, k, r).kind = kind
                                                /\ Waiting(kind, k, r).key = k
                                                /\ Waiting(kind, k, r).seen = r
  BY DEF IdleCall, Waiting
<1>r. \A k \in Keys : record[k] \in Records
  BY <1>t DEF TypeOK, RecordMaps
<1>c. \A c \in Callers : call[c].kind # "idle" =>
        /\ call[c].seen \in Records /\ call[c].seen.state # "NONE"
        /\ call[c].reply \in Results
  BY <1>t, CallFields DEF SubmissionInv, CallsCarryRecords
<1>1. ASSUME NEW c \in Callers, NEW k \in Keys, Prepare(c, k) PROVE Rest'
  <2>1. Prepared.state # "NONE" /\ UNCHANGED order
    BY <1>1 DEF Prepared, NoRecord, Prepare
  <2>2. Store(k, Prepared) \/ StoreBreaks(k, Prepared)
    BY <1>1 DEF Prepare
  <2>3. /\ JournalIntact'
        /\ \A j \in Keys : disk.base[j].state # "NONE" => disk'.base[j].state # "NONE"
        /\ Store(k, Prepared) => disk'.base[k].state # "NONE"
    BY <2>1, <2>2, <1>t, StoreKeepsJournal DEF SubmissionInv
  <2>4. order[k].placed = 0 /\ \A d \in Callers : ~Is(d, "create", k)
    <3>1. disk.base[k].state = "NONE"
      BY <1>1 DEF Prepare, SubmissionInv, JournalIntact
    <3>2. order[k].placed \in Nat
      BY <1>t DEF TypeOK, Orders
    <3> QED BY <3>1, <3>2 DEF SubmissionInv, SentOnce, OneCreator
  <2>5. SentOnce'
    BY <2>1, <2>3 DEF SubmissionInv, SentOnce
  <2>6. CASE Store(k, Prepared) /\ Goes(c, Waiting("create", k, Prepared))
    <3>1. CallsCarryRecords'
      BY <2>6, <2>1, <1>i, <1>t DEF Goes, CallsCarryRecords, SubmissionInv, TypeOK
    <3>2. \A d \in Callers, j \in Keys : Is(d, "create", j)' =>
            (d = c /\ j = k) \/ (d # c /\ Is(d, "create", j))
      BY <2>6, <1>i, <1>t DEF Goes, Is, TypeOK
    <3>3. OneCreator'
      BY <3>2, <2>1, <2>3, <2>4, <2>6 DEF OneCreator, SubmissionInv
    <3> QED BY <3>1, <3>3, <2>3, <2>5
  <2>7. CASE UNCHANGED call
    BY <2>7, <2>1, <2>3, <2>5 DEF SubmissionInv, OneCreator, CallsCarryRecords, Is
  <2> QED BY <1>1, <2>6, <2>7 DEF Prepare
<1>q. ASSUME NEW c \in Callers, NEW kind \in {"status", "enrich", "fees"},
             NEW k \in Keys, NEW r \in Records, r.state # "NONE",
             Goes(c, Waiting(kind, k, r)), UNCHANGED <<record, disk>>,
             \A j \in Keys : \/ order'[j].placed = order[j].placed
                             \/ Is(c, "create", j) /\ order'[j].placed = order[j].placed + 1
      PROVE  Rest'
  <2> DEFINE next == Waiting(kind, k, r)
  <2>1. next.kind # "create" /\ next.seen.state # "NONE" /\ call' = [call EXCEPT ![c] = next]
    BY <1>q, <1>i DEF Goes
  <2>2. OneCreator' /\ SentOnce' /\ CallsCarryRecords'
    <3> HIDE DEF next
    <3> QED BY <2>1, <1>q, CallMovesOn
  <2> QED BY <1>q, <2>2 DEF JournalIntact, SubmissionInv
<1>2. ASSUME NEW c \in Callers, NEW k \in Keys, Reconcile(c, k) PROVE Rest'
  <2>1. PICK kind \in {"status", "enrich"} : Goes(c, Waiting(kind, k, record[k]))
    BY <1>2 DEF Reconcile
  <2>2. record[k].state # "NONE" /\ UNCHANGED <<record, disk, order>>
    BY <1>2 DEF Reconcile
  <2> QED BY <2>1, <2>2, <1>r, <1>q
<1>3. ASSUME NEW c \in Callers, NEW k \in Keys, Cancel(c, k) PROVE Rest'
  <2> DEFINE requested == [record[k] EXCEPT !.cancelRequested = TRUE]
             next == Waiting("cancel", k, requested)
  <2>1. record[k].state # "NONE" /\ UNCHANGED order
    BY <1>3 DEF Cancel
  <2>2. requested \in Records /\ requested.state # "NONE"
    BY <2>1, <1>r DEF Records
  <2>3. next.kind = "cancel" /\ next.seen = requested
    BY <1>i
  <2>4. \/ Goes(c, Waiting("enrich", k, record[k])) /\ UNCHANGED <<record, disk>>
        \/ Store(k, requested) /\ Goes(c, next)
        \/ StoreBreaks(k, requested) /\ UNCHANGED call
    BY <1>3 DEF Cancel
  <2>5. CASE Goes(c, Waiting("enrich", k, record[k])) /\ UNCHANGED <<record, disk>>
    BY <2>5, <2>1, <1>r, <1>q
  <2>6. CASE Store(k, requested) /\ Goes(c, next)
    <3> HIDE DEF requested, next
    <3> QED BY <2>6, <2>1, <2>2, <2>3, StoringCallMovesOn DEF Goes
  <2>7. CASE StoreBreaks(k, requested) /\ UNCHANGED call
    <3>1. /\ JournalIntact'
          /\ \A j \in Keys : disk.base[j].state # "NONE" => disk'.base[j].state # "NONE"
      <4> HIDE DEF requested
      <4> QED BY <2>7, <2>2, <1>t, StoreKeepsJournal DEF SubmissionInv
    <3> QED BY <3>1, <2>7, <2>1
            DEF SubmissionInv, OneCreator, SentOnce, CallsCarryRecords, Is
  <2> QED BY <2>4, <2>5, <2>6, <2>7
<1>p. ASSUME NEW c \in Callers, NEW k \in Keys, Is(c, "create", k), Place(k)
      PROVE  \A j \in Keys : \/ order'[j].placed = order[j].placed
                             \/ Is(c, "create", j) /\ order'[j].placed = order[j].placed + 1
  BY <1>p, <1>t DEF Place, TypeOK, Orders
<1>4. ASSUME NEW c \in Callers, CreateAccepted(c) PROVE Rest'
  <2> DEFINE next(k) == [Waiting("poll", k, call[c].seen) EXCEPT
                                    !.reply = [known |-> TRUE, status |-> "OPEN", filled |-> 0]]
  <2>1. PICK k \in Keys : /\ Is(c, "create", k) /\ Place(k)
                          /\ Goes(c, next(k))
                          /\ UNCHANGED <<record, disk>>
    BY <1>4 DEF CreateAccepted
  <2>2. call[c].seen.state # "NONE"
    BY <2>1, <1>c DEF Is
  <2>3. next(k).kind = "poll" /\ next(k).seen = call[c].seen
    BY DEF Waiting
  <2>4. OneCreator' /\ SentOnce' /\ CallsCarryRecords'
    <3> HIDE DEF next
    <3> QED BY <2>1, <2>2, <2>3, <1>p, CallMovesOn DEF Goes
  <2> QED BY <2>1, <2>4 DEF JournalIntact, SubmissionInv
<1>5. ASSUME NEW c \in Callers,
             CreateRefused(c) \/ CreateReplyLost(c) \/ PollFails(c) \/ PollEnds(c)
      PROVE  Rest'
  <2>1. PICK k \in Keys, x \in Results :
          /\ ReceiveExecution(c, k, x)
          /\ (Is(c, "create", k) /\ Place(k)) \/ UNCHANGED order
    <3>1. ASSUME NEW k \in Keys, Is(c, "poll", k)
          PROVE  [call[c].reply EXCEPT !.status = IF @ = "OPEN" THEN "TIMED_OUT" ELSE @] \in Results
      <4>1. call[c].reply \in Results
        BY <3>1, <1>c DEF Is
      <4> QED BY <4>1 DEF Results, Statuses
    <3> QED BY <1>5, <3>1 DEF CreateRefused, CreateReplyLost, PollFails, PollEnds
  <2>2. \A j \in Keys : \/ order'[j].placed = order[j].placed
                        \/ Is(c, "create", j) /\ order'[j].placed = order[j].placed + 1
    BY <2>1, <1>p
  <2> QED BY <2>1, <2>2, ReceivingMovesOn
<1>6. ASSUME NEW c \in Callers, StatusRead(c) \/ PollReads(c) \/ PollCancels(c) PROVE Rest'
  <2>1. PICK x :
          /\ call[c].kind \in {"status", "cancel", "poll"}
          /\ UNCHANGED order \/ \E k \in Keys : CancelAt(k)
          /\ call' = [call EXCEPT ![c] = [call[c] EXCEPT !.reply = x]]
          /\ UNCHANGED <<record, disk>>
    BY <1>6 DEF StatusRead, PollReads, PollCancels, Is, Goes, Answered
  <2> DEFINE next == [call[c] EXCEPT !.reply = x]
  <2>2. next.kind = call[c].kind /\ next.seen = call[c].seen
    BY <2>1, <1>t DEF TypeOK, Calls
  <2>3. \A j \in Keys : order'[j].placed = order[j].placed
    BY <2>1, <1>t DEF CancelAt, TypeOK, Orders
  <2>4. OneCreator' /\ SentOnce' /\ CallsCarryRecords'
    <3>1. call' = [call EXCEPT ![c] = next] /\ disk' = disk
      BY <2>1
    <3>2. next.kind # "create" /\ next.seen.state # "NONE"
      BY <2>1, <2>2, <1>c
    <3> HIDE DEF next
    <3> QED BY <3>1, <3>2, <2>3, CallMovesOn
  <2> QED BY <2>1, <2>4 DEF JournalIntact, SubmissionInv
<1>7. ASSUME NEW c \in Callers, StatusReturns(c) PROVE Rest'
  <2> DEFINE seen == call[c].seen
             updated == [seen EXCEPT !.state = "ORDER_RECORDED", !.result = call[c].reply,
                                     !.fees = 0]
             incomplete == [seen EXCEPT !.state = "EVIDENCE_INCOMPLETE"]
             fallback == IF call[c].kind = "cancel" THEN seen ELSE incomplete
  <2>1. PICK k \in Keys :
          /\ call[c].kind \in {"status", "cancel"}
          /\ \/ Store(k, updated) /\ Goes(c, Waiting("enrich", k, updated))
             \/ StoreFallsBack(k, updated, fallback) /\ Goes(c, IdleCall)
          /\ UNCHANGED order
    BY <1>7 DEF StatusReturns, Is, Ends
  <2>2. updated \in Records /\ fallback \in Records
    BY <2>1, <1>c, RecordUpdates DEF States
  <2>3. updated.state # "NONE" /\ fallback.state # "NONE"
    BY <2>1, <1>c DEF Records
  <2> DEFINE next == Waiting("enrich", k, updated)
  <2>4. next.kind = "enrich" /\ next.seen = updated /\ IdleCall.kind = "idle"
    BY <1>i
  <2> HIDE DEF updated, fallback, next
  <2>5. Goes(c, next) \/ Goes(c, IdleCall)
    BY <2>1 DEF next
  <2> QED BY <2>1, <2>2, <2>3, <2>4, <2>5, StoringCallMovesOn DEF Goes
<1>e. ASSUME NEW c \in Callers, NEW k \in Keys, NEW r \in Records, NEW f \in Records,
             r.state # "NONE", f.state # "NONE",
             Store(k, r) \/ StoreBreaks(k, r) \/ StoreFallsBack(k, r, f),
             Ends(c), UNCHANGED order
      PROVE  Rest'
  <2>1. Goes(c, IdleCall) /\ IdleCall.kind = "idle"
    BY <1>e, <1>i DEF Ends
  <2> QED BY <1>e, <2>1, StoringCallMovesOn DEF Goes
<1>8. ASSUME NEW c \in Callers, StatusFails(c) PROVE Rest'
  <2> DEFINE seen == call[c].seen
             failed == IF call[c].kind = "cancel" THEN seen
                       ELSE [seen EXCEPT !.state = "EVIDENCE_INCOMPLETE"]
  <2>1. PICK k \in Keys : /\ call[c].kind \in {"status", "cancel"}
                          /\ Store(k, failed) \/ StoreBreaks(k, failed)
                          /\ Ends(c) /\ UNCHANGED order
    BY <1>8 DEF StatusFails, Is
  <2>2. failed \in Records
    BY <2>1, <1>c, RecordUpdates DEF States
  <2>3. failed.state # "NONE"
    BY <2>1, <1>c DEF Records
  <2> HIDE DEF failed
  <2> QED BY <2>1, <2>2, <2>3, <1>e
<1>9. ASSUME NEW c \in Callers, Enrich(c) PROVE Rest'
  <2> DEFINE seen == call[c].seen
             complete == [seen EXCEPT !.state = "FEE_RECONCILED", !.fees = 0]
  <2>1. PICK k \in Keys :
          /\ call[c].kind = "enrich" /\ UNCHANGED order
          /\ \/ Ends(c) /\ (Store(k, complete) \/ StoreBreaks(k, complete))
             \/ /\ Goes(c, Waiting("fees", k, seen)) \/ Ends(c)
                /\ UNCHANGED <<record, disk>>
    BY <1>9 DEF Enrich, Is
  <2>a. complete \in Records
    BY <2>1, <1>c, RecordUpdates DEF States
  <2>b. complete.state # "NONE"
    BY <2>1, <1>c DEF Records
  <2>2. complete \in Records /\ complete.state # "NONE"
    BY <2>a, <2>b
  <2>3. CASE Ends(c) /\ (Store(k, complete) \/ StoreBreaks(k, complete))
    <3> HIDE DEF complete
    <3> QED BY <2>1, <2>2, <2>3, <1>e
  <2>4. CASE Goes(c, Waiting("fees", k, seen)) /\ UNCHANGED <<record, disk>>
    BY <2>1, <2>4, <1>c, <1>q
  <2>5. CASE Ends(c) /\ UNCHANGED <<record, disk>>
    <3>1. OneCreator' /\ SentOnce' /\ CallsCarryRecords'
      BY <2>1, <2>5, <1>i, CallMovesOn DEF Ends, Goes
    <3> QED BY <3>1, <2>5 DEF JournalIntact, SubmissionInv
  <2> QED BY <2>1, <2>3, <2>4, <2>5
<1>10. ASSUME NEW c \in Callers, FeesReturn(c) PROVE Rest'
  <2> DEFINE seen == call[c].seen
             inspected(state, n) == [seen EXCEPT !.state = state, !.fees = n]
             failed == [seen EXCEPT !.state = "EVIDENCE_INCOMPLETE"]
  <2>1. PICK k \in Keys, fills \in 0..Quantity :
          /\ call[c].kind = "fees"
          /\ \/ \E state \in {"FEE_RECONCILED", "EVIDENCE_INCOMPLETE"} :
                  \/ Store(k, inspected(state, fills))
                  \/ StoreFallsBack(k, inspected(state, fills), failed)
             \/ Store(k, failed) \/ StoreBreaks(k, failed)
          /\ Ends(c) /\ UNCHANGED order
    BY <1>10 DEF FeesReturn, Is
  <2>2. failed \in Records /\ failed.state # "NONE"
    BY <2>1, <1>c DEF Records, States
  <2>3. \A state \in {"FEE_RECONCILED", "EVIDENCE_INCOMPLETE"} :
          inspected(state, fills) \in Records /\ inspected(state, fills).state # "NONE"
    BY <2>1, <1>c DEF Records, States
  <2> HIDE DEF inspected, failed
  <2> QED BY <2>1, <2>2, <2>3, <1>e
<1>u. ASSUME NEW c \in Callers, Unattached(c) PROVE Rest'
  <2> DEFINE incomplete == [call[c].seen EXCEPT !.state = "EVIDENCE_INCOMPLETE"]
  <2>1. PICK k \in Keys :
          /\ call[c].kind = "unattached"
          /\ Store(k, incomplete) \/ StoreFallsBack(k, incomplete, Uncertain)
          /\ Ends(c) /\ UNCHANGED order
    BY <1>u DEF Unattached, Is
  <2>2. incomplete \in Records
    BY <2>1, <1>c, RecordUpdates DEF States
  <2>3. incomplete.state # "NONE" /\ Uncertain.state # "NONE"
    BY <2>1, <1>c DEF Records, Uncertain, NoRecord
  <2> HIDE DEF incomplete
  <2> QED BY <2>1, <2>2, <2>3, <1>e
<1>11. ASSUME NEW k \in Keys, Fill(k) PROVE Rest'
  <2>1. (\A j \in Keys : order'[j].placed = order[j].placed) /\ UNCHANGED <<record, disk, call>>
    BY <1>11, <1>t DEF Fill, TypeOK, Orders
  <2> QED BY <2>1 DEF SubmissionInv, JournalIntact, OneCreator, SentOnce, CallsCarryRecords, Is
<1>x. ASSUME NEW k \in Keys, Expire(k) PROVE Rest'
  <2>1. (\A j \in Keys : order'[j].placed = order[j].placed) /\ UNCHANGED <<record, disk, call>>
    BY <1>x, <1>t DEF Expire, TypeOK, Orders
  <2> QED BY <2>1 DEF SubmissionInv, JournalIntact, OneCreator, SentOnce, CallsCarryRecords, Is
<1>12. ASSUME Restart PROVE Rest'
  <2>1. record' = disk.base /\ disk' = disk /\ order' = order
    BY <1>12 DEF Restart, DurableAppends, ReadBack, Restored, SubmissionInv, JournalIntact, Settled
  <2>2. \A c \in Callers : call'[c].kind = "idle"
    BY <1>12, <1>i DEF Restart
  <2> QED BY <2>1, <2>2 DEF SubmissionInv, JournalIntact, OneCreator, SentOnce,
                            CallsCarryRecords, Is
<1>13. ASSUME UNCHANGED vars PROVE Rest'
  BY <1>13 DEF vars, SubmissionInv, JournalIntact, OneCreator, SentOnce, CallsCarryRecords, Is
<1>14. Rest'
  BY <1>1, <1>2, <1>3, <1>4, <1>5, <1>6, <1>7, <1>8, <1>9, <1>10, <1>11, <1>12,
     <1>13, <1>u, <1>x DEF Next, Begin, Continue
<1> QED BY <1>14, <1>t DEF SubmissionInv

\* With durable appends the strengthened invariant holds throughout.
THEOREM SubmissionInvariant ==
  DurableAppends => (Spec => []SubmissionInv)
<1> SUFFICES ASSUME DurableAppends PROVE Spec => []SubmissionInv
  OBVIOUS
<1>1. Init => SubmissionInv
  <2> SUFFICES ASSUME Init PROVE JournalIntact /\ OneCreator /\ SentOnce /\ CallsCarryRecords
    BY InitTyped DEF SubmissionInv
  <2>1. JournalIntact
    BY DEF Init, Settled, JournalIntact
  <2>2. SentOnce
    BY DEF Init, SentOnce, NoOrder
  <2>3. OneCreator /\ CallsCarryRecords
    BY DEF Init, OneCreator, CallsCarryRecords, Is, IdleCall
  <2> QED BY <2>1, <2>2, <2>3
<1>2. SubmissionInv /\ [Next]_vars => SubmissionInv'
  BY SubmissionStep
<1> QED BY <1>1, <1>2, PTL DEF Spec

\* unknownSubmissionNeverRetried: no idempotency key is sent to an exchange
\* twice, for any number of keys, overlapping calls, crashes, failed appends and
\* lost replies, as long as no journal write is left torn and a restart can read
\* the journal.
THEOREM AtMostOneSubmission ==
  DurableAppends => (Spec => []SubmittedAtMostOnce)
<1> SUFFICES ASSUME DurableAppends PROVE Spec => []SubmittedAtMostOnce
  OBVIOUS
<1>1. SubmissionInv => SubmittedAtMostOnce
  BY DEF SubmissionInv, SentOnce, SubmittedAtMostOnce, TypeOK, Orders
<1> QED BY <1>1, SubmissionInvariant, PTL

\* journalBeforeIo: under the same assumption, whatever an exchange accepted is
\* in the journal a restart would read.
THEOREM SubmissionsStayJournaled ==
  DurableAppends => (Spec => []SubmissionsAreJournaled)
<1> SUFFICES ASSUME DurableAppends PROVE Spec => []SubmissionsAreJournaled
  OBVIOUS
<1>1. SubmissionInv => SubmissionsAreJournaled
  BY DEF SubmissionInv, SentOnce, JournalIntact, SubmissionsAreJournaled, Restored, Settled
<1> QED BY <1>1, SubmissionInvariant, PTL

-----------------------------------------------------------------------------
(* Results are real.  A result, wherever a record, a call or the journal     *)
(* holds it, claims nothing the exchange contradicts, and no step of the     *)
(* exchange can make it wrong, because a key is submitted only once.         *)

\* What result x may claim of order o.
TrueOf(x, o) ==
  /\ x.filled <= o.filled
  /\ ~x.known => x.filled = 0
  /\ x.known => o.placed > 0
  /\ x.known /\ x.status \in Terminal => o.status = x.status /\ o.filled = x.filled

\* What record r may claim of it: besides its result, fees of lots that were
\* executed, and of exactly the recorded ones when they are called complete.
RecordTrueOf(r, o) ==
  /\ TrueOf(r.result, o)
  /\ r.fees <= o.filled
  /\ ~r.result.known => r.fees = 0
  /\ r.state = "FEE_RECONCILED" => r.fees = r.result.filled

RecordsAreTrue == \A k \in Keys :
  RecordTrueOf(record[k], order[k]) /\ RecordTrueOf(disk.base[k], order[k])

\* A call y that asks about order o asks about one that was placed.
CallTrueOf(y, o) ==
  /\ RecordTrueOf(y.seen, o) /\ TrueOf(y.reply, o)
  /\ y.kind \in {"poll", "status", "cancel"} => o.placed > 0
  /\ y.kind = "fees" => y.seen.result.known

CallsAreTrue == \A c \in Callers :
  call[c].kind # "idle" => CallTrueOf(call[c], order[call[c].key])

TruthInv == SubmissionInv /\ RecordsAreTrue /\ CallsAreTrue

\* How an order o may become p: not at all, by a fill, by a cancellation while it
\* is open, or by being the first order of its key.
OrderMoves(o, p) ==
  \/ p = o
  \/ o.status = "OPEN" /\ p.placed = o.placed /\ p.filled \in {o.filled, o.filled + 1}
  \/ o.placed = 0 /\ p.placed = 1 /\ p.filled = 0

\* It keeps every true result true.
LEMMA TruthLasts ==
  ASSUME NEW o \in Orders, NEW p \in Orders, OrderMoves(o, p), NEW x \in Results, TrueOf(x, o)
  PROVE  TrueOf(x, p) /\ (o.placed > 0 => p.placed > 0)
<1>1. /\ o.placed \in Nat /\ o.filled \in Nat /\ p.placed \in Nat /\ p.filled \in Nat
      /\ x.filled \in Nat /\ x.known \in BOOLEAN /\ "OPEN" \notin Terminal
  BY GatewayBoundsAssumption DEF Orders, Results, Terminal
<1>2. CASE p = o
  BY <1>2
<1>3. CASE o.status = "OPEN" /\ p.placed = o.placed /\ p.filled \in {o.filled, o.filled + 1}
  BY <1>1, <1>3 DEF TrueOf
<1>4. CASE o.placed = 0 /\ p.placed = 1 /\ p.filled = 0
  BY <1>1, <1>4 DEF TrueOf
<1> QED BY <1>2, <1>3, <1>4 DEF OrderMoves

\* It keeps every true record true.
LEMMA RecordTruthLasts ==
  ASSUME NEW o \in Orders, NEW p \in Orders, OrderMoves(o, p), NEW r \in Records,
         RecordTrueOf(r, o)
  PROVE  RecordTrueOf(r, p)
<1>1. /\ o.placed \in Nat /\ o.filled \in Nat /\ p.placed \in Nat /\ p.filled \in Nat
      /\ r.fees \in Nat /\ r.result \in Results
  BY GatewayBoundsAssumption DEF Orders, Records
<1>2. TrueOf(r.result, p)
  BY <1>1, TruthLasts DEF RecordTrueOf
<1>3. r.fees <= p.filled
  <2>1. CASE o.placed = 0
    BY <2>1, <1>1 DEF RecordTrueOf, TrueOf
  <2>2. CASE o.placed # 0
    BY <2>2, <1>1 DEF OrderMoves, RecordTrueOf
  <2> QED BY <2>1, <2>2
<1> QED BY <1>2, <1>3 DEF RecordTrueOf

\* The records the gateway starts from are true of every order.
LEMMA FreshRecordsAreTrue ==
  ASSUME NEW o \in Orders
  PROVE  /\ RecordTrueOf(NoRecord, o) /\ RecordTrueOf(Prepared, o) /\ RecordTrueOf(Uncertain, o)
<1>1. o.filled >= 0
  BY DEF Orders
<1> QED BY <1>1 DEF RecordTrueOf, TrueOf, NoRecord, Prepared, Uncertain, NoResult

\* A record whose fees are dropped, or that is no longer called complete, is as true
\* as its result.
LEMMA RecordsStayTrue ==
  ASSUME NEW o \in Orders, NEW r \in Records, TrueOf(r.result, o)
  PROVE  /\ r.fees = 0 /\ r.state # "FEE_RECONCILED" => RecordTrueOf(r, o)
         /\ r.fees = 0 /\ r.result.filled = 0 => RecordTrueOf(r, o)
<1>1. o.filled >= 0
  BY DEF Orders
<1> QED BY <1>1 DEF RecordTrueOf

\* The empty results are true of every order, and what an adapter reads of an
\* order that was placed is true of it.
LEMMA ReadingIsTrue ==
  ASSUME NEW o \in Orders
  PROVE  /\ TrueOf(NoResult, o) /\ TrueOf(FailedResult, o)
         /\ o.placed > 0 => \A x :
              x.known /\ x.filled = o.filled /\ (x.status \in Terminal => x.status = o.status)
              => TrueOf(x, o)
<1>1. o.filled >= 0 /\ o.filled <= o.filled
  BY DEF Orders
<1> QED BY <1>1 DEF TrueOf, NoResult, FailedResult

\* What every step of the model does to the orders.
AllOrdersMove == \A k \in Keys : OrderMoves(order[k], order'[k])

\* Storing true records keeps memory and journal true.
LEMMA TrueStored ==
  ASSUME TruthInv, TypeOK', DurableAppends, AllOrdersMove,
         NEW k \in Keys, NEW r \in Records, NEW f \in Records,
         RecordTrueOf(r, order'[k]), RecordTrueOf(f, order'[k]),
         \/ Store(k, r) \/ StoreBreaks(k, r) \/ StoreFallsBack(k, r, f)
         \/ UNCHANGED <<record, disk>>
  PROVE  RecordsAreTrue'
<1>1. TypeOK /\ disk = Settled(disk.base)
  BY DEF TruthInv, SubmissionInv, JournalIntact
<1>2. \A m \in RecordMaps : Appended(disk, m) = Settled(m) /\ Broken(disk, m) \subseteq {disk}
  <2>1. disk.tail = "clean"
    BY <1>1 DEF Settled
  <2> QED BY <2>1 DEF Appended, Broken, DurableAppends
<1>3. With(k, r) \in RecordMaps /\ With(k, f) \in RecordMaps
  BY <1>1 DEF TypeOK, With, RecordMaps
<1> DEFINE Fine(m) == \A j \in Keys : RecordTrueOf(m[j], order'[j])
<1>4. Fine(record) /\ Fine(disk.base)
  <2>1. \A j \in Keys : /\ record[j] \in Records /\ disk.base[j] \in Records
                        /\ order[j] \in Orders /\ order'[j] \in Orders
    BY <1>1 DEF TypeOK, RecordMaps, DiskOf
  <2> QED BY <2>1, RecordTruthLasts DEF TruthInv, RecordsAreTrue, AllOrdersMove
<1>5. Fine(With(k, r)) /\ Fine(With(k, f))
  BY <1>1, <1>4 DEF With, TypeOK, RecordMaps
<1>6. Fine(record') /\ Fine(disk'.base)
  <2>1. \A m : Settled(m).base = m
    BY DEF Settled
  <2> HIDE DEF Fine
  <2>2. CASE Store(k, r)
    BY <2>2, <2>1, <1>2, <1>3, <1>5 DEF Store
  <2>3. CASE StoreBreaks(k, r)
    BY <2>3, <1>2, <1>3, <1>4, <1>5 DEF StoreBreaks
  <2>4. CASE StoreFallsBack(k, r, f)
    <3>1. record' = With(k, f) /\ (disk' = Appended(disk, With(k, f)) \/ disk' = disk)
      BY <2>4, <1>2, <1>3 DEF StoreFallsBack
    <3> QED BY <3>1, <2>1, <1>2, <1>3, <1>4, <1>5
  <2>5. CASE UNCHANGED <<record, disk>>
    BY <2>5, <1>4
  <2> QED BY <2>2, <2>3, <2>4, <2>5
<1> QED BY <1>6 DEF RecordsAreTrue

\* One call moves on to something true; the others stay true.
LEMMA TrueCallMovesOn ==
  ASSUME TruthInv, TypeOK', AllOrdersMove, NEW c \in Callers, NEW x,
         call' = [call EXCEPT ![c] = x],
         x.kind # "idle" => CallTrueOf(x, order'[x.key])
  PROVE  CallsAreTrue'
<1> SUFFICES ASSUME NEW d \in Callers, call'[d].kind # "idle"
             PROVE  CallTrueOf(call'[d], order'[call'[d].key])
  BY DEF CallsAreTrue
<1>1. CASE d = c
  BY <1>1 DEF TruthInv, SubmissionInv, TypeOK
<1>2. CASE d # c
  <2>1. call'[d] = call[d] /\ TypeOK
    BY <1>2 DEF TruthInv, SubmissionInv, TypeOK
  <2>2. call[d].key \in Keys /\ call[d].seen \in Records /\ call[d].reply \in Results
    BY <2>1, CallFields
  <2>3. order[call[d].key] \in Orders /\ order'[call[d].key] \in Orders
    BY <2>1, <2>2 DEF TypeOK
  <2>4. CallTrueOf(call[d], order[call[d].key])
    BY <2>1 DEF TruthInv, CallsAreTrue
  <2>5. /\ RecordTrueOf(call[d].seen, order'[call[d].key])
        /\ TrueOf(call[d].reply, order'[call[d].key])
        /\ order[call[d].key].placed > 0 => order'[call[d].key].placed > 0
    BY <2>2, <2>3, <2>4, TruthLasts, RecordTruthLasts DEF CallTrueOf, AllOrdersMove
  <2> QED BY <2>1, <2>4, <2>5 DEF CallTrueOf
<1> QED BY <1>1, <1>2

\* The same for calls that stay as they are.
LEMMA TrueCallsStay ==
  ASSUME TruthInv, TypeOK', AllOrdersMove, UNCHANGED call
  PROVE  CallsAreTrue'
<1> SUFFICES ASSUME NEW d \in Callers, call[d].kind # "idle"
             PROVE  CallTrueOf(call[d], order'[call[d].key])
  BY DEF CallsAreTrue
<1>1. TypeOK
  BY DEF TruthInv, SubmissionInv
<1>2. call[d].key \in Keys /\ call[d].seen \in Records /\ call[d].reply \in Results
  BY <1>1, CallFields
<1>3. order[call[d].key] \in Orders /\ order'[call[d].key] \in Orders
  BY <1>1, <1>2 DEF TypeOK
<1>4. CallTrueOf(call[d], order[call[d].key])
  BY DEF TruthInv, CallsAreTrue
<1>5. /\ RecordTrueOf(call[d].seen, order'[call[d].key])
      /\ TrueOf(call[d].reply, order'[call[d].key])
      /\ order[call[d].key].placed > 0 => order'[call[d].key].placed > 0
  BY <1>2, <1>3, <1>4, TruthLasts, RecordTruthLasts DEF CallTrueOf, AllOrdersMove
<1> QED BY <1>4, <1>5 DEF CallTrueOf

\* What nearly every step does: it stores a true record of key k, or none, and
\* moves one call on to work on that record, or ends it, or leaves it alone.
LEMMA TrueMove ==
  ASSUME TruthInv, TypeOK', DurableAppends, AllOrdersMove, NEW c \in Callers,
         NEW k \in Keys, NEW r \in Records, NEW f \in Records,
         RecordTrueOf(r, order'[k]), RecordTrueOf(f, order'[k]),
         \/ Store(k, r) \/ StoreBreaks(k, r) \/ StoreFallsBack(k, r, f)
         \/ UNCHANGED <<record, disk>>,
         \/ UNCHANGED call \/ Ends(c)
         \/ \E kind \in Kinds : /\ Goes(c, Waiting(kind, k, r))
                                /\ kind \in {"poll", "status", "cancel"} => order'[k].placed > 0
                                /\ kind = "fees" => r.result.known
  PROVE  RecordsAreTrue' /\ CallsAreTrue'
<1>1. RecordsAreTrue'
  BY TrueStored
<1>2. CASE UNCHANGED call
  BY <1>1, <1>2, TrueCallsStay
<1>3. CASE Ends(c)
  <2>1. IdleCall.kind = "idle" /\ call' = [call EXCEPT ![c] = IdleCall]
    BY <1>3 DEF Ends, Goes, IdleCall
  <2> QED BY <1>1, <2>1, TrueCallMovesOn
<1>4. ASSUME NEW kind \in Kinds, Goes(c, Waiting(kind, k, r)),
             kind \in {"poll", "status", "cancel"} => order'[k].placed > 0,
             kind = "fees" => r.result.known
      PROVE  CallsAreTrue'
  <2> DEFINE x == Waiting(kind, k, r)
  <2>1. x.kind = kind /\ x.key = k /\ x.seen = r /\ x.reply = NoResult
    BY DEF Waiting
  <2>2. TrueOf(NoResult, order'[k])
    BY ReadingIsTrue DEF TypeOK
  <2>3. CallTrueOf(x, order'[k]) /\ call' = [call EXCEPT ![c] = x]
    BY <1>4, <2>1, <2>2 DEF CallTrueOf, Goes
  <2> HIDE DEF x
  <2> QED BY <2>1, <2>3, TrueCallMovesOn
<1> QED BY <1>1, <1>2, <1>3, <1>4

\* Receiving the adapter's reply to execute(), when the reply is true.
LEMMA TrueReceipt ==
  ASSUME TruthInv, TypeOK', DurableAppends, AllOrdersMove, NEW c \in Callers,
         NEW k \in Keys, NEW y \in Results, TrueOf(y, order'[k]), ReceiveExecution(c, k, y)
  PROVE  RecordsAreTrue' /\ CallsAreTrue'
<1> DEFINE stored == [Prepared EXCEPT !.state = "ORDER_RECORDED", !.result = y]
<1>1. stored \in Records /\ stored.result = y
  <2>1. stored \in Records
    BY RecordTypes, RecordUpdates DEF States
  <2>2. stored.result = y
    BY RecordTypes DEF Records
  <2> QED BY <2>1, <2>2
<1>2. Uncertain \in Records /\ RecordTrueOf(Uncertain, order'[k])
  BY RecordTypes, FreshRecordsAreTrue DEF TypeOK
<1>3. RecordTrueOf(stored, order'[k])
  <2>1. stored.fees = 0 /\ stored.state = "ORDER_RECORDED"
    BY DEF Prepared, NoRecord
  <2> QED BY <1>1, <2>1, RecordsStayTrue DEF TypeOK
<1>4. \/ /\ Store(k, stored)
         /\ Goes(c, Waiting("enrich", k, stored)) \/ Goes(c, Waiting("unattached", k, stored))
      \/ /\ Store(k, Uncertain) \/ StoreBreaks(k, Uncertain) \/ StoreFallsBack(k, stored, Uncertain)
         /\ Ends(c)
  BY DEF ReceiveExecution
<1>5. "enrich" \in Kinds /\ "unattached" \in Kinds
  BY DEF Kinds
<1> HIDE DEF stored
<1>6. CASE Store(k, stored)
           /\ (Goes(c, Waiting("enrich", k, stored)) \/ Goes(c, Waiting("unattached", k, stored)))
  BY <1>1, <1>3, <1>5, <1>6, TrueMove
<1>7. CASE (Store(k, Uncertain) \/ StoreBreaks(k, Uncertain)) /\ Ends(c)
  BY <1>2, <1>3, <1>7, TrueMove
<1>8. CASE StoreFallsBack(k, stored, Uncertain) /\ Ends(c)
  BY <1>1, <1>2, <1>3, <1>8, TrueMove
<1> QED BY <1>4, <1>6, <1>7, <1>8

\* Every step keeps results true.
LEMMA TruthStep ==
  ASSUME DurableAppends, TruthInv, [Next]_vars
  PROVE  TruthInv'
<1> DEFINE Rest == RecordsAreTrue /\ CallsAreTrue
<1> USE RecordTypes
<1>s. SubmissionInv /\ SubmissionInv'
  BY SubmissionStep DEF TruthInv
<1>t. TypeOK /\ TypeOK'
  BY <1>s DEF SubmissionInv
<1>o. \A k \in Keys : order[k] \in Orders /\ order'[k] \in Orders
  BY <1>t DEF TypeOK
\* Where the results a step copies come from.
<1>r. \A k \in Keys : record[k] \in Records /\ RecordTrueOf(record[k], order[k])
  BY <1>t DEF TruthInv, RecordsAreTrue, TypeOK, RecordMaps
<1>c. ASSUME NEW c \in Callers, NEW k \in Keys, call[c].kind # "idle", call[c].key = k
      PROVE  /\ call[c].seen \in Records /\ RecordTrueOf(call[c].seen, order[k])
             /\ call[c].reply \in Results /\ TrueOf(call[c].reply, order[k])
             /\ call[c].kind \in {"poll", "status", "cancel"} => order[k].placed > 0
             /\ call[c].kind = "fees" => call[c].seen.result.known
  BY <1>c, <1>t, CallFields DEF TruthInv, CallsAreTrue, CallTrueOf
\* How the orders move.
<1>a. UNCHANGED order => AllOrdersMove
  BY DEF AllOrdersMove, OrderMoves
<1>b. ASSUME NEW c \in Callers, NEW k \in Keys, Is(c, "create", k), Place(k)
      PROVE  AllOrdersMove /\ order'[k].placed > 0
  <2>1. order[k].placed = 0
    BY <1>b, <1>s DEF SubmissionInv, OneCreator
  <2>2. \A j \in Keys : order'[j] = IF j = k THEN [placed |-> 1, status |-> "OPEN", filled |-> 0]
                                    ELSE order[j]
    BY <1>b, <2>1, <1>t DEF Place, TypeOK
  <2> QED BY <2>1, <2>2 DEF AllOrdersMove, OrderMoves
<1>d. ASSUME NEW k \in Keys, UNCHANGED order \/ CancelAt(k) PROVE AllOrdersMove
  <2>1. CASE CancelAt(k)
    BY <2>1, <1>t DEF CancelAt, AllOrdersMove, OrderMoves, TypeOK, Orders
  <2> QED BY <1>d, <1>a, <2>1
<1>1. ASSUME NEW c \in Callers, NEW k \in Keys, Prepare(c, k) PROVE Rest'
  <2>1. RecordTrueOf(Prepared, order'[k]) /\ AllOrdersMove
    BY <1>1, <1>a, <1>o, FreshRecordsAreTrue DEF Prepare
  <2>2. /\ Store(k, Prepared) \/ StoreBreaks(k, Prepared)
        /\ Goes(c, Waiting("create", k, Prepared)) \/ UNCHANGED call
    BY <1>1 DEF Prepare
  <2> QED BY <2>1, <2>2, <1>t, TrueMove DEF Kinds
<1>2. ASSUME NEW c \in Callers, NEW k \in Keys, Reconcile(c, k) PROVE Rest'
  <2>1. AllOrdersMove /\ order' = order /\ UNCHANGED <<record, disk>>
    BY <1>2, <1>a DEF Reconcile
  <2>2. PICK kind \in {"status", "enrich"} :
          /\ Goes(c, Waiting(kind, k, record[k]))
          /\ kind = "status" => order[k].placed > 0
    BY <1>2, <1>r DEF Reconcile, RecordTrueOf, TrueOf
  <2> QED BY <2>1, <2>2, <1>t, <1>r, TrueMove DEF Kinds
<1>3. ASSUME NEW c \in Callers, NEW k \in Keys, Cancel(c, k) PROVE Rest'
  <2> DEFINE requested == [record[k] EXCEPT !.cancelRequested = TRUE]
  <2>1. /\ AllOrdersMove /\ order' = order /\ record[k].result.known
        /\ \/ Goes(c, Waiting("enrich", k, record[k])) /\ UNCHANGED <<record, disk>>
           \/ /\ Store(k, requested) \/ StoreBreaks(k, requested)
              /\ Goes(c, Waiting("cancel", k, requested)) \/ UNCHANGED call
    BY <1>3, <1>a DEF Cancel
  <2>2. requested \in Records /\ RecordTrueOf(requested, order[k])
    <3>1. requested \in Records /\ requested.result = record[k].result
          /\ requested.fees = record[k].fees /\ requested.state = record[k].state
      BY <1>r DEF Records
    <3> HIDE DEF requested
    <3> QED BY <3>1, <1>r DEF RecordTrueOf
  <2>3. order[k].placed > 0
    BY <2>1, <1>r DEF RecordTrueOf, TrueOf
  <2>4. CASE Goes(c, Waiting("enrich", k, record[k])) /\ UNCHANGED <<record, disk>>
    BY <2>1, <2>4, <1>t, <1>r, TrueMove DEF Kinds
  <2> HIDE DEF requested
  <2>5. CASE /\ Store(k, requested) \/ StoreBreaks(k, requested)
             /\ Goes(c, Waiting("cancel", k, requested)) \/ UNCHANGED call
    BY <2>1, <2>2, <2>3, <2>5, <1>t, <1>r, TrueMove DEF Kinds
  <2> QED BY <2>1, <2>4, <2>5
<1>g. ASSUME UNCHANGED <<record, disk>>, AllOrdersMove PROVE RecordsAreTrue'
  BY <1>g, <1>r, <1>o, <1>t, RecordTruthLasts
     DEF AllOrdersMove, TruthInv, RecordsAreTrue, TypeOK, DiskOf, RecordMaps
<1>4. ASSUME NEW c \in Callers, CreateAccepted(c) PROVE Rest'
  <2> DEFINE x(k) == [Waiting("poll", k, call[c].seen) EXCEPT
                                    !.reply = [known |-> TRUE, status |-> "OPEN", filled |-> 0]]
  <2>1. PICK k \in Keys : /\ Is(c, "create", k) /\ Place(k)
                          /\ Goes(c, x(k))
                          /\ UNCHANGED <<record, disk>>
    BY <1>4 DEF CreateAccepted
  <2>2. AllOrdersMove /\ order'[k].placed > 0
    BY <2>1, <1>b
  <2>3. call[c].seen \in Records /\ RecordTrueOf(call[c].seen, order'[k])
    BY <2>1, <2>2, <1>c, <1>o, RecordTruthLasts DEF Is, AllOrdersMove
  <2>4. /\ x(k).kind = "poll" /\ x(k).key = k /\ x(k).seen = call[c].seen
        /\ x(k).reply = [known |-> TRUE, status |-> "OPEN", filled |-> 0]
    BY DEF Waiting
  <2>5. TrueOf(x(k).reply, order'[k])
    <3>1. order'[k].filled >= 0
      BY <1>o DEF Orders
    <3> QED BY <2>2, <2>4, <3>1 DEF TrueOf, Terminal
  <2>6. CallsAreTrue'
    <3>1. CallTrueOf(x(k), order'[x(k).key])
      BY <2>2, <2>3, <2>4, <2>5 DEF CallTrueOf
    <3> HIDE DEF x
    <3> QED BY <2>1, <2>2, <3>1, <1>t, TrueCallMovesOn DEF Goes
  <2> QED BY <2>1, <2>2, <2>6, <1>g
<1>5. ASSUME NEW c \in Callers,
             CreateRefused(c) \/ CreateReplyLost(c) \/ PollFails(c) \/ PollEnds(c)
      PROVE  Rest'
  <2>1. ASSUME NEW k \in Keys, ReceiveExecution(c, k, FailedResult),
               UNCHANGED order \/ (Is(c, "create", k) /\ Place(k))
        PROVE  Rest'
    <3>1. AllOrdersMove /\ TrueOf(FailedResult, order'[k])
      BY <2>1, <1>a, <1>b, <1>o, ReadingIsTrue
    <3> QED BY <2>1, <3>1, <1>t, TrueReceipt
  <2>2. CASE CreateRefused(c) \/ CreateReplyLost(c) \/ PollFails(c)
    BY <2>1, <2>2 DEF CreateRefused, CreateReplyLost, PollFails
  <2>3. CASE PollEnds(c)
    <3> DEFINE y == [call[c].reply EXCEPT !.status = IF @ = "OPEN" THEN "TIMED_OUT" ELSE @]
    <3>1. PICK k \in Keys : Is(c, "poll", k) /\ order' = order /\ ReceiveExecution(c, k, y)
      BY <2>3 DEF PollEnds
    <3>2. call[c].reply \in Results /\ TrueOf(call[c].reply, order'[k])
      BY <3>1, <1>c DEF Is
    <3>3. y \in Results
      BY <3>2 DEF Results, Statuses
    <3>4. /\ y.known = call[c].reply.known /\ y.filled = call[c].reply.filled
          /\ y.status \in Terminal => y.status = call[c].reply.status
      BY <3>2 DEF Results, Terminal
    <3> HIDE DEF y
    <3>5. TrueOf(y, order'[k])
      BY <3>2, <3>4 DEF TrueOf
    <3> QED BY <3>1, <3>3, <3>5, <1>a, <1>t, TrueReceipt
  <2> QED BY <1>5, <2>2, <2>3
<1>6. ASSUME NEW c \in Callers, StatusRead(c) \/ PollReads(c) \/ PollCancels(c) PROVE Rest'
  <2>0. PICK k \in Keys : \E y :
          /\ call[c].kind \in {"status", "cancel", "poll"} /\ call[c].key = k
          /\ UNCHANGED order \/ CancelAt(k)
          /\ y = View(k)' \/ y = [call[c].reply EXCEPT !.status = "TIMED_OUT"]
          /\ call' = [call EXCEPT ![c] = [call[c] EXCEPT !.reply = y]]
          /\ UNCHANGED <<record, disk>>
    <3>1. PollReads(c) => \E k \in Keys :
            /\ Is(c, "poll", k) /\ View(k) = View(k)'
            /\ Goes(c, Answered(c, View(k))) /\ UNCHANGED <<record, disk, order>>
      BY DEF PollReads, View
    <3>2. PollCancels(c) => \E k \in Keys :
            /\ Is(c, "poll", k) /\ CancelAt(k) /\ UNCHANGED <<record, disk>>
            /\ \/ Goes(c, Answered(c, View(k)'))
               \/ Goes(c, Answered(c, [call[c].reply EXCEPT !.status = "TIMED_OUT"]))
      BY DEF PollCancels
    <3>3. StatusRead(c) => \E k \in Keys :
            /\ call[c].kind \in {"status", "cancel"} /\ call[c].key = k
            /\ UNCHANGED order \/ CancelAt(k)
            /\ Goes(c, Answered(c, View(k)')) /\ UNCHANGED <<record, disk>>
      BY DEF StatusRead
    <3> QED BY <1>6, <3>1, <3>2, <3>3 DEF Is, Goes, Answered
  <2>1. PICK y :
          /\ call[c].kind \in {"status", "cancel", "poll"} /\ call[c].key = k
          /\ UNCHANGED order \/ CancelAt(k)
          /\ y = View(k)' \/ y = [call[c].reply EXCEPT !.status = "TIMED_OUT"]
          /\ call' = [call EXCEPT ![c] = [call[c] EXCEPT !.reply = y]]
          /\ UNCHANGED <<record, disk>>
    BY <2>0
  <2>2. AllOrdersMove
    BY <2>1, <1>d
  <2>3. order[k].placed > 0 /\ order'[k].placed > 0 /\ RecordTrueOf(call[c].seen, order'[k])
        /\ TrueOf(call[c].reply, order'[k]) /\ call[c].reply \in Results
    BY <2>1, <2>2, <1>c, <1>o, TruthLasts, RecordTruthLasts DEF AllOrdersMove
  <2>4. TrueOf(y, order'[k])
    <3>1. CASE y = View(k)'
      <4>1. /\ y.known /\ y.filled = order'[k].filled /\ y.status = order'[k].status
        BY <3>1 DEF View
      <4> QED BY <4>1, <2>3, <1>o, ReadingIsTrue
    <3>2. CASE y = [call[c].reply EXCEPT !.status = "TIMED_OUT"]
      <4>1. y.known = call[c].reply.known /\ y.filled = call[c].reply.filled /\ y.status = "TIMED_OUT"
        BY <3>2, <2>3 DEF Results
      <4> QED BY <4>1, <2>3 DEF TrueOf, Terminal
    <3> QED BY <2>1, <3>1, <3>2
  <2> DEFINE x == [call[c] EXCEPT !.reply = y]
  <2>5. x.kind = call[c].kind /\ x.key = k /\ x.seen = call[c].seen /\ x.reply = y
    BY <2>1, <1>t DEF TypeOK, Calls
  <2>6. CallTrueOf(x, order'[k]) /\ call' = [call EXCEPT ![c] = x]
    BY <2>1, <2>3, <2>4, <2>5 DEF CallTrueOf
  <2>7. CallsAreTrue'
    <3> HIDE DEF x
    <3> QED BY <2>2, <2>5, <2>6, <1>t, TrueCallMovesOn
  <2> QED BY <2>1, <2>2, <2>7, <1>g
\* A step of a call that stores one of two true records.
<1>k. ASSUME NEW c \in Callers, NEW k \in Keys, NEW r \in Records, NEW f \in Records,
             call[c].kind # "idle", call[c].key = k, order' = order,
             RecordTrueOf(r, order[k]), RecordTrueOf(f, order[k]),
             \/ Store(k, r) \/ StoreBreaks(k, r) \/ StoreFallsBack(k, r, f)
             \/ UNCHANGED <<record, disk>>,
             \/ Ends(c) \/ Goes(c, Waiting("enrich", k, r))
             \/ r.result.known /\ Goes(c, Waiting("fees", k, r))
      PROVE  Rest'
  <2>1. RecordTrueOf(r, order'[k]) /\ RecordTrueOf(f, order'[k]) /\ AllOrdersMove
    BY <1>k, <1>a
  <2> QED BY <1>k, <2>1, <1>t, TrueMove DEF Kinds
\* A record that only stops being called complete stays true.
<1>l. ASSUME NEW k \in Keys, NEW r \in Records, RecordTrueOf(r, order[k])
      PROVE  /\ [r EXCEPT !.state = "EVIDENCE_INCOMPLETE"] \in Records
             /\ RecordTrueOf([r EXCEPT !.state = "EVIDENCE_INCOMPLETE"], order[k])
  <2> DEFINE incomplete == [r EXCEPT !.state = "EVIDENCE_INCOMPLETE"]
  <2>1. /\ incomplete \in Records /\ incomplete.result = r.result /\ incomplete.fees = r.fees
        /\ incomplete.state = "EVIDENCE_INCOMPLETE"
    BY DEF Records, States
  <2> HIDE DEF incomplete
  <2>2. incomplete \in Records /\ RecordTrueOf(incomplete, order[k])
    BY <2>1, <1>l DEF RecordTrueOf
  <2> QED BY <2>2 DEF incomplete
<1>7. ASSUME NEW c \in Callers, StatusReturns(c) PROVE Rest'
  <2> DEFINE seen == call[c].seen
             updated == [seen EXCEPT !.state = "ORDER_RECORDED", !.result = call[c].reply,
                                     !.fees = 0]
             incomplete == [seen EXCEPT !.state = "EVIDENCE_INCOMPLETE"]
             fallback == IF call[c].kind = "cancel" THEN seen ELSE incomplete
  <2>1. PICK k \in Keys :
          /\ call[c].kind \in {"status", "cancel"} /\ call[c].key = k /\ order' = order
          /\ \/ Store(k, updated) /\ Goes(c, Waiting("enrich", k, updated))
             \/ StoreFallsBack(k, updated, fallback) /\ Ends(c)
    BY <1>7 DEF StatusReturns, Is
  <2>2. fallback \in Records /\ RecordTrueOf(fallback, order[k])
    BY <2>1, <1>c, <1>l
  <2>3. updated \in Records
    BY <2>1, <1>c, RecordUpdates DEF States
  <2>4. updated.result = call[c].reply /\ updated.fees = 0 /\ updated.state = "ORDER_RECORDED"
    BY <2>1, <1>c DEF Records
  <2> HIDE DEF updated, fallback
  <2>5. RecordTrueOf(updated, order[k])
    BY <2>1, <2>3, <2>4, <1>c, <1>o, RecordsStayTrue
  <2> QED BY <2>1, <2>2, <2>3, <2>5, <1>k
<1>8. ASSUME NEW c \in Callers, StatusFails(c) PROVE Rest'
  <2> DEFINE seen == call[c].seen
             failed == IF call[c].kind = "cancel" THEN seen
                       ELSE [seen EXCEPT !.state = "EVIDENCE_INCOMPLETE"]
  <2>1. PICK k \in Keys : /\ call[c].kind \in {"status", "cancel"} /\ call[c].key = k
                          /\ Store(k, failed) \/ StoreBreaks(k, failed)
                          /\ Ends(c) /\ order' = order
    BY <1>8 DEF StatusFails, Is
  <2>2. failed \in Records /\ RecordTrueOf(failed, order[k])
    BY <2>1, <1>c, <1>l
  <2> HIDE DEF failed
  <2> QED BY <2>1, <2>2, <1>k
<1>9. ASSUME NEW c \in Callers, Enrich(c) PROVE Rest'
  <2> DEFINE seen == call[c].seen
             complete == [seen EXCEPT !.state = "FEE_RECONCILED", !.fees = 0]
  <2>1. PICK k \in Keys :
          /\ call[c].kind = "enrich" /\ call[c].key = k /\ order' = order
          /\ \/ /\ seen.result.filled = 0
                /\ Ends(c) /\ (Store(k, complete) \/ StoreBreaks(k, complete))
             \/ /\ (seen.result.known /\ Goes(c, Waiting("fees", k, seen))) \/ Ends(c)
                /\ UNCHANGED <<record, disk>>
    BY <1>9 DEF Enrich, Is
  <2>2. seen \in Records /\ RecordTrueOf(seen, order[k])
    BY <2>1, <1>c
  <2>3. CASE UNCHANGED <<record, disk>>
             /\ ((seen.result.known /\ Goes(c, Waiting("fees", k, seen))) \/ Ends(c))
    BY <2>1, <2>2, <2>3, <1>k
  <2>4. CASE seen.result.filled = 0 /\ Ends(c) /\ (Store(k, complete) \/ StoreBreaks(k, complete))
    <3>1. complete \in Records
      BY <2>2, RecordUpdates DEF States
    <3>2. complete.result = seen.result /\ complete.fees = 0
      BY <2>2 DEF Records
    <3> HIDE DEF complete
    <3>3. RecordTrueOf(complete, order[k])
      BY <3>1, <3>2, <2>2, <2>4, <1>o, RecordsStayTrue DEF RecordTrueOf
    <3> QED BY <2>1, <2>4, <3>1, <3>3, <1>k
  <2> QED BY <2>1, <2>3, <2>4
<1>10. ASSUME NEW c \in Callers, FeesReturn(c) PROVE Rest'
  <2> DEFINE seen == call[c].seen
             inspected(state, n) == [seen EXCEPT !.state = state, !.fees = n]
             failed == [seen EXCEPT !.state = "EVIDENCE_INCOMPLETE"]
  <2>1. PICK k \in Keys, fills \in 0..Quantity :
          /\ call[c].kind = "fees" /\ call[c].key = k /\ fills <= order[k].filled
          /\ \/ \E state \in {"FEE_RECONCILED", "EVIDENCE_INCOMPLETE"} :
                  /\ state = "FEE_RECONCILED" => fills = seen.result.filled
                  /\ \/ Store(k, inspected(state, fills))
                     \/ StoreFallsBack(k, inspected(state, fills), failed)
             \/ Store(k, failed) \/ StoreBreaks(k, failed)
          /\ Ends(c) /\ order' = order
    BY <1>10 DEF FeesReturn, Is
  <2>2. seen \in Records /\ RecordTrueOf(seen, order[k]) /\ seen.result.known
    BY <2>1, <1>c
  <2>3. failed \in Records /\ RecordTrueOf(failed, order[k])
    BY <2>2, <1>l
  <2>4. ASSUME NEW state \in {"FEE_RECONCILED", "EVIDENCE_INCOMPLETE"},
               state = "FEE_RECONCILED" => fills = seen.result.filled
        PROVE  inspected(state, fills) \in Records /\ RecordTrueOf(inspected(state, fills), order[k])
    <3>1. inspected(state, fills) \in Records
      BY <2>2, RecordUpdates DEF States
    <3>2. /\ inspected(state, fills).result = seen.result /\ inspected(state, fills).fees = fills
          /\ inspected(state, fills).state = state
      BY <2>2 DEF Records
    <3> HIDE DEF inspected
    <3> QED BY <3>1, <3>2, <2>1, <2>2, <2>4 DEF RecordTrueOf
  <2> HIDE DEF inspected, failed
  <2> QED BY <2>1, <2>3, <2>4, <1>k
<1>u. ASSUME NEW c \in Callers, Unattached(c) PROVE Rest'
  <2> DEFINE incomplete == [call[c].seen EXCEPT !.state = "EVIDENCE_INCOMPLETE"]
  <2>1. PICK k \in Keys :
          /\ call[c].kind = "unattached" /\ call[c].key = k
          /\ Store(k, incomplete) \/ StoreFallsBack(k, incomplete, Uncertain)
          /\ Ends(c) /\ order' = order
    BY <1>u DEF Unattached, Is
  <2>2. incomplete \in Records /\ RecordTrueOf(incomplete, order[k])
    BY <2>1, <1>c, <1>l
  <2>3. Uncertain \in Records /\ RecordTrueOf(Uncertain, order[k])
    BY <1>o, FreshRecordsAreTrue
  <2> HIDE DEF incomplete
  <2> QED BY <2>1, <2>2, <2>3, <1>k
<1>11. ASSUME NEW k \in Keys, Fill(k) \/ Expire(k) PROVE Rest'
  <2>1. AllOrdersMove
    BY <1>11, <1>t DEF Fill, Expire, AllOrdersMove, OrderMoves, TypeOK, Orders
  <2>2. CallsAreTrue' /\ UNCHANGED <<record, disk>>
    BY <1>11, <2>1, <1>t, TrueCallsStay DEF Fill, Expire
  <2> QED BY <2>1, <2>2, <1>g
<1>12. ASSUME Restart PROVE Rest'
  <2>1. record' = disk.base /\ disk' = disk /\ order' = order
    BY <1>12, <1>s DEF Restart, DurableAppends, ReadBack, Restored, SubmissionInv, JournalIntact, Settled
  <2>2. \A c \in Callers : call'[c].kind = "idle"
    BY <1>12 DEF Restart, IdleCall
  <2> QED BY <2>1, <2>2 DEF TruthInv, RecordsAreTrue, CallsAreTrue
<1>13. ASSUME UNCHANGED vars PROVE Rest'
  BY <1>13 DEF vars, TruthInv, RecordsAreTrue, CallsAreTrue
<1>14. Rest'
  BY <1>1, <1>2, <1>3, <1>4, <1>5, <1>6, <1>7, <1>8, <1>9, <1>10, <1>11, <1>12,
     <1>13, <1>u DEF Next, Begin, Continue
<1> QED BY <1>14, <1>s DEF TruthInv

\* With durable appends every result held anywhere stays true.
THEOREM TruthInvariant == DurableAppends => (Spec => []TruthInv)
<1> SUFFICES ASSUME DurableAppends PROVE Spec => []TruthInv
  OBVIOUS
<1>1. Init /\ SubmissionInv => TruthInv
  <2> SUFFICES ASSUME Init, SubmissionInv PROVE RecordsAreTrue /\ CallsAreTrue
    BY DEF TruthInv
  <2>1. \A k \in Keys : /\ record[k] = NoRecord /\ disk.base[k] = NoRecord
                        /\ order[k] \in Orders
    BY DEF Init, Settled, NoRecords, SubmissionInv, TypeOK
  <2>2. \A c \in Callers : call[c].kind = "idle"
    BY DEF Init, IdleCall
  <2> QED BY <2>1, <2>2, FreshRecordsAreTrue DEF RecordsAreTrue, CallsAreTrue
<1>2. TruthInv /\ [Next]_vars => TruthInv'
  BY TruthStep
<1> QED BY <1>1, <1>2, SubmissionInvariant, PTL DEF Spec

\* validateResult and the terminal states: a result recorded as final is the
\* exchange's final word, however many stale or overlapping reads, cancellations,
\* crashes, lost replies and failed appends came before it.
THEOREM FinalStaysFinal == DurableAppends => (Spec => []FinalResultsAreFinal)
<1> SUFFICES ASSUME DurableAppends PROVE Spec => []FinalResultsAreFinal
  OBVIOUS
<1>1. TruthInv => FinalResultsAreFinal
  BY DEF TruthInv, RecordsAreTrue, RecordTrueOf, TrueOf, FinalResultsAreFinal
<1> QED BY <1>1, TruthInvariant, PTL

\* authoritativeFillFeeEvidenceRequired: a record that is complete with its fees has
\* the fees of exactly its fills, and of all the exchange executed once it is final;
\* no record claims fills, fees or an order id the exchange does not have.
THEOREM RecordedFillsAreReal == DurableAppends => (Spec => []FillsAreReal)
<1> SUFFICES ASSUME DurableAppends PROVE Spec => []FillsAreReal
  OBVIOUS
<1>1. TruthInv => FillsAreReal
  BY DEF TruthInv, RecordsAreTrue, RecordTrueOf, TrueOf, FillsAreReal
<1> QED BY <1>1, TruthInvariant, PTL
=============================================================================
