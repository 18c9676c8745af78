----------------------- MODULE CentralLiveOrderGateway ----------------------
(***************************************************************************)
(* The order gateway every central LIVE lifecycle submits through, the     *)
(* exchange adapter and order poller behind it, and the exchange.          *)
(*                                                                         *)
(* Each idempotency key has one record, written to a JSONL journal before  *)
(* the exchange is called.  Calls are asynchronous and may overlap: a call *)
(* works on the record it captured before its last await (`seen') and      *)
(* writes that copy back, changed, when the exchange answers.  `busy' is   *)
(* the call that is inside a synchronous stretch with a second journal     *)
(* write to come; only a crash can get in between.                         *)
(***************************************************************************)
EXTENDS Integers, FiniteSets, JsonlSnapshotStore

CONSTANTS
  Keys,             \* idempotency keys
  Callers,          \* bound: calls that may be under way at once
  Quantity,         \* requested quantity of every order, in lots
  MaximumRecords,   \* maximumRecords of the gateway
  MaxRestarts,      \* bound on the number of crashes
  Faults            \* subset of FaultKinds that may happen

FaultKinds == {"crash", "failedAppend", "tornAppend", "failedRead", "lostReply"}

ASSUME KeysAssumption == IsFiniteSet(Keys)
ASSUME GatewayBoundsAssumption ==
  /\ Quantity \in Nat \ {0}
  /\ MaximumRecords \in Nat \ {0}
  /\ MaxRestarts \in Nat
  /\ Faults \subseteq FaultKinds

VARIABLES
  record,     \* key -> gateway record, in memory
  disk,       \* logs/live/central-order-gateway.jsonl
  call,       \* caller -> the gateway call it is waiting for
  busy,       \* callers inside a synchronous stretch: at most one
  order,      \* key -> what the exchange holds for it
  restarts    \* crashes so far

vars == <<record, disk, call, busy, order, restarts>>

-----------------------------------------------------------------------------
States == {"NONE", "PREPARED", "ORDER_RECORDED", "FEE_RECONCILED",
           "EVIDENCE_INCOMPLETE", "SUBMISSION_UNCERTAIN"}

\* LiveExecutionStatus; OPEN stands for PENDING, OPEN and PARTIALLY_FILLED.
Statuses == {"OPEN", "TIMED_OUT", "FILLED", "CANCELLED", "FAILED"}
Terminal == {"FILLED", "CANCELLED", "FAILED"}

\* A result; known tells whether it carries the exchange order id.
Results == [known : BOOLEAN, status : Statuses \cup {"NONE"}, filled : 0..Quantity]
NoResult == [known |-> FALSE, status |-> "NONE", filled |-> 0]
FailedResult == [known |-> FALSE, status |-> "FAILED", filled |-> 0]

\* fees: the lots whose fees the record's feeEvidence lists, 0 without evidence.
Records == [state : States, result : Results, fees : 0..Quantity, cancelRequested : BOOLEAN]
NoRecord == [state |-> "NONE", result |-> NoResult, fees |-> 0, cancelRequested |-> FALSE]
Prepared == [NoRecord EXCEPT !.state = "PREPARED"]
Uncertain == [NoRecord EXCEPT !.state = "SUBMISSION_UNCERTAIN"]

RecordMaps == [Keys -> Records]
NoRecords == [k \in Keys |-> NoRecord]
Recorded == {k \in Keys : record[k].state # "NONE"}

\* The exchange's side of a key: how many orders it accepted under it, and the
\* state and fills of the last one.
Orders == [placed : Nat, status : {"NONE", "OPEN", "FILLED", "CANCELLED"},
           filled : 0..Quantity]
NoOrder == [placed |-> 0, status |-> "NONE", filled |-> 0]

\* What an adapter reads from the exchange.
View(k) == [known |-> TRUE, status |-> order[k].status, filled |-> order[k].filled]

Kinds == {"idle", "create", "poll", "unattached", "status", "cancel", "enrich", "fees"}
Calls == {[kind |-> "idle"]} \cup
  [kind : Kinds \ {"idle"}, key : Keys, seen : Records, reply : Results]
IdleCall == [kind |-> "idle"]
Waiting(kind, k, seen) == [kind |-> kind, key |-> k, seen |-> seen, reply |-> NoResult]
Answered(c, result) == [call[c] EXCEPT !.reply = result]
Is(c, kind, k) == call[c].kind = kind /\ call[c].key = k

Free == busy = {}

-----------------------------------------------------------------------------
(* Journal writes *)

Broken(d, s) ==
  (IF "failedAppend" \in Faults THEN {d} ELSE {}) \cup
  (IF "tornAppend" \in Faults THEN BrokenOff(d, s) \ {d} ELSE {})

With(k, r) == [record EXCEPT ![k] = r]

\* set(r) and persist(): returns with both done, or throws with only memory set.
Store(k, r) == record' = With(k, r) /\ disk' = Appended(disk, With(k, r))
StoreBreaks(k, r) == record' = With(k, r) /\ disk' \in Broken(disk, With(k, r))

\* set(r) and persist() throw inside a try block whose catch stores `fallback'.
StoreFallsBack(k, r, fallback) ==
  \E d \in Broken(disk, With(k, r)) :
    /\ record' = With(k, fallback)
    /\ disk' \in {Appended(d, With(k, fallback))} \cup Broken(d, With(k, fallback))

Goes(c, next) == call' = [call EXCEPT ![c] = next]
Ends(c) == Goes(c, IdleCall)

-----------------------------------------------------------------------------
(* executeOrReconcile *)

\* Seeded fault: a key whose submission never got a reply is sent again.
PreparesAgain(c, k) ==
  /\ Free /\ call[c] = IdleCall
  /\ record[k].state \in {"NONE", "PREPARED"}
  /\ Store(k, Prepared) /\ Goes(c, Waiting("create", k, Prepared))
  /\ UNCHANGED <<busy, order, restarts>>

\* Seeded fault: the exchange is called although the journal write failed.
PreparesRegardless(c, k) ==
  /\ Free /\ call[c] = IdleCall
  /\ record[k].state = "NONE"
  /\ Store(k, Prepared) \/ StoreBreaks(k, Prepared)
  /\ Goes(c, Waiting("create", k, Prepared))
  /\ UNCHANGED <<busy, order, restarts>>

\* A key never seen: the intent is journaled, then the exchange is called.
\* If the journal write throws, the call ends before any I/O.
Prepare(c, k) ==
  /\ Free /\ call[c] = IdleCall
  /\ record[k].state = "NONE"
  /\ Cardinality(Recorded) < MaximumRecords
  /\ \/ Store(k, Prepared) /\ Goes(c, Waiting("create", k, Prepared))
     \/ StoreBreaks(k, Prepared) /\ UNCHANGED call
  /\ UNCHANGED <<busy, order, restarts>>

\* PREPARED or SUBMISSION_UNCERTAIN: nothing is ever sent again.  Everything
\* else is reconciled: by reading the known order, or by enrich() alone.
Reconcile(c, k) ==
  /\ Free /\ call[c] = IdleCall
  /\ record[k].state \notin {"NONE", "PREPARED", "SUBMISSION_UNCERTAIN"}
  /\ IF record[k].result.known
       THEN Goes(c, Waiting("status", k, record[k])) /\ UNCHANGED busy
       ELSE Goes(c, Waiting("enrich", k, record[k])) /\ busy' = {c}
  /\ UNCHANGED <<record, disk, order, restarts>>

\* The adapter's reply to execute() is stored; enriching it, or recording that its
\* order id could not be attached to the private fill stream, follows in the same
\* synchronous stretch.  If validateResult or the store throws, the catch block
\* writes SUBMISSION_UNCERTAIN over everything, order id and all.
ReceiveExecution(c, k, result) ==
  LET stored == [Prepared EXCEPT !.state = "ORDER_RECORDED", !.result = result] IN
  \/ /\ Store(k, stored)
     /\ \/ Goes(c, Waiting("enrich", k, stored))
        \/ result.known /\ Goes(c, Waiting("unattached", k, stored))
     /\ busy' = {c}
  \/ /\ Store(k, Uncertain) \/ StoreBreaks(k, Uncertain) \/ StoreFallsBack(k, stored, Uncertain)
     /\ Ends(c) /\ UNCHANGED busy

\* attachExchangeOrderId threw: only the evidence is incomplete, unless this write
\* throws as well.
Unattached(c) == \E k \in Keys :
  LET incomplete == [call[c].seen EXCEPT !.state = "EVIDENCE_INCOMPLETE"] IN
  /\ busy = {c} /\ Is(c, "unattached", k)
  /\ Store(k, incomplete) \/ StoreFallsBack(k, incomplete, Uncertain)
  /\ Ends(c) /\ busy' = {}
  /\ UNCHANGED <<order, restarts>>

-----------------------------------------------------------------------------
(* The adapter's execute(): create the order, then poll it to a final state.  *)
(* Whatever throws inside, its catch block returns FAILED without an order id. *)

Place(k) == order' = [order EXCEPT ![k] =
  [placed |-> @.placed + 1, status |-> "OPEN", filled |-> 0]]

\* The exchange accepts the order and the adapter learns its id.  From here on
\* `reply' is the poller's latestResult, at first the answer to the creation.
CreateAccepted(c) == \E k \in Keys :
  /\ Free /\ Is(c, "create", k)
  /\ Place(k)
  /\ Goes(c, [Waiting("poll", k, call[c].seen) EXCEPT
               !.reply = [known |-> TRUE, status |-> "OPEN", filled |-> 0]])
  /\ UNCHANGED <<record, disk, busy, restarts>>

\* The exchange, or the adapter's own validation, refuses it.
CreateRefused(c) == \E k \in Keys :
  /\ Free /\ Is(c, "create", k)
  /\ ReceiveExecution(c, k, FailedResult)
  /\ UNCHANGED <<order, restarts>>

\* The exchange accepts it and the reply is lost.
CreateReplyLost(c) == \E k \in Keys :
  /\ "lostReply" \in Faults
  /\ Free /\ Is(c, "create", k)
  /\ Place(k)
  /\ ReceiveExecution(c, k, FailedResult)
  /\ UNCHANGED restarts

\* A status read of the poller fails and the exception reaches the catch block.
PollFails(c) == \E k \in Keys :
  /\ "lostReply" \in Faults
  /\ Free /\ Is(c, "poll", k)
  /\ ReceiveExecution(c, k, FailedResult)
  /\ UNCHANGED <<order, restarts>>

\* The poller reads the order; a final state ends the polling.
PollReads(c) == \E k \in Keys :
  /\ Free /\ Is(c, "poll", k) /\ call[c].reply.status = "OPEN"
  /\ Goes(c, Answered(c, View(k)))
  /\ UNCHANGED <<record, disk, busy, order, restarts>>

\* What a cancellation does at the exchange: it ends an open order.  One that filled
\* or ended while the request was under way stays what it is.
CancelAt(k) == order' = [order EXCEPT ![k].status = IF @ = "OPEN" THEN "CANCELLED" ELSE @]

\* The timeout passes and the poller cancels.  The adapter answers with the order's
\* final state, or it throws although the exchange has done as it was asked (the
\* reply, or the final read behind it, is lost): then the latest read is the result.
PollCancels(c) == \E k \in Keys :
  /\ Free /\ Is(c, "poll", k) /\ call[c].reply.status = "OPEN"
  /\ CancelAt(k)
  /\ \/ Goes(c, Answered(c, View(k)'))
     \/ /\ "lostReply" \in Faults
        /\ Goes(c, Answered(c, [call[c].reply EXCEPT !.status = "TIMED_OUT"]))
  /\ UNCHANGED <<record, disk, busy, restarts>>

\* Seeded fault: an order that timed out is reported cancelled, uncancelled.
PollAssumesCancelled(c) == \E k \in Keys :
  /\ Free /\ Is(c, "poll", k)
  /\ ReceiveExecution(c, k,
       [call[c].reply EXCEPT !.status = IF @ = "OPEN" THEN "CANCELLED" ELSE @])
  /\ UNCHANGED <<order, restarts>>

\* The result reaches the gateway: a final state, or TIMED_OUT with the latest read
\* when the order may not be cancelled or the exchange would not cancel it.
PollEnds(c) == \E k \in Keys :
  /\ Free /\ Is(c, "poll", k)
  /\ ReceiveExecution(c, k,
       [call[c].reply EXCEPT !.status = IF @ = "OPEN" THEN "TIMED_OUT" ELSE @])
  /\ UNCHANGED <<order, restarts>>

-----------------------------------------------------------------------------
(* reconcileKnown: read the order, store what was read, enrich              *)

\* The exchange answers the read, or the cancellation; the answer is on its way.
StatusRead(c) == \E k \in Keys :
  /\ Free /\ call[c].kind \in {"status", "cancel"} /\ call[c].key = k
  /\ call[c].reply = NoResult
  /\ IF call[c].kind = "cancel" THEN CancelAt(k) ELSE UNCHANGED order
  /\ Goes(c, Answered(c, View(k)'))
  /\ UNCHANGED <<record, disk, busy, restarts>>

\* validateResult against the result the call captured, not the current one.
Regressed(c) == call[c].reply.filled < call[c].seen.result.filled

StatusReturns(c) == \E k \in Keys :
  LET seen == call[c].seen
      updated == [seen EXCEPT !.state = "ORDER_RECORDED", !.result = call[c].reply,
                              !.fees = 0]
      incomplete == [seen EXCEPT !.state = "EVIDENCE_INCOMPLETE"]
      \* the catch block of a cancellation keeps the state it had
      fallback == IF call[c].kind = "cancel" THEN seen ELSE incomplete
  IN
  /\ Free /\ (Is(c, "status", k) \/ Is(c, "cancel", k))
  /\ call[c].reply # NoResult /\ ~Regressed(c)
  /\ \/ /\ Store(k, updated)
        /\ Goes(c, Waiting("enrich", k, updated))
        /\ busy' = {c}
     \/ StoreFallsBack(k, updated, fallback) /\ Ends(c) /\ UNCHANGED busy
  /\ UNCHANGED <<order, restarts>>

\* The read or the cancellation throws, or its result is invalid.
StatusFails(c) == \E k \in Keys :
  LET seen == call[c].seen
      failed == IF call[c].kind = "cancel" THEN seen
                ELSE [seen EXCEPT !.state = "EVIDENCE_INCOMPLETE"]
  IN
  /\ Free /\ (Is(c, "status", k) \/ Is(c, "cancel", k))
  /\ call[c].reply = NoResult \/ Regressed(c) \/ "lostReply" \in Faults
  /\ Store(k, failed) \/ StoreBreaks(k, failed)
  /\ Ends(c)
  /\ UNCHANGED <<busy, order, restarts>>

-----------------------------------------------------------------------------
(* cancelOrReconcile: the request is journaled before the exchange is asked *)

Cancel(c, k) ==
  LET requested == [record[k] EXCEPT !.cancelRequested = TRUE] IN
  /\ Free /\ call[c] = IdleCall
  /\ record[k].state # "NONE" /\ record[k].result.known
  /\ IF record[k].result.status \in Terminal
       THEN /\ Goes(c, Waiting("enrich", k, record[k]))
            /\ busy' = {c}
            /\ UNCHANGED <<record, disk>>
       ELSE /\ \/ Store(k, requested) /\ Goes(c, Waiting("cancel", k, requested))
               \/ StoreBreaks(k, requested) /\ UNCHANGED call
            /\ UNCHANGED busy
  /\ UNCHANGED <<order, restarts>>

-----------------------------------------------------------------------------
(* enrich: bind the fills to authoritative fees *)

\* Nothing filled: complete without asking.  A fill without an order id stays as
\* it is.  Otherwise the fee evidence is awaited.
Enrich(c) == \E k \in Keys :
  LET seen == call[c].seen
      complete == [seen EXCEPT !.state = "FEE_RECONCILED", !.fees = 0]
  IN
  /\ busy = {c} /\ Is(c, "enrich", k)
  /\ IF seen.result.filled = 0 /\ seen.result # NoResult
       THEN Ends(c) /\ (Store(k, complete) \/ StoreBreaks(k, complete))
     ELSE /\ IF seen.result.known THEN Goes(c, Waiting("fees", k, seen)) ELSE Ends(c)
          /\ UNCHANGED <<record, disk>>
  /\ busy' = {}
  /\ UNCHANGED <<order, restarts>>

\* Seeded fault: fees are called complete without comparing them with the fills.
FeesReturnUnmatched(c) == \E k \in Keys, fills \in 0..Quantity :
  /\ Free /\ Is(c, "fees", k) /\ fills <= order[k].filled
  /\ Store(k, [call[c].seen EXCEPT !.state = "FEE_RECONCILED", !.fees = fills])
  /\ Ends(c)
  /\ UNCHANGED <<busy, order, restarts>>

\* The exchange lists `fills' lots of the order, with their fees, at some moment of
\* the call.  The evidence is complete when they are the recorded quantity and
\* nothing else blocks it.  The inspection may also throw: then the record keeps
\* the evidence it had.
FeesReturn(c) == \E k \in Keys, fills \in 0..Quantity :
  LET seen == call[c].seen
      complete == [seen EXCEPT !.state = "FEE_RECONCILED", !.fees = fills]
      blocked == [seen EXCEPT !.state = "EVIDENCE_INCOMPLETE", !.fees = fills]
      failed == [seen EXCEPT !.state = "EVIDENCE_INCOMPLETE"]
  IN
  /\ Free /\ Is(c, "fees", k) /\ fills <= order[k].filled
  /\ \/ fills = seen.result.filled /\ (Store(k, complete) \/ StoreFallsBack(k, complete, failed))
     \/ Store(k, blocked) \/ StoreFallsBack(k, blocked, failed)
     \/ Store(k, failed) \/ StoreBreaks(k, failed)
  /\ Ends(c)
  /\ UNCHANGED <<busy, order, restarts>>

-----------------------------------------------------------------------------
(* The exchange and the process *)

\* Seeded fault: an order fills beyond its quantity.
Overfills(k) ==
  /\ order[k].status = "OPEN"
  /\ order' = [order EXCEPT ![k].filled = @ + 1]
  /\ UNCHANGED <<record, disk, call, busy, restarts>>

Fill(k) ==
  /\ order[k].status = "OPEN"
  /\ order[k].filled < Quantity
  /\ order' = [order EXCEPT ![k].filled = @ + 1,
                            ![k].status = IF order[k].filled + 1 = Quantity
                                            THEN "FILLED" ELSE "OPEN"]
  /\ UNCHANGED <<record, disk, call, busy, restarts>>

\* The exchange ends an open order by itself: expired, or cancelled on the venue.
Expire(k) ==
  /\ order[k].status = "OPEN"
  /\ order' = [order EXCEPT ![k].status = "CANCELLED"]
  /\ UNCHANGED <<record, disk, call, busy, restarts>>

Restart ==
  /\ "crash" \in Faults
  /\ restarts < MaxRestarts
  /\ record' \in ReadBack(disk, NoRecords, "failedRead" \in Faults)
  /\ call' = [c \in Callers |-> IdleCall]
  /\ busy' = {}
  /\ restarts' = restarts + 1
  /\ UNCHANGED <<disk, order>>

-----------------------------------------------------------------------------
Init ==
  /\ record = NoRecords
  /\ disk = Settled(record)
  /\ call = [c \in Callers |-> IdleCall]
  /\ busy = {}
  /\ order = [k \in Keys |-> NoOrder]
  /\ restarts = 0

Begin == \E c \in Callers, k \in Keys : Prepare(c, k) \/ Reconcile(c, k) \/ Cancel(c, k)

Continue == \E c \in Callers :
  \/ CreateAccepted(c) \/ CreateRefused(c) \/ CreateReplyLost(c)
  \/ PollReads(c) \/ PollFails(c) \/ PollCancels(c) \/ PollEnds(c)
  \/ StatusRead(c) \/ StatusReturns(c) \/ StatusFails(c)
  \/ Unattached(c) \/ Enrich(c) \/ FeesReturn(c)

Next == Begin \/ Continue \/ Restart \/ \E k \in Keys : Fill(k) \/ Expire(k)

Spec == Init /\ [][Next]_vars

-----------------------------------------------------------------------------
(* Properties *)

TypeOK ==
  /\ record \in RecordMaps /\ disk \in DiskOf(RecordMaps)
  /\ call \in [Callers -> Calls]
  /\ busy \in SUBSET Callers
  /\ order \in [Keys -> Orders]
  /\ restarts \in Nat

\* unknownSubmissionNeverRetried: an idempotency key reaches an exchange at most
\* once, whatever crashes, retries and overlapping calls.
SubmittedAtMostOnce == \A k \in Keys : order[k].placed <= 1

\* journalBeforeIo: an order an exchange accepted has a durable record.
SubmissionsAreJournaled == \A k \in Keys :
  order[k].placed > 0 => Restored(disk)[k].state # "NONE"

\* A result recorded as final is the exchange's final word: no later fill or
\* cancellation can contradict it, however late or stale the call that wrote it.
FinalResultsAreFinal == \A k \in Keys :
  record[k].result.known /\ record[k].result.status \in Terminal =>
    /\ order[k].status = record[k].result.status
    /\ order[k].filled = record[k].result.filled

\* authoritativeFillFeeEvidenceRequired: a record that is complete with its fees has
\* the fees of exactly the fills it records, and of all the exchange executed once
\* its result is final.  No record claims fills, or fees, the exchange has not.
FillsAreReal == \A k \in Keys :
  LET r == record[k] IN
  /\ r.result.known => order[k].placed > 0
  /\ r.result.filled <= order[k].filled /\ r.fees <= order[k].filled
  /\ r.state = "FEE_RECONCILED" =>
       /\ r.fees = r.result.filled
       /\ r.result.known /\ r.result.status \in Terminal => r.fees = order[k].filled

\* "Fixture lost response after possible acceptance." ends in
\* UNCERTAIN_SUBMISSION: the gateway never settles a key as filled nothing while
\* the exchange holds an order for it.
AcceptedOrdersAreNotDenied == \A k \in Keys :
  order[k].placed > 0 =>
    ~(record[k].state = "FEE_RECONCILED" /\ ~record[k].result.known)

=============================================================================
