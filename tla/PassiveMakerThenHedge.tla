------------------------ MODULE PassiveMakerThenHedge -----------------------
(***************************************************************************)
(* The LIVE lifecycle of a passive maker order hedged by a market order,   *)
(* over its production port: one dispatch, resumed until its outcome is    *)
(* journaled.                                                              *)
(*                                                                         *)
(* A call of resume() walks from the maker order to the hedge, from there  *)
(* to the settlement and the outcome, and ends by an exception wherever    *)
(* the evidence is not exact or a store refuses it; everything it knows is *)
(* then asked again by the next call, which may overlap with it (the       *)
(* dispatcher does not await the previous one).                            *)
(*                                                                         *)
(* The gateway is what the handler sees of it: per order a record that is  *)
(* absent, unsure, denied (FAILED without an order id) or known.  A known  *)
(* record may be older than the exchange, because overlapping calls write  *)
(* back what they captured, but it never invents a fill or an end: that is *)
(* FillsAreReal and FinalResultsAreFinal of CentralLiveOrderGateway.       *)
(*                                                                         *)
(* Quantities are whole lots of the base asset.                            *)
(***************************************************************************)
EXTENDS Integers, FiniteSets

CONSTANTS
  Callers,           \* bound: resume() calls that may be under way at once
  Quantity,          \* lots of the maker leg and of the hedge leg of the plan
  FeeDivisor,        \* lots a venue fills for one lot of base-asset fee
  FeeAssets,         \* what the two venues may charge their fees in
  MakerSides,        \* sides the maker leg may have
  MaximumBaseFee,    \* maximumBaseFeeQuantity of the admission
  MaximumQuoteFee,   \* its maximumQuoteFeeQuantity, in fees of FeeDivisor lots
  Tolerance,         \* its baseQuantityTolerance
  MaximumExposure,   \* its maximumUnpairedBaseExposure
  MaximumRecovery,   \* maximumQuoteValue of shared recovery, at the reference price
  MaximumReads,      \* maximumStatusReads of the handler
  Faults,            \* subset of FaultKinds that may happen
  MaxFaults          \* bound on the number of faults

FaultKinds == {"crash", "failedAppend", "lostReply", "fullStore"}

ASSUME HedgeBoundsAssumption ==
  /\ Quantity \in Nat \ {0} /\ FeeDivisor \in Nat \ {0}
  /\ FeeAssets \subseteq {"base", "quote", "third"}
  /\ MakerSides \subseteq {"buy", "sell"}
  /\ MaximumBaseFee \in Nat /\ MaximumQuoteFee \in Nat /\ Tolerance \in Nat
  /\ MaximumExposure \in Nat /\ MaximumRecovery \in Nat
  /\ MaximumReads \in Nat \ {0}
  /\ Faults \subseteq FaultKinds
  /\ MaxFaults \in Nat

VARIABLES
  feeAsset,      \* order -> asset its venue charges the fees in
  makerSide,     \* side of the maker leg
  order,         \* order -> what its exchange holds
  record,        \* order -> the gateway's record of it
  call,          \* caller -> where its resume() stands
  settlement,    \* the sealed settlement, in memory
  sealed,        \* the one a restart reads back
  staged,        \* intents staged for shared recovery, in memory only
  outcomes,      \* history: the outcomes any resume() has reached
  completed,     \* the dispatcher has journaled an outcome
  authorized,    \* plan and action authority have not expired
  full,          \* stores that take no new record: other plans fill them too
  faults         \* faults so far

market == <<feeAsset, makerSide>>
results == <<settlement, sealed, staged, outcomes, completed>>
world == <<authorized, full>>
vars == <<market, order, record, call, results, world, faults>>

-----------------------------------------------------------------------------
OrderNames == {"maker", "hedge"}

\* What can be ordered: the fees of a selling maker are bought back too.
Lots == 0..(Quantity + MaximumBaseFee)

\* How many orders the exchange accepted under a key, and the last one's state.
Orders == [placed : 0..2, status : {"NONE", "OPEN", "FILLED", "CANCELLED"},
           quantity : Lots, filled : Lots]
NoOrder == [placed |-> 0, status |-> "NONE", quantity |-> 0, filled |-> 0]
Closed(o) == order[o].status \in {"FILLED", "CANCELLED"}

\* Evidence of an order.  OPEN stands for every status terminal() refuses,
\* TIMED_OUT included.
Evidences == [status : {"OPEN", "FILLED", "CANCELLED", "FAILED"}, filled : Lots]
NoFill == [status |-> "FAILED", filled |-> 0]
Terminal(e) == e.status # "OPEN"
View(o) == [status |-> order[o].status, filled |-> order[o].filled]

\* What it holds once it has been asked to cancel.
Ended(o) == [View(o) EXCEPT !.status = IF @ = "OPEN" THEN "CANCELLED" ELSE @]

\* What a call that was overtaken may have seen before.
Earlier(o) == [status : {"OPEN"}, filled : 0..order[o].filled]

\* A gateway record: its state, the quantity its request hash binds, its result.
Records == [state : {"none", "unsure", "denied", "known"}, quantity : Lots,
            result : Evidences]
NoRecord == [state |-> "none", quantity |-> 0, result |-> NoFill]
Known(o, e) == [record[o] EXCEPT !.state = "known", !.result = e]
Denied(o) == [record[o] EXCEPT !.state = "denied"]

\* excess is makerCancelRaceExcess: fills this call saw the cancellation bring.
Places == {"idle", "submitting", "placed", "reading", "cancelling", "hedging",
           "settling", "concluding", "returning"}
Calls == [at : Places, on : OrderNames, reads : 0..MaximumReads, excess : BOOLEAN,
          seen : [OrderNames -> Evidences]]
Idle == [at |-> "idle", on |-> "maker", reads |-> 0, excess |-> FALSE,
         seen |-> [o \in OrderNames |-> NoFill]]
Returning == [Idle EXCEPT !.at = "returning"]
At(c, place) == call[c].at = place

NoSettlement == [maker |-> 0, hedge |-> 0, known |-> FALSE]

\* A recovery intent by its key: the one settlement of this plan, and a hash that
\* binds the residual and the reason given for it.
Reasons == {"CANCEL_RACE_EXCESS", "HEDGE_RESIDUAL"}
Intents == [net : Int, reason : Reasons]

Stores == {"gateway", "evidence", "recovery"}

Abs(n) == IF n < 0 THEN -n ELSE n

-----------------------------------------------------------------------------
(* Effects of fills on the base inventory *)

BaseFee(asset, filled) == IF asset = "base" THEN filled \div FeeDivisor ELSE 0
QuoteFee(asset, filled) == IF asset = "quote" THEN filled \div FeeDivisor ELSE 0

EffectOf(side, o, asset, filled) ==
  (IF (o = "maker") = (side = "buy") THEN filled ELSE -filled) - BaseFee(asset, filled)

Effect(o, filled) == EffectOf(makerSide, o, feeAsset[o], filled)

\* validateOrder: no regression behind the evidence this call already has, base and
\* quote fees within the admission, and no third-asset fee: the production port
\* gives fees neither a quote value nor a valuation.
Valid(o, e, previous) ==
  /\ e.filled >= previous.filled
  /\ BaseFee(feeAsset[o], e.filled) <= MaximumBaseFee
  /\ QuoteFee(feeAsset[o], e.filled) <= MaximumQuoteFee
  /\ e.filled > 0 => feeAsset[o] # "third"

-----------------------------------------------------------------------------
(* Moves of a call *)

Goes(c, next) == call' = [call EXCEPT ![c] = next]
Throws(c) == Goes(c, Idle)
Write(o, r) == record' = [record EXCEPT ![o] = r]

\* The call has its outcome; the dispatcher goes on with it (Complete).
Reaches(c, state) == Goes(c, Returning) /\ outcomes' = outcomes \cup {state}

\* Seeded fault: a maker with fills is hedged at once, its order stays open.
HedgesPartialFill(k, o, e) ==
  IF o = "maker" /\ e.filled > 0 THEN [k EXCEPT !.at = "hedging"]
  ELSE IF Terminal(e) THEN [k EXCEPT !.at = "settling"]
  ELSE [k EXCEPT !.at = "cancelling"]

\* Seeded fault: a terminal maker order is settled, whatever it filled.
SettlesUnhedged(k, o, e) ==
  [k EXCEPT !.at = IF Terminal(e) THEN "settling" ELSE "cancelling"]

\* Seeded fault: the bound of the status reads is one too high.
ReadsOnceMore(k, o, e) ==
  IF Terminal(e) THEN [k EXCEPT !.at = "settling"]
  ELSE IF k.reads <= MaximumReads THEN [k EXCEPT !.at = "reading", !.reads = @ + 1]
  ELSE [k EXCEPT !.at = "cancelling"]

\* Where valid evidence takes the call: a maker without fills and a hedge are read
\* again, up to the bound, then cancelled; a maker with fills is cancelled at once.
\* A terminal maker is hedged if its fills are material, else settled.
Step(k, o, e) ==
  IF ~Terminal(e) /\ k.reads < MaximumReads /\ (o = "hedge" \/ e.filled = 0)
    THEN [k EXCEPT !.at = "reading", !.reads = @ + 1]
    ELSE [k EXCEPT !.reads = 0,
                   !.at = IF ~Terminal(e) THEN "cancelling"
                          ELSE IF o = "maker" /\ Abs(Effect(o, e.filled)) > Tolerance
                            THEN "hedging" ELSE "settling"]

Excess(k, o, e) == k.at = "cancelling" /\ o = "maker" /\ e.filled > k.seen[o].filled + Tolerance

Advance(k, o, e) ==
  Step([k EXCEPT !.on = o, !.seen[o] = e, !.excess = @ \/ Excess(k, o, e)], o, e)

\* The port returns evidence e: the call goes on or throws.
Receives(c, o, e) ==
  IF Valid(o, e, call[c].seen[o]) THEN Goes(c, Advance(call[c], o, e)) ELSE Throws(c)

-----------------------------------------------------------------------------
(* submitOrReconcile *)

\* A key never seen: journaled, so unsure until a reply is stored.  The append may
\* fail, which ends the call; so does a gateway at its capacity.
SubmitNew(c, o, quantity) ==
  /\ record[o].state = "none"
  /\ \/ "gateway" \in full /\ Throws(c) /\ UNCHANGED <<record, faults>>
     \/ /\ "gateway" \notin full
        /\ Write(o, [NoRecord EXCEPT !.state = "unsure", !.quantity = quantity])
        /\ \/ Goes(c, [call[c] EXCEPT !.at = "submitting", !.on = o, !.reads = 0])
              /\ UNCHANGED faults
           \/ "failedAppend" \in Faults /\ faults < MaxFaults
              /\ faults' = faults + 1 /\ Throws(c)

\* A key with a record: a changed request or an unsure record throws, a denied one
\* is an order without fills, a known one is read.
Reconcile(c, o, quantity) ==
  /\ record[o].state # "none"
  /\ IF record[o].quantity # quantity \/ record[o].state = "unsure" THEN Throws(c)
     ELSE IF record[o].state = "denied" THEN Receives(c, o, NoFill)
     ELSE Goes(c, [call[c] EXCEPT !.at = "reading", !.on = o, !.reads = 0])
  /\ UNCHANGED <<record, faults>>

\* Seeded fault: the authority is asked before the records are.
RejectsUnasked(c) ==
  /\ At(c, "idle") /\ ~completed
  /\ \/ /\ authorized
        /\ SubmitNew(c, "maker", Quantity) \/ Reconcile(c, "maker", Quantity)
        /\ UNCHANGED outcomes
     \/ ~authorized /\ Reaches(c, "REJECTED") /\ UNCHANGED <<record, faults>>
  /\ UNCHANGED <<market, order, settlement, sealed, staged, completed, world>>

\* Seeded fault: what is already at an exchange is resumed only under authority.
ResumesAuthorized(c) ==
  /\ At(c, "idle") /\ ~completed /\ authorized
  /\ SubmitNew(c, "maker", Quantity) \/ Reconcile(c, "maker", Quantity)
  /\ UNCHANGED <<market, order, results, world>>

\* resume(): the maker order comes first.  Without a record and without authority
\* nothing was ever sent, and the plan is rejected.
Resume(c) ==
  /\ At(c, "idle") /\ ~completed
  /\ \/ /\ authorized /\ SubmitNew(c, "maker", Quantity)
        /\ UNCHANGED outcomes
     \/ /\ Reconcile(c, "maker", Quantity)
        /\ UNCHANGED outcomes
     \/ /\ ~authorized /\ record["maker"].state = "none"
        /\ Reaches(c, "REJECTED")
        /\ UNCHANGED <<record, faults>>
  /\ UNCHANGED <<market, order, settlement, sealed, staged, completed, world>>

\* The hedge of exactly the maker's effect, with or without authority.
Hedge(c) ==
  LET quantity == Abs(Effect("maker", call[c].seen["maker"].filled)) IN
  /\ At(c, "hedging")
  /\ IF quantity > Quantity + MaximumBaseFee
       THEN Throws(c) /\ UNCHANGED <<record, faults>>
       ELSE SubmitNew(c, "hedge", quantity) \/ Reconcile(c, "hedge", quantity)
  /\ UNCHANGED <<market, order, results, world>>

\* The gateway refuses the hedge: the adapter is not ready.
HedgeBlocked(c) ==
  /\ At(c, "hedging") /\ record["hedge"].state = "none"
  /\ Throws(c)
  /\ UNCHANGED <<market, order, record, results, world, faults>>

\* The adapter sends the order and the exchange accepts it.
Accepted(c) == LET o == call[c].on IN
  /\ At(c, "submitting")
  /\ order' = [order EXCEPT ![o] = [placed |-> @.placed + 1, status |-> "OPEN",
                                    quantity |-> record[o].quantity, filled |-> 0]]
  /\ Goes(c, [call[c] EXCEPT !.at = "placed"])
  /\ UNCHANGED <<market, record, results, world, faults>>

\* The exchange, or the adapter itself, refuses the order.
Refused(c) == LET o == call[c].on IN
  /\ At(c, "submitting")
  /\ Write(o, Denied(o)) /\ Receives(c, o, NoFill)
  /\ UNCHANGED <<market, order, results, world, faults>>

\* The poller or the reply of an accepted order fails: the adapter answers FAILED.
ReplyLost(c) == LET o == call[c].on IN
  /\ "lostReply" \in Faults /\ faults < MaxFaults
  /\ At(c, "placed")
  /\ Write(o, Denied(o)) /\ Receives(c, o, NoFill)
  /\ faults' = faults + 1
  /\ UNCHANGED <<market, order, results, world>>

\* Storing the reply fails: the order id is dropped and the record stays unsure.
ReplyUnstored(c) ==
  /\ "failedAppend" \in Faults /\ faults < MaxFaults
  /\ At(c, "submitting") \/ At(c, "placed")
  /\ Throws(c)
  /\ faults' = faults + 1
  /\ UNCHANGED <<market, order, record, results, world>>

-----------------------------------------------------------------------------
(* Replies that carry the order: of the submission, a read or a cancellation *)

Asking(c) == At(c, "placed") \/ At(c, "reading")

\* The reply is the exchange's state, its fees are complete.
Reads(c) == LET o == call[c].on IN
  /\ Asking(c)
  /\ Write(o, Known(o, View(o))) /\ Receives(c, o, View(o))
  /\ UNCHANGED <<market, order, results, world, faults>>

\* The order moved on while the reply was on its way.  Its fees still add up if it
\* had no fills or has no more of them now; otherwise the evidence is incomplete.
ReadsLate(c) == LET o == call[c].on IN
  \E e \in Earlier(o) :
    /\ Asking(c)
    /\ Write(o, Known(o, e))
    /\ IF e.filled \in {0, order[o].filled} THEN Receives(c, o, e) ELSE Throws(c)
    /\ UNCHANGED <<market, order, results, world, faults>>

\* The read, the cancellation or the fee inspection fails: the record keeps the
\* result that was captured, or the one that was read.
EvidenceFails(c) == LET o == call[c].on IN
  /\ Asking(c) \/ At(c, "cancelling")
  /\ \E e \in {View(o)} \cup Earlier(o) :
       Write(o, Known(o, e)) \/ (~At(c, "placed") /\ UNCHANGED record)
  /\ Throws(c)
  /\ UNCHANGED <<market, order, results, world, faults>>

\* Seeded fault: an accepted cancellation counts as the end, fills unread.
CancelsUnread(c) == LET o == call[c].on
                        e == [call[c].seen[o] EXCEPT !.status = "CANCELLED"] IN
  /\ At(c, "cancelling")
  /\ order[o].status = "OPEN"
  /\ order' = [order EXCEPT ![o].status = "CANCELLED"]
  /\ Write(o, Known(o, e)) /\ Receives(c, o, e)
  /\ UNCHANGED <<market, results, world, faults>>

\* cancelOrReconcile: a record that is terminal by now is returned, an open order is
\* cancelled and its last fills are read, which may have come first.
Cancels(c) == LET o == call[c].on IN
  /\ At(c, "cancelling")
  /\ order' = [order EXCEPT ![o].status = Ended(o).status]
  /\ Write(o, Known(o, Ended(o))) /\ Receives(c, o, Ended(o))
  /\ UNCHANGED <<market, results, world, faults>>

\* The order is cancelled and the reply is lost.
CancelUnanswered(c) == LET o == call[c].on IN
  /\ At(c, "cancelling") /\ order[o].status = "OPEN"
  /\ order' = [order EXCEPT ![o].status = "CANCELLED"]
  /\ Throws(c)
  /\ UNCHANGED <<market, record, results, world, faults>>

\* There is nothing left to cancel, and the exchange says so.
CancelRefused(c) == LET o == call[c].on IN
  /\ At(c, "cancelling") /\ Closed(o) /\ ~Terminal(record[o].result)
  /\ Throws(c)
  /\ UNCHANGED <<market, order, record, results, world, faults>>

-----------------------------------------------------------------------------
(* Settlement, recovery and outcome *)

Net(k) == Effect("maker", k.seen["maker"].filled) + Effect("hedge", k.seen["hedge"].filled)

Payload(k) == [maker |-> Effect("maker", k.seen["maker"].filled),
               hedge |-> Effect("hedge", k.seen["hedge"].filled), known |-> TRUE]

\* captureSettlement: what is sealed under the dispatch stays, whatever this call
\* would seal.  The store changes its memory before it appends, and refuses a new
\* record at its capacity.
Settle(c) ==
  /\ At(c, "settling")
  /\ \/ /\ settlement # NoSettlement
        /\ Goes(c, [call[c] EXCEPT !.at = "concluding"])
        /\ UNCHANGED <<settlement, sealed, faults>>
     \/ /\ settlement = NoSettlement /\ "evidence" \in full
        /\ Throws(c)
        /\ UNCHANGED <<settlement, sealed, faults>>
     \/ /\ settlement = NoSettlement /\ "evidence" \notin full
        /\ settlement' = Payload(call[c])
        /\ \/ /\ sealed' = settlement' /\ UNCHANGED faults
              /\ Goes(c, [call[c] EXCEPT !.at = "concluding"])
           \/ /\ "failedAppend" \in Faults /\ faults < MaxFaults
              /\ faults' = faults + 1 /\ Throws(c) /\ UNCHANGED sealed
  /\ UNCHANGED <<market, order, record, staged, outcomes, completed, world>>

Intent(k) == [net |-> Net(k), reason |-> IF k.excess THEN "CANCEL_RACE_EXCESS" ELSE "HEDGE_RESIDUAL"]

\* stageRecovery takes an intent within the quote-value limit: one it holds already is
\* returned, a new one needs room.
Stageable(intent) ==
  /\ Abs(intent.net) <= MaximumRecovery
  /\ intent \in staged \/ "recovery" \notin full

\* Seeded fault: what the maker left is staged, not what the hedge left of it.
StagesMakerEffect(c) == LET intent == [Intent(call[c]) EXCEPT !.net = Payload(call[c]).maker] IN
  /\ At(c, "concluding")
  /\ IF call[c].on = "maker" THEN Reaches(c, "REJECTED") /\ UNCHANGED staged
     ELSE Reaches(c, "RECOVERY_REQUIRED") /\ staged' = staged \cup {intent}
  /\ UNCHANGED <<market, order, record, settlement, sealed, completed, world, faults>>

\* The outcome follows from this call's own evidence.  A residual beyond the
\* admission is staged for shared recovery first; a refusal there ends the call.
Conclude(c) == LET k == call[c] IN
  /\ At(c, "concluding")
  /\ IF k.on = "maker" THEN Reaches(c, "REJECTED") /\ UNCHANGED staged
     ELSE IF Abs(Net(k)) <= MaximumExposure + Tolerance
       THEN Reaches(c, "COMPLETED") /\ UNCHANGED staged
     ELSE IF Stageable(Intent(k))
       THEN Reaches(c, "RECOVERY_REQUIRED") /\ staged' = staged \cup {Intent(k)}
     ELSE Throws(c) /\ UNCHANGED <<outcomes, staged>>
  /\ UNCHANGED <<market, order, record, settlement, sealed, completed, world, faults>>

\* The dispatcher journals what this call returned; a call that comes second finds
\* the dispatch settled (CentralLiveDispatch models both journals).
Complete(c) ==
  /\ At(c, "returning")
  /\ completed' = TRUE
  /\ Throws(c)
  /\ UNCHANGED <<market, order, record, settlement, sealed, staged, outcomes, world, faults>>

-----------------------------------------------------------------------------
(* The exchanges, time and the process *)

Fill(o) ==
  /\ order[o].status = "OPEN" /\ order[o].filled < order[o].quantity
  /\ order' = [order EXCEPT ![o].filled = @ + 1,
                            ![o].status = IF order[o].filled + 1 = order[o].quantity
                                            THEN "FILLED" ELSE "OPEN"]
  /\ UNCHANGED <<market, record, call, results, world, faults>>

\* The exchange ends an order that is not filled: a market order without depth, a
\* post-only order that would have crossed.
Expire(o) ==
  /\ order[o].status = "OPEN"
  /\ order' = [order EXCEPT ![o].status = "CANCELLED"]
  /\ UNCHANGED <<market, record, call, results, world, faults>>

Lapse ==
  /\ authorized /\ authorized' = FALSE
  /\ UNCHANGED <<market, order, record, call, results, full, faults>>

\* A store reaches its capacity.
FillsUp(store) ==
  /\ "fullStore" \in Faults /\ faults < MaxFaults
  /\ full' = full \cup {store} /\ faults' = faults + 1
  /\ UNCHANGED <<market, order, record, call, results, authorized>>

\* A key whose PREPARED append failed was never sent and is fresh again.
Forgotten(o) ==
  IF record[o].state = "unsure" /\ order[o].placed = 0 /\ "failedAppend" \in Faults
    THEN {record[o], NoRecord} ELSE {record[o]}

\* A call and what it returned are lost with the process, and so are the staged
\* intents; the two journals keep their records.
Crash ==
  /\ "crash" \in Faults /\ faults < MaxFaults
  /\ \E m \in Forgotten("maker"), h \in Forgotten("hedge") :
       record' = [o \in OrderNames |-> IF o = "maker" THEN m ELSE h]
  /\ call' = [c \in Callers |-> Idle]
  /\ settlement' = sealed
  /\ staged' = {} /\ full' = full \ {"recovery"}
  /\ faults' = faults + 1
  /\ UNCHANGED <<market, order, sealed, outcomes, completed, authorized>>

-----------------------------------------------------------------------------
Init ==
  /\ feeAsset \in [OrderNames -> FeeAssets]
  /\ makerSide \in MakerSides
  /\ order = [o \in OrderNames |-> NoOrder]
  /\ record = [o \in OrderNames |-> NoRecord]
  /\ call = [c \in Callers |-> Idle]
  /\ settlement = NoSettlement /\ sealed = NoSettlement
  /\ staged = {} /\ outcomes = {} /\ completed = FALSE
  /\ authorized = TRUE /\ full = {}
  /\ faults = 0

\* A call goes on.
Continue(c) ==
  \/ Accepted(c) \/ Refused(c) \/ Reads(c) \/ Cancels(c) \/ CancelRefused(c)
  \/ Hedge(c) \/ Settle(c) \/ Conclude(c) \/ Complete(c)

\* Something outside fails or comes late.
Disturb(c) ==
  \/ ReplyLost(c) \/ ReplyUnstored(c) \/ ReadsLate(c) \/ EvidenceFails(c)
  \/ CancelUnanswered(c) \/ HedgeBlocked(c)

Next ==
  \/ \E c \in Callers : Resume(c) \/ Continue(c) \/ Disturb(c)
  \/ Lapse \/ Crash
  \/ \E store \in Stores : FillsUp(store)
  \/ \E o \in OrderNames : Fill(o) \/ Expire(o)

Spec == Init /\ [][Next]_vars

\* The host calls runOnce, which resumes a pending dispatch, again and again; a call
\* that is answered goes on; in the end the gateway and the exchanges do answer.
Fairness ==
  /\ WF_vars(\E c \in Callers : Resume(c))
  /\ \A c \in Callers : WF_vars(Continue(c))
  /\ <>[][\A c \in Callers : ~Disturb(c)]_vars

LiveSpec == Spec /\ Fairness

-----------------------------------------------------------------------------
(* Properties *)

TypeOK ==
  /\ feeAsset \in [OrderNames -> FeeAssets] /\ makerSide \in MakerSides
  /\ order \in [OrderNames -> Orders]
  /\ record \in [OrderNames -> Records]
  /\ call \in [Callers -> Calls]
  /\ {settlement, sealed} \subseteq [maker : Int, hedge : Int, known : BOOLEAN]
  /\ staged \subseteq Intents
  /\ outcomes \subseteq {"REJECTED", "COMPLETED", "RECOVERY_REQUIRED"}
  /\ {completed, authorized} \subseteq BOOLEAN /\ full \subseteq Stores
  /\ faults \in 0..MaxFaults

\* What the exchanges really hold.
TrueEffect(o) == Effect(o, order[o].filled)
TrueNet == TrueEffect("maker") + TrueEffect("hedge")

\* The adapter reported FAILED for an order the exchange holds.
Misreported == \E o \in OrderNames : record[o].state = "denied" /\ order[o].placed > 0

\* A maker fill is hedged by one order, for exactly what the maker's fills and fees
\* left in the inventory, and only once the maker order can fill no further,
\* whatever calls overlap, crash or are resumed (handler lines 78-108).
HedgeIsExact == order["hedge"].placed > 0 =>
  /\ order["hedge"].placed = 1
  /\ Closed("maker")
  /\ order["hedge"].quantity = Abs(TrueEffect("maker"))

\* The sealed settlement, which no later call can change even if it knows better
\* (the port returns what exists), is what the exchanges finally executed.
SettlementIsTrue == settlement.known /\ ~Misreported =>
  /\ \A o \in OrderNames : order[o].status # "OPEN"
  /\ settlement.maker = TrueEffect("maker") /\ settlement.hedge = TrueEffect("hedge")

\* Every call that returns an outcome for the dispatch returns the same one: before
\* and after a crash, beside another call, with or without authority.
OutcomesAgree == Cardinality(outcomes) <= 1

\* REJECTED leaves no position and no hedge, COMPLETED no material net exposure, and
\* RECOVERY_REQUIRED is only reported for one (handler lines 89-98 and 133-145).
OutcomesAreTrue == ~Misreported =>
  /\ "REJECTED" \in outcomes =>
       Abs(TrueEffect("maker")) <= Tolerance /\ order["hedge"].placed = 0
  /\ "COMPLETED" \in outcomes => Abs(TrueNet) <= MaximumExposure + Tolerance
  /\ "RECOVERY_REQUIRED" \in outcomes => Abs(TrueNet) > MaximumExposure + Tolerance

\* Whatever any call stages for shared recovery, under whichever reason, is the
\* residual the two orders finally left: an intent from older fills would have
\* recovery trade away a position that does not exist (handler lines 123-138).  It
\* may be staged twice: the reason is part of the key.
RecoveryIsTheResidual == ~Misreported => \A intent \in staged : intent.net = TrueNet

\* The dispatch cannot end by itself: a record without an order id is never sent
\* or asked again, and a fee in a third asset, or beyond the admission, is refused
\* by every call.
Unusable(o) ==
  \/ record[o].state = "unsure" /\ \A c \in Callers : ~(call[c].at = "submitting" /\ call[c].on = o)
  \/ order[o].filled > 0 /\ ~Valid(o, View(o), NoFill)

\* Nor does it where what both records finally leave cannot be staged, or a store
\* that is still needed is full.
RecordedNet == Effect("maker", record["maker"].result.filled) + Effect("hedge", record["hedge"].result.filled)
Unstageable ==
  /\ \A o \in OrderNames : record[o].state \in {"denied", "known"} /\ Terminal(record[o].result)
  /\ Abs(RecordedNet) > MaximumExposure + Tolerance
  /\ Abs(RecordedNet) > MaximumRecovery \/ "recovery" \in full
Blocked ==
  \/ /\ "gateway" \in full /\ record["hedge"].state = "none"
     /\ record["maker"].state = "known" /\ Terminal(record["maker"].result)
     /\ Abs(Effect("maker", record["maker"].result.filled)) > Tolerance
  \/ "evidence" \in full /\ ~settlement.known

\* An order at an exchange is followed to a journaled outcome, even if the authority
\* ends or calls fail on the way: its remainder cancelled, its fills hedged and
\* settled.
OrdersAreSettled ==
  order["maker"].placed > 0 ~>
    completed \/ Unstageable \/ Blocked \/ \E o \in OrderNames : Unusable(o)
=============================================================================
