--------------------- MODULE PassiveMakerThenHedgeProofs --------------------
(***************************************************************************)
(* The maker-then-hedge lifecycle, for every number of callers, quantity,  *)
(* fee, tolerance and bound, and under every fault.                        *)
(*                                                                         *)
(* The inductive invariant says what a call may rest on while others       *)
(* overlap with it: an order that is finished (denied, or known and closed *)
(* at its exchange) has an effect that no step changes any more, so that   *)
(* the hedge, the settlement and the outcome that were derived from it by  *)
(* one call are those any other call derives.                              *)
(***************************************************************************)
EXTENDS PassiveMakerThenHedge, FiniteSetTheorems, TLAPS

USE DEF world

\* An order nobody has to ask about again, and the fills that count for it.
Finished(o) == record[o].state = "denied" \/ (record[o].state = "known" /\ Closed(o))
FinalFill(o) == IF record[o].state = "denied" THEN 0 ELSE order[o].filled
FinalEffect(o) == Effect(o, FinalFill(o))

\* A call that holds the submission of its order.
Sending(c) == At(c, "submitting") \/ At(c, "placed")

\* A record never says more than its exchange holds, and no order is placed twice.
RecordFollows(o) ==
  /\ order[o].placed \in {0, 1}
  /\ record[o].state = "none" => order[o].placed = 0
  /\ order[o].placed = 0 => order[o].status = "NONE" /\ order[o].filled = 0
  /\ order[o].placed = 1 => order[o].status # "NONE" /\ order[o].quantity = record[o].quantity
  /\ record[o].state = "known" => order[o].placed = 1
  /\ record[o].state = "known" /\ Terminal(record[o].result) => record[o].result = View(o) /\ Closed(o)

RecordsFollow == \A o \in OrderNames : RecordFollows(o)

\* What a call may rest on at each of its places.
CallFollows(c) == LET o == call[c].on IN
  /\ At(c, "submitting") => record[o].state = "unsure" /\ order[o].placed = 0
  /\ At(c, "placed") => record[o].state = "unsure" /\ order[o].placed = 1
  /\ At(c, "reading") \/ At(c, "cancelling") => record[o].state = "known"
  /\ At(c, "idle") \/ At(c, "hedging") => o = "maker"
  /\ At(c, "settling") \/ At(c, "concluding") =>
       /\ Finished(o) /\ call[c].seen[o].filled = FinalFill(o)
       /\ o = "maker" => Abs(FinalEffect("maker")) <= Tolerance
  /\ At(c, "hedging") \/ o = "hedge" =>
       /\ record["maker"].state = "known" /\ Closed("maker")
       /\ call[c].seen["maker"].filled = order["maker"].filled
       /\ Abs(FinalEffect("maker")) > Tolerance
  /\ o = "maker" => call[c].seen["hedge"] = NoFill
  /\ At(c, "concluding") => settlement.known

CallsFollow == \A c \in Callers : CallFollows(c)

\* No order is submitted by two calls.
OneSender == \A c, d \in Callers :
  Sending(c) /\ Sending(d) /\ call[c].on = call[d].on => c = d

\* A hedge was asked for only after the maker's last fill, for exactly its effect.
HedgeFollows == record["hedge"].state # "none" =>
  /\ record["maker"].state = "known" /\ Closed("maker")
  /\ record["hedge"].quantity = Abs(FinalEffect("maker"))
  /\ Abs(FinalEffect("maker")) > Tolerance

\* What is settled is final.
SettlementFollows == settlement.known =>
  /\ Finished("maker")
  /\ settlement.maker = FinalEffect("maker") /\ settlement.hedge = FinalEffect("hedge")
  /\ Abs(FinalEffect("maker")) > Tolerance => Finished("hedge")

\* A restart reads the settlement in memory or none.
SealedFollows ==
  /\ sealed = settlement \/ sealed = NoSettlement
  /\ settlement = NoSettlement \/ settlement.known

Residual == FinalEffect("maker") + FinalEffect("hedge")

\* An outcome, and a residual staged for recovery, rest on finished orders; a plan is
\* rejected unasked only if it can never be sent.
OutcomesFollow ==
  /\ "REJECTED" \in outcomes =>
       \/ record["maker"].state = "none" /\ ~authorized
       \/ Finished("maker") /\ Abs(FinalEffect("maker")) <= Tolerance
  /\ "COMPLETED" \in outcomes \/ "RECOVERY_REQUIRED" \in outcomes \/ staged # {} =>
       Finished("maker") /\ Finished("hedge") /\ Abs(FinalEffect("maker")) > Tolerance
  /\ "COMPLETED" \in outcomes => Abs(Residual) <= MaximumExposure + Tolerance
  /\ "RECOVERY_REQUIRED" \in outcomes => Abs(Residual) > MaximumExposure + Tolerance
  /\ \A intent \in staged : intent.net = Residual

Inv == /\ TypeOK /\ RecordsFollow /\ CallsFollow /\ OneSender /\ HedgeFollows
       /\ SettlementFollows /\ SealedFollows /\ OutcomesFollow

\* No fill, no effect.
LEMMA ZeroEffect == \A s, o, a : EffectOf(s, o, a, 0) = 0
<1>1. 0 \div FeeDivisor = 0
  BY HedgeBoundsAssumption
<1> QED BY <1>1 DEF EffectOf, BaseFee

\* Effects are whole lots.
LEMMA EffectsAreWhole == \A s, o, a : \A n \in Nat : EffectOf(s, o, a, n) \in Int
<1>1. \A n \in Nat : n \div FeeDivisor \in Int
  BY HedgeBoundsAssumption
<1> QED BY <1>1 DEF EffectOf, BaseFee

\* Distances are naturals.
LEMMA Absolute == Abs(0) = 0 /\ \A n \in Int : Abs(n) \in Nat
BY DEF Abs

\* Nothing that is settled about an order changes.
SteadyAt(o) ==
  /\ record[o].state = "known" => record'[o].state = "known"
  /\ record[o].state = "denied" => record'[o].state = "denied"
  /\ Closed(o) => order'[o] = order[o]
  /\ record[o].state # "none" /\ record'[o].state # "none" => record'[o].quantity = record[o].quantity
Steady == \A o \in OrderNames : SteadyAt(o)

\* A finished order stays finished, its effect the same.
LEMMA FinishedStays ==
  ASSUME Steady, UNCHANGED market, NEW o \in OrderNames, Finished(o)
  PROVE  Finished(o)' /\ FinalFill(o)' = FinalFill(o) /\ FinalEffect(o)' = FinalEffect(o)
<1>1. Finished(o)' /\ FinalFill(o)' = FinalFill(o)
  BY DEF Steady, SteadyAt, Finished, FinalFill, Closed
<1> QED BY <1>1 DEF FinalEffect, Effect, market

\* What is known and closed is finished with the fills of its exchange.
LEMMA KnownIsFinal ==
  ASSUME NEW o \in OrderNames, record[o].state = "known"
  PROVE  FinalFill(o) = order[o].filled /\ (Closed(o) => Finished(o))
BY DEF FinalFill, Finished

\* Calls that do not move keep what they know.
LEMMA CallKept ==
  ASSUME Steady, UNCHANGED market, TypeOK, NEW d \in Callers, CallFollows(d), call'[d] = call[d],
         Sending(d) => /\ record'[call[d].on] = record[call[d].on]
                       /\ order'[call[d].on].placed = order[call[d].on].placed,
         settlement.known => settlement'.known
  PROVE  CallFollows(d)'
<1>o. PICK o \in OrderNames : call[d].on = o
  BY DEF TypeOK, Calls
<1>m. "maker" \in OrderNames
  BY DEF OrderNames
<1>1. At(d, "settling") \/ At(d, "concluding") =>
        /\ Finished(o)' /\ call[d].seen[o].filled = FinalFill(o)'
        /\ o = "maker" => (Abs(FinalEffect("maker")) <= Tolerance)'
  <2>1. At(d, "settling") \/ At(d, "concluding") =>
          /\ Finished(o) /\ call[d].seen[o].filled = FinalFill(o)
          /\ o = "maker" => Abs(FinalEffect("maker")) <= Tolerance
    BY <1>o DEF CallFollows
  <2> QED BY <2>1, <1>m, FinishedStays
<1>2. At(d, "hedging") \/ o = "hedge" =>
        /\ record'["maker"].state = "known" /\ Closed("maker")'
        /\ call[d].seen["maker"].filled = order'["maker"].filled
        /\ (Abs(FinalEffect("maker")) > Tolerance)'
  BY <1>o, <1>m, FinishedStays, KnownIsFinal DEF CallFollows, Steady, SteadyAt, Closed
<1>3. /\ At(d, "submitting") => record'[o].state = "unsure" /\ order'[o].placed = 0
      /\ At(d, "placed") => record'[o].state = "unsure" /\ order'[o].placed = 1
      /\ At(d, "reading") \/ At(d, "cancelling") => record'[o].state = "known"
  BY <1>o DEF CallFollows, Sending, Steady, SteadyAt
<1>4. /\ At(d, "idle") \/ At(d, "hedging") => o = "maker"
      /\ o = "maker" => call[d].seen["hedge"] = NoFill
      /\ At(d, "concluding") => settlement'.known
  BY <1>o DEF CallFollows
<1>5. call'[d].on = o /\ call'[d].seen = call[d].seen /\ call'[d].at = call[d].at
  BY <1>o
<1> QED BY <1>1, <1>2, <1>3, <1>4, <1>5 DEF CallFollows, At, Finished, FinalFill, Closed

\* A call that receives evidence goes where the evidence allows.
LEMMA Receiving ==
  ASSUME TypeOK, NEW c \in Callers, NEW o \in OrderNames, NEW e \in Evidences,
         Receives(c, o, e), UNCHANGED market,
         Terminal(e) => Finished(o)' /\ e.filled = FinalFill(o)',
         ~Terminal(e) => record'[o].state = "known",
         o = "maker" => call[c].seen["hedge"] = NoFill,
         o = "hedge" => /\ record'["maker"].state = "known" /\ Closed("maker")'
                        /\ call[c].seen["maker"].filled = order'["maker"].filled
                        /\ (Abs(FinalEffect("maker")) > Tolerance)'
  PROVE  call' \in [Callers -> Calls] /\ CallFollows(c)' /\ ~Sending(c)'
         /\ \A d \in Callers \ {c} : call'[d] = call[d]
<1> USE DEF OrderNames
<1> DEFINE k == [call[c] EXCEPT !.on = o, !.seen[o] = e, !.excess = @ \/ Excess(call[c], o, e)]
<1>t. call \in [Callers -> Calls] /\ call[c] \in Calls /\ k \in Calls
  <2>1. call \in [Callers -> Calls] /\ call[c] \in Calls
    BY DEF TypeOK
  <2>2. Excess(call[c], o, e) \in BOOLEAN
    BY DEF Excess
  <2> DEFINE late == call[c].excess \/ Excess(call[c], o, e)
             heard == [call[c].seen EXCEPT ![o] = e]
  <2>3. late \in BOOLEAN /\ heard \in [OrderNames -> Evidences]
    BY <2>1, <2>2 DEF Calls
  <2>4. k = [call[c] EXCEPT !.on = o, !.seen = heard, !.excess = late]
    BY <2>1 DEF Calls
  <2> HIDE DEF late, heard, k
  <2>5. k \in Calls
    BY <2>1, <2>3, <2>4 DEF Calls
  <2> QED BY <2>1, <2>5
<1>i. Idle \in Calls
  BY HedgeBoundsAssumption DEF Idle, Calls, Places, NoFill, Evidences, Lots
<1>1. CASE ~Valid(o, e, call[c].seen[o])
  <2>1. call' = [call EXCEPT ![c] = Idle]
    BY <1>1 DEF Receives, Throws, Goes
  <2> QED BY <2>1, <1>t, <1>i DEF CallFollows, At, Sending, Idle
<1>2. CASE Valid(o, e, call[c].seen[o])
  <2> DEFINE s == Step(k, o, e)
  <2>1. call' = [call EXCEPT ![c] = s]
    BY <1>2 DEF Receives, Goes, Advance
  <2>k. /\ k.on = o /\ k.seen[o] = e /\ k.reads = call[c].reads /\ k.reads \in 0..MaximumReads
        /\ \A p \in OrderNames \ {o} : k.seen[p] = call[c].seen[p]
    BY <1>t DEF Calls
  <2> HIDE DEF k
  <2>2. s \in Calls /\ s.on = o /\ s.seen = k.seen
    <3> DEFINE again == ~Terminal(e) /\ k.reads < MaximumReads /\ (o = "hedge" \/ e.filled = 0)
    <3> HIDE DEF again
    <3>1. again => s = [k EXCEPT !.at = "reading", !.reads = @ + 1] /\ k.reads < MaximumReads
      BY DEF Step, again
    <3>2. ~again => \E p \in Places : s = [k EXCEPT !.reads = 0, !.at = p]
      BY DEF Step, again, Places
    <3>3. 0 \in 0..MaximumReads /\ (again => k.reads + 1 \in 0..MaximumReads)
      BY <3>1, <2>k, HedgeBoundsAssumption
    <3>4. CASE again
      <4> HIDE DEF s
      <4> QED BY <3>1, <3>3, <3>4, <1>t, <2>k DEF Calls, Places
    <3>5. CASE ~again
      <4>1. PICK p \in Places : s = [k EXCEPT !.reads = 0, !.at = p]
        BY <3>2, <3>5
      <4> HIDE DEF s
      <4> QED BY <4>1, <3>3, <1>t, <2>k DEF Calls
    <3> QED BY <3>4, <3>5
  <2>3. CASE ~Terminal(e)
    <3>1. s.at \in {"reading", "cancelling"}
      BY <2>3, <1>t DEF Step, Calls
    <3> QED BY <3>1, <2>1, <2>2, <2>3, <2>k, <1>t DEF CallFollows, At, Sending
  <2>4. CASE Terminal(e)
    <3> DEFINE far == Abs(Effect(o, e.filled)) > Tolerance
    <3>1. s.at = IF o = "maker" /\ far THEN "hedging" ELSE "settling"
      BY <2>4, <1>t DEF Step, Calls
    <3>2. Effect(o, e.filled) = FinalEffect(o)'
      BY <2>4 DEF FinalEffect, Effect, market
    <3>3. o = "maker" /\ far => record'["maker"].state = "known" /\ Closed("maker")' /\ e.filled = order'["maker"].filled
      <4>1. Effect(o, 0) = 0
        BY ZeroEffect DEF Effect
      <4>2. e.filled # 0 \/ ~far
        BY <4>1, Absolute, HedgeBoundsAssumption
      <4> QED BY <4>2, <2>4 DEF Finished, FinalFill, Closed
    <3>4. s.at \in {"hedging", "settling"} /\ (s.at = "hedging" => o = "maker" /\ far)
      BY <3>1
    <3>5. o = "maker" /\ s.at = "settling" => (Abs(FinalEffect("maker")) <= Tolerance)'
      <4>1. FinalEffect(o)' \in Int
        BY <3>2, EffectsAreWhole DEF Effect, Evidences, Lots
      <4>2. ~far => Abs(Effect(o, e.filled)) <= Tolerance
        BY <3>2, <4>1, Absolute, HedgeBoundsAssumption
      <4> QED BY <4>2, <3>1, <3>2
    <3>6. o = "maker" /\ far => (Abs(FinalEffect("maker")) > Tolerance)'
      BY <3>2
    <3> HIDE DEF far, s
    <3>7. call'[c] = s
      BY <2>1, <1>t
    <3>8. CallFollows(c)'
      BY <3>3, <3>4, <3>5, <3>6, <3>7, <2>2, <2>4, <2>k, <1>t DEF CallFollows, At
    <3> QED BY <3>4, <3>7, <3>8, <2>1, <2>2, <1>t DEF At, Sending
  <2> QED BY <2>3, <2>4
<1> QED BY <1>1, <1>2

\* What a hedge, a settlement and an outcome rest on does not change any more.
LEMMA HedgeKept ==
  ASSUME HedgeFollows, Steady, UNCHANGED market,
         record["hedge"].state = "none" /\ record'["hedge"].state # "none" =>
           /\ record["maker"].state = "known" /\ Closed("maker")
           /\ record'["hedge"].quantity = Abs(FinalEffect("maker"))
           /\ Abs(FinalEffect("maker")) > Tolerance
  PROVE  HedgeFollows'
<1> USE DEF OrderNames
<1>1. CASE record'["hedge"].state # "none"
  <2>1. /\ record["maker"].state = "known" /\ Closed("maker")
        /\ record'["hedge"].quantity = Abs(FinalEffect("maker"))
        /\ Abs(FinalEffect("maker")) > Tolerance
    BY <1>1 DEF HedgeFollows, Steady, SteadyAt
  <2>2. FinalEffect("maker")' = FinalEffect("maker")
    BY <2>1, FinishedStays, KnownIsFinal
  <2>3. record'["maker"].state = "known" /\ Closed("maker")'
    BY <2>1 DEF Steady, SteadyAt, Closed
  <2> QED BY <2>1, <2>2, <2>3 DEF HedgeFollows
<1> QED BY <1>1 DEF HedgeFollows

\* A maker without material effect has no hedge.
LEMMA NoHedge ==
  ASSUME HedgeFollows, RecordsFollow, Abs(FinalEffect("maker")) <= Tolerance, TypeOK
  PROVE  record["hedge"].state = "none" /\ FinalFill("hedge") = 0 /\ order["hedge"].placed = 0
<1>1. FinalEffect("maker") \in Int
  BY EffectsAreWhole DEF TypeOK, Orders, OrderNames, FinalEffect, FinalFill, Effect, Lots
<1>2. ~(Abs(FinalEffect("maker")) > Tolerance)
  BY <1>1, Absolute, HedgeBoundsAssumption
<1>3. record["hedge"].state = "none"
  BY <1>2 DEF HedgeFollows
<1> QED BY <1>3 DEF RecordsFollow, RecordFollows, FinalFill, OrderNames

\* A settlement stays true while nothing settled changes.
LEMMA SettlementKept ==
  ASSUME TypeOK, TypeOK', HedgeFollows, HedgeFollows', RecordsFollow, RecordsFollow', SettlementFollows,
         Steady, UNCHANGED market, settlement' \in {settlement, NoSettlement}
  PROVE  SettlementFollows'
<1> USE DEF OrderNames
<1>1. CASE settlement'.known
  <2>1. settlement' = settlement /\ settlement.known
    BY <1>1 DEF NoSettlement
  <2>2. /\ Finished("maker")
        /\ settlement.maker = FinalEffect("maker") /\ settlement.hedge = FinalEffect("hedge")
        /\ Abs(FinalEffect("maker")) > Tolerance => Finished("hedge")
    BY <2>1 DEF SettlementFollows
  <2>3. Finished("maker")' /\ FinalEffect("maker")' = FinalEffect("maker")
    BY <2>2, FinishedStays
  <2>4. CASE Abs(FinalEffect("maker")) > Tolerance
    <3>1. Finished("hedge")' /\ FinalEffect("hedge")' = FinalEffect("hedge")
      BY <2>2, <2>4, FinishedStays
    <3> QED BY <3>1, <2>1, <2>2, <2>3 DEF SettlementFollows
  <2>5. CASE ~(Abs(FinalEffect("maker")) > Tolerance)
    <3>1. FinalEffect("maker") \in Int
      BY EffectsAreWhole DEF TypeOK, Orders, FinalEffect, FinalFill, Effect, Lots
    <3>2. Abs(FinalEffect("maker")) <= Tolerance /\ (Abs(FinalEffect("maker")) <= Tolerance)'
      BY <2>5, <2>3, <3>1, Absolute, HedgeBoundsAssumption
    <3>3. FinalFill("hedge") = 0
      BY <3>2, NoHedge
    <3>4. FinalFill("hedge")' = 0
      <4>1. ~(Abs(FinalEffect("maker")) > Tolerance)'
        BY <2>5, <2>3
      <4> QED BY <4>1 DEF HedgeFollows, RecordsFollow, RecordFollows, FinalFill
    <3>5. FinalEffect("hedge")' = FinalEffect("hedge")
      BY <3>3, <3>4 DEF FinalEffect, Effect, market
    <3> QED BY <3>5, <2>1, <2>2, <2>3, <2>5 DEF SettlementFollows
  <2> QED BY <2>4, <2>5
<1> QED BY <1>1 DEF SettlementFollows

\* So do the outcomes and the residual.
LEMMA OutcomesKept ==
  ASSUME OutcomesFollow, Steady, UNCHANGED market, outcomes' = outcomes, staged' \in {staged, {}},
         record["maker"].state = "none" /\ ~authorized => record'["maker"].state = "none" /\ ~authorized'
  PROVE  OutcomesFollow'
<1> USE DEF OrderNames
<1> DEFINE traded == "COMPLETED" \in outcomes \/ "RECOVERY_REQUIRED" \in outcomes \/ staged # {}
<1>1. "REJECTED" \in outcomes =>
       \/ record'["maker"].state = "none" /\ ~authorized'
       \/ Finished("maker")' /\ (Abs(FinalEffect("maker")) <= Tolerance)'
  BY FinishedStays DEF OutcomesFollow
<1>2. traded => /\ Finished("maker")' /\ Finished("hedge")'
                /\ FinalEffect("maker")' = FinalEffect("maker")
                /\ FinalEffect("hedge")' = FinalEffect("hedge")
                /\ Abs(FinalEffect("maker")) > Tolerance
  BY FinishedStays DEF OutcomesFollow
<1> QED BY <1>1, <1>2 DEF OutcomesFollow, Residual

\* A call begins to send an order only if nobody has a record of it.
LEMMA OneSenderKept ==
  ASSUME TypeOK, OneSender, CallsFollow, NEW c \in Callers, \A d \in Callers \ {c} : call'[d] = call[d],
         Sending(c)' => \/ Sending(c) /\ call'[c].on = call[c].on
                        \/ record[call'[c].on].state = "none"
  PROVE  OneSender'
<1> SUFFICES ASSUME NEW a \in Callers, NEW b \in Callers, a # b,
                    Sending(a)', Sending(b)', call'[a].on = call'[b].on
             PROVE  FALSE
  BY DEF OneSender
<1>1. \A d \in Callers : Sending(d) => record[call[d].on].state = "unsure"
  BY DEF CallsFollow, CallFollows, Sending
<1>2. \A d \in Callers \ {c} : (call'[d].at \in {"submitting", "placed"}) => Sending(d)
  BY DEF Sending, At
<1>3. call'[a].at \in {"submitting", "placed"} /\ call'[b].at \in {"submitting", "placed"}
  BY DEF Sending, At
<1>4. CASE a # c /\ b # c
  BY <1>2, <1>3, <1>4 DEF OneSender
<1>5. CASE a = c
  BY <1>1, <1>2, <1>3, <1>5 DEF OneSender
<1>6. CASE b = c
  BY <1>1, <1>2, <1>3, <1>6 DEF OneSender
<1> QED BY <1>4, <1>5, <1>6

\* The step of one call at one order.
LEMMA CallMoves ==
  ASSUME Inv, NEW c \in Callers, NEW o \in OrderNames,
         UNCHANGED <<market, results, world>>, faults' \in 0..MaxFaults,
         record' \in [OrderNames -> Records], order' \in [OrderNames -> Orders],
         call' \in [Callers -> Calls],
         \A p \in OrderNames \ {o} : record'[p] = record[p] /\ order'[p] = order[p],
         RecordFollows(o)', SteadyAt(o),
         \/ record[o].state # "unsure" \/ (Sending(c) /\ call[c].on = o)
         \/ record'[o] = record[o] /\ order'[o].placed = order[o].placed,
         \A d \in Callers \ {c} : call'[d] = call[d],
         CallFollows(c)',
         Sending(c)' => (Sending(c) /\ call'[c].on = call[c].on)
                          \/ record[call'[c].on].state = "none",
         o = "hedge" /\ record["hedge"].state = "none" /\ record'["hedge"].state # "none" =>
           /\ record["maker"].state = "known" /\ Closed("maker")
           /\ record'["hedge"].quantity = Abs(FinalEffect("maker"))
           /\ Abs(FinalEffect("maker")) > Tolerance,
         o = "maker" /\ record["maker"].state = "none" /\ ~authorized =>
           record'["maker"].state = "none"
  PROVE  Inv'
<1> USE DEF Inv
<1>r. UNCHANGED market /\ UNCHANGED <<settlement, sealed, staged, outcomes, completed>>
  BY DEF results
<1>1. TypeOK'
  BY <1>r DEF TypeOK, market
<1>2. RecordsFollow'
  BY DEF RecordsFollow, RecordFollows, Closed, View
<1>3. Steady
  BY DEF Steady, SteadyAt, Closed
<1>4. CallsFollow'
  <2> SUFFICES ASSUME NEW d \in Callers, d # c PROVE CallFollows(d)'
    BY DEF CallsFollow
  <2>0. call[d].on \in OrderNames /\ CallFollows(d)
    BY DEF TypeOK, Calls, CallsFollow
  <2>1. Sending(d) => record[call[d].on].state = "unsure" /\ ~(Sending(c) /\ call[c].on = call[d].on)
    BY <2>0 DEF CallFollows, Sending, OneSender
  <2>2. Sending(d) => /\ record'[call[d].on] = record[call[d].on]
                      /\ order'[call[d].on].placed = order[call[d].on].placed
    BY <2>0, <2>1
  <2> QED BY <2>0, <2>2, <1>r, <1>3, CallKept
<1>5. OneSender'
  BY OneSenderKept
<1>6. HedgeFollows'
  BY <1>r, <1>3, HedgeKept DEF OrderNames
<1>7. SettlementFollows'
  BY <1>r, <1>1, <1>2, <1>3, <1>6, SettlementKept
<1>8. OutcomesFollow'
  BY <1>r, <1>3, OutcomesKept DEF OrderNames
<1>9. SealedFollows'
  BY <1>r DEF SealedFollows
<1> QED BY <1>1, <1>2, <1>4, <1>5, <1>6, <1>7, <1>8, <1>9

\* A call that throws rests on nothing.
LEMMA Throwing ==
  ASSUME TypeOK, NEW c \in Callers, Throws(c)
  PROVE  call' \in [Callers -> Calls] /\ CallFollows(c)' /\ ~Sending(c)'
         /\ (\A d \in Callers \ {c} : call'[d] = call[d])
<1>1. Idle \in Calls
  BY HedgeBoundsAssumption DEF Idle, Calls, Places, NoFill, Evidences, Lots, OrderNames
<1>2. call' = [call EXCEPT ![c] = Idle] /\ call \in [Callers -> Calls]
  BY DEF TypeOK, Throws, Goes
<1>3. call'[c] = Idle /\ call' \in [Callers -> Calls] /\ \A d \in Callers \ {c} : call'[d] = call[d]
  BY <1>1, <1>2
<1>4. call'[c].at = "idle" /\ call'[c].on = "maker" /\ call'[c].seen["hedge"] = NoFill
  BY <1>3 DEF Idle, OrderNames
<1> QED BY <1>3, <1>4 DEF CallFollows, At, Sending

\* Nor does a call that has its outcome.
LEMMA Returns ==
  ASSUME TypeOK, NEW c \in Callers, Goes(c, Returning)
  PROVE  call' \in [Callers -> Calls] /\ CallFollows(c)' /\ ~Sending(c)'
         /\ (\A d \in Callers \ {c} : call'[d] = call[d])
<1>0. Idle \in Calls
  BY HedgeBoundsAssumption DEF Idle, Calls, Places, NoFill, Evidences, Lots, OrderNames
<1>1. Returning \in Calls
  BY <1>0 DEF Returning, Calls, Places
<1>2. call' = [call EXCEPT ![c] = Returning] /\ call \in [Callers -> Calls]
  BY DEF TypeOK, Goes
<1>3. call'[c] = Returning /\ call' \in [Callers -> Calls] /\ \A d \in Callers \ {c} : call'[d] = call[d]
  BY <1>1, <1>2
<1>4. call'[c].at = "returning" /\ call'[c].on = "maker" /\ call'[c].seen["hedge"] = NoFill
  BY <1>3 DEF Returning, Idle, OrderNames
<1> QED BY <1>3, <1>4 DEF CallFollows, At, Sending

\* A denied order is terminal evidence without fills.
LEMMA NoFillIsEvidence == NoFill \in Evidences /\ Terminal(NoFill) /\ NoFill.filled = 0
BY HedgeBoundsAssumption DEF NoFill, Evidences, Lots, Terminal

\* What a call that got to the hedge knows of the maker stays so.
LEMMA MakerKept ==
  ASSUME Inv, NEW c \in Callers, At(c, "hedging") \/ call[c].on = "hedge", UNCHANGED market,
         record'["maker"] = record["maker"], order'["maker"] = order["maker"]
  PROVE  /\ record'["maker"].state = "known" /\ Closed("maker")'
         /\ call[c].seen["maker"].filled = order'["maker"].filled
         /\ FinalEffect("maker")' = FinalEffect("maker")
         /\ (Abs(FinalEffect("maker")) > Tolerance)'
<1>1. /\ record["maker"].state = "known" /\ Closed("maker")
      /\ call[c].seen["maker"].filled = order["maker"].filled
      /\ Abs(FinalEffect("maker")) > Tolerance
  BY DEF Inv, CallsFollow, CallFollows
<1> QED BY <1>1 DEF Closed, FinalEffect, FinalFill, Effect, market

\* A call that ends changes nothing else.
LEMMA Ending ==
  ASSUME Inv, NEW c \in Callers, Throws(c), faults' \in 0..MaxFaults,
         UNCHANGED <<market, order, record, results, world>>
  PROVE  Inv'
<1>0. TypeOK
  BY DEF Inv
<1>1. PICK o \in OrderNames : call[c].on = o
  BY <1>0 DEF TypeOK, Calls
<1>2. RecordFollows(o)' /\ SteadyAt(o)
  BY <1>1 DEF Inv, RecordsFollow, RecordFollows, SteadyAt, Closed, View
<1>3. record' \in [OrderNames -> Records] /\ order' \in [OrderNames -> Orders]
  BY <1>0 DEF TypeOK
<1>4. call' \in [Callers -> Calls] /\ CallFollows(c)' /\ ~Sending(c)'
      /\ (\A d \in Callers \ {c} : call'[d] = call[d])
  BY <1>0, Throwing
<1> QED BY <1>1, <1>2, <1>3, <1>4, CallMoves

\* A call learns what the exchange holds of its order, or fails to.
LEMMA Learning ==
  ASSUME Inv, NEW c \in Callers, NEW o \in OrderNames, call[c].on = o,
         At(c, "placed") \/ At(c, "reading") \/ At(c, "cancelling"),
         UNCHANGED <<market, results, world>>, faults' \in 0..MaxFaults,
         order' \in [OrderNames -> Orders],
         \A p \in OrderNames \ {o} : order'[p] = order[p],
         order'[o].placed = order[o].placed, order'[o].quantity = order[o].quantity,
         order'[o].status # "NONE", Closed(o) => order'[o] = order[o],
         NEW e \in Evidences, Terminal(e) => e = View(o)' /\ Closed(o)',
         \/ Write(o, Known(o, e)) /\ (Receives(c, o, e) \/ Throws(c))
         \/ ~At(c, "placed") /\ record' = record /\ Throws(c)
  PROVE  Inv'
<1>0. TypeOK /\ CallFollows(c) /\ RecordFollows(o)
  BY DEF Inv, CallsFollow, RecordsFollow
<1>1. record[o].state = "known" \/ (record[o].state = "unsure" /\ Sending(c))
  BY <1>0 DEF CallFollows, Sending
<1>2. order[o].placed = 1
  BY <1>0, <1>1 DEF CallFollows, RecordFollows, Sending
<1>3. /\ record' \in [OrderNames -> Records]
      /\ record'[o].state = "known" /\ record'[o].quantity = record[o].quantity
      /\ \A p \in OrderNames \ {o} : record'[p] = record[p]
      /\ record'[o].result = e \/ record' = record
  <2>1. CASE ~At(c, "placed") /\ record' = record
    <3>1. record[o].state = "known"
      BY <2>1, <1>0 DEF CallFollows
    <3> QED BY <1>0, <2>1, <3>1 DEF TypeOK
  <2>2. CASE Write(o, Known(o, e))
    <3>r. record \in [OrderNames -> Records] /\ record[o] \in Records
      BY <1>0 DEF TypeOK
    <3>1. /\ Known(o, e) \in Records /\ Known(o, e).state = "known"
          /\ Known(o, e).quantity = record[o].quantity /\ Known(o, e).result = e
      BY <3>r DEF Known, Records
    <3> QED BY <3>r, <2>2, <3>1 DEF Write
  <2> QED BY <2>1, <2>2
<1>5. RecordFollows(o)'
  <2>1. record' = record => (record[o].state = "known" /\ Terminal(record[o].result) => record'[o].result = View(o)' /\ Closed(o)')
    BY <1>0 DEF RecordFollows, View, Closed
  <2> QED BY <1>0, <1>2, <1>3, <2>1 DEF RecordFollows, Terminal
<1>6. SteadyAt(o)
  BY <1>1, <1>3 DEF SteadyAt
<1>7. CASE Receives(c, o, e)
  <2>1. Terminal(e) => Finished(o)' /\ e.filled = FinalFill(o)'
    BY <1>3 DEF Finished, FinalFill, View
  <2>2. o = "maker" => call[c].seen["hedge"] = NoFill
    BY <1>0 DEF CallFollows
  <2>3. o = "hedge" => /\ record'["maker"].state = "known" /\ Closed("maker")'
                       /\ call[c].seen["maker"].filled = order'["maker"].filled
                       /\ (Abs(FinalEffect("maker")) > Tolerance)'
    BY <1>3, MakerKept DEF OrderNames
  <2>4. call' \in [Callers -> Calls] /\ CallFollows(c)' /\ ~Sending(c)'
         /\ \A d \in Callers \ {c} : call'[d] = call[d]
    BY <1>0, <1>3, <1>7, <2>1, <2>2, <2>3, Receiving
  <2> QED BY <1>1, <1>2, <1>3, <1>5, <1>6, <2>4, CallMoves
<1>8. CASE Throws(c)
  <2>1. call' \in [Callers -> Calls] /\ CallFollows(c)' /\ ~Sending(c)'
         /\ \A d \in Callers \ {c} : call'[d] = call[d]
    BY <1>0, <1>8, Throwing
  <2> QED BY <1>1, <1>2, <1>3, <1>5, <1>6, <2>1, CallMoves
<1> QED BY <1>7, <1>8

\* A call learns that its order was refused.
LEMMA Denying ==
  ASSUME Inv, NEW c \in Callers, NEW o \in OrderNames, call[c].on = o, Sending(c),
         UNCHANGED <<market, order, results, world>>, faults' \in 0..MaxFaults,
         Write(o, Denied(o)), Receives(c, o, NoFill)
  PROVE  Inv'
<1>0. TypeOK /\ CallFollows(c) /\ RecordFollows(o)
  BY DEF Inv, CallsFollow, RecordsFollow
<1>1. record[o].state = "unsure"
  BY <1>0 DEF CallFollows, Sending
<1>2. /\ record' \in [OrderNames -> Records]
      /\ record'[o].state = "denied" /\ record'[o].quantity = record[o].quantity
      /\ \A p \in OrderNames \ {o} : record'[p] = record[p]
  <2>r. record \in [OrderNames -> Records] /\ record[o] \in Records
    BY <1>0 DEF TypeOK
  <2>1. /\ Denied(o) \in Records /\ Denied(o).state = "denied"
        /\ Denied(o).quantity = record[o].quantity
    BY <2>r DEF Denied, Records
  <2> QED BY <2>r, <2>1 DEF Write
<1>3. RecordFollows(o)' /\ SteadyAt(o)
  BY <1>0, <1>1, <1>2 DEF RecordFollows, SteadyAt
<1>4. Finished(o)' /\ FinalFill(o)' = 0
  BY <1>2 DEF Finished, FinalFill
<1>5. o = "maker" => call[c].seen["hedge"] = NoFill
  BY <1>0 DEF CallFollows
<1>6. o = "hedge" => /\ record'["maker"].state = "known" /\ Closed("maker")'
                     /\ call[c].seen["maker"].filled = order'["maker"].filled
                     /\ (Abs(FinalEffect("maker")) > Tolerance)'
  BY <1>2, MakerKept DEF OrderNames
<1>7. call' \in [Callers -> Calls] /\ CallFollows(c)' /\ ~Sending(c)'
      /\ \A d \in Callers \ {c} : call'[d] = call[d]
  BY <1>0, <1>4, <1>5, <1>6, NoFillIsEvidence, Receiving
<1>8. order' \in [OrderNames -> Orders]
  BY <1>0 DEF TypeOK
<1> QED BY <1>1, <1>2, <1>3, <1>7, <1>8, CallMoves

\* What the exchange holds of an order that is known there is evidence.
LEMMA ViewIsEvidence ==
  ASSUME TypeOK, NEW o \in OrderNames, order[o].status # "NONE"
  PROVE  View(o) \in Evidences /\ Ended(o) \in Evidences /\ Terminal(Ended(o))
         /\ (Terminal(View(o)) => Closed(o)) /\ Earlier(o) \subseteq Evidences
<1>1. order[o] \in Orders
  BY DEF TypeOK
<1>2. View(o) \in Evidences /\ View(o).status = order[o].status /\ View(o).filled = order[o].filled
  BY <1>1 DEF View, Orders, Evidences
<1>3. Ended(o) \in Evidences /\ Terminal(Ended(o))
  BY <1>1, <1>2 DEF Ended, Evidences, Terminal, Orders
<1>4. Earlier(o) \subseteq Evidences
  <2>1. 0..order[o].filled \subseteq Lots
    BY <1>1, HedgeBoundsAssumption DEF Orders, Lots
  <2> QED BY <2>1 DEF Earlier, Evidences
<1> QED BY <1>1, <1>2, <1>3, <1>4 DEF Terminal, Closed, Orders

\* An order that is asked about is at its exchange.
LEMMA AskedIsPlaced ==
  ASSUME Inv, NEW c \in Callers, At(c, "placed") \/ At(c, "reading") \/ At(c, "cancelling")
  PROVE  call[c].on \in OrderNames /\ order[call[c].on].placed = 1 /\ order[call[c].on].status # "NONE"
<1>1. call[c].on \in OrderNames
  BY DEF Inv, TypeOK, Calls
<1> QED BY <1>1 DEF Inv, CallsFollow, CallFollows, RecordsFollow, RecordFollows

\* Reads preserves the invariant.
LEMMA ReadsStep == ASSUME Inv, NEW c \in Callers, Reads(c) PROVE Inv'
<1>o. PICK o \in OrderNames : call[c].on = o
  BY DEF Inv, TypeOK, Calls
<1>1. o \in OrderNames /\ order[o].status # "NONE" /\ TypeOK
  BY <1>o, AskedIsPlaced DEF Reads, Asking, Inv
<1>2. View(o) \in Evidences /\ (Terminal(View(o)) => Closed(o))
  BY <1>1, ViewIsEvidence
<1>3. /\ At(c, "placed") \/ At(c, "reading")
      /\ Write(o, Known(o, View(o))) /\ Receives(c, o, View(o))
      /\ UNCHANGED <<market, results, world>> /\ faults' = faults /\ order' = order
  BY <1>o DEF Reads, Asking
<1>4. View(o)' = View(o) /\ (Closed(o) => Closed(o)') /\ faults' \in 0..MaxFaults
      /\ order' \in [OrderNames -> Orders]
  BY <1>1, <1>3 DEF View, Closed, TypeOK
<1> QED BY <1>o, <1>1, <1>2, <1>3, <1>4, Learning

\* ReadsLate preserves it.
LEMMA ReadsLateStep == ASSUME Inv, NEW c \in Callers, ReadsLate(c) PROVE Inv'
<1>o. PICK o \in OrderNames : call[c].on = o
  BY DEF Inv, TypeOK, Calls
<1>1. At(c, "placed") \/ At(c, "reading")
  BY DEF ReadsLate, Asking
<1>2. o \in OrderNames /\ order[o].status # "NONE" /\ TypeOK
  BY <1>o, <1>1, AskedIsPlaced DEF Inv
<1>3. PICK e \in Earlier(o) :
        /\ Write(o, Known(o, e)) /\ (Receives(c, o, e) \/ Throws(c))
        /\ UNCHANGED <<market, results, world>> /\ faults' = faults /\ order' = order
  BY <1>o DEF ReadsLate
<1>4. e \in Evidences /\ ~Terminal(e)
  BY <1>2, ViewIsEvidence DEF Earlier, Terminal
<1>5. faults' \in 0..MaxFaults /\ order' \in [OrderNames -> Orders]
  BY <1>2, <1>3 DEF TypeOK
<1> QED BY <1>o, <1>1, <1>2, <1>3, <1>4, <1>5, Learning

\* EvidenceFails preserves it.
LEMMA EvidenceFailsStep == ASSUME Inv, NEW c \in Callers, EvidenceFails(c) PROVE Inv'
<1>o. PICK o \in OrderNames : call[c].on = o
  BY DEF Inv, TypeOK, Calls
<1>1. At(c, "placed") \/ At(c, "reading") \/ At(c, "cancelling")
  BY DEF EvidenceFails, Asking
<1>2. order[o].status # "NONE" /\ TypeOK
  BY <1>o, <1>1, AskedIsPlaced DEF Inv
<1>3. PICK e \in {View(o)} \cup Earlier(o) :
        /\ Throws(c)
        /\ Write(o, Known(o, e)) \/ (~At(c, "placed") /\ record' = record)
        /\ UNCHANGED <<market, results, world>> /\ faults' = faults /\ order' = order
  BY <1>o DEF EvidenceFails
<1>4. e \in Evidences /\ (Terminal(e) => e = View(o) /\ Closed(o))
  BY <1>2, ViewIsEvidence DEF Earlier, Terminal
<1>5. faults' \in 0..MaxFaults /\ order' \in [OrderNames -> Orders]
      /\ View(o)' = View(o) /\ (Closed(o) => Closed(o)')
  BY <1>2, <1>3 DEF TypeOK, View, Closed
<1> QED BY <1>o, <1>1, <1>2, <1>3, <1>4, <1>5, Learning

\* What is asked to cancel ends where it stands.
LEMMA CancelledOrder ==
  ASSUME TypeOK, NEW o \in OrderNames, order[o].status # "NONE",
         order' = [order EXCEPT ![o].status = Ended(o).status]
  PROVE  /\ order' \in [OrderNames -> Orders]
         /\ \A p \in OrderNames \ {o} : order'[p] = order[p]
         /\ order'[o].placed = order[o].placed /\ order'[o].quantity = order[o].quantity
         /\ order'[o].status # "NONE" /\ Closed(o)' /\ Ended(o) = View(o)'
         /\ Closed(o) => order'[o] = order[o]
<1>1. order \in [OrderNames -> Orders] /\ order[o] \in Orders
  BY DEF TypeOK
<1>2. Ended(o).status = (IF order[o].status = "OPEN" THEN "CANCELLED" ELSE order[o].status)
      /\ Ended(o).filled = order[o].filled /\ Ended(o) = [status |-> Ended(o).status, filled |-> order[o].filled]
  BY DEF Ended, View
<1>3. Ended(o).status \in {"FILLED", "CANCELLED"}
  BY <1>1, <1>2 DEF Orders
<1> DEFINE x == [order[o] EXCEPT !.status = Ended(o).status]
<1>4. /\ x \in Orders /\ x.status = Ended(o).status /\ x.filled = order[o].filled
      /\ x.placed = order[o].placed /\ x.quantity = order[o].quantity
      /\ (Closed(o) => x = order[o])
  BY <1>1, <1>2, <1>3 DEF Orders, Closed
<1>5. order' = [order EXCEPT ![o] = x]
  OBVIOUS
<1> HIDE DEF x
<1> QED BY <1>1, <1>2, <1>3, <1>4, <1>5 DEF View, Closed

\* Cancels preserves it.
LEMMA CancelsStep == ASSUME Inv, NEW c \in Callers, Cancels(c) PROVE Inv'
<1>o. PICK o \in OrderNames : call[c].on = o
  BY DEF Inv, TypeOK, Calls
<1>1. /\ At(c, "cancelling")
      /\ order' = [order EXCEPT ![o].status = Ended(o).status]
      /\ Write(o, Known(o, Ended(o))) /\ Receives(c, o, Ended(o))
      /\ UNCHANGED <<market, results, world>> /\ faults' = faults
  BY <1>o DEF Cancels
<1>2. order[o].status # "NONE" /\ TypeOK
  BY <1>o, <1>1, AskedIsPlaced DEF Inv
<1>3. Ended(o) \in Evidences /\ faults' \in 0..MaxFaults
  BY <1>1, <1>2, ViewIsEvidence DEF TypeOK
<1>4. /\ order' \in [OrderNames -> Orders]
      /\ \A p \in OrderNames \ {o} : order'[p] = order[p]
      /\ order'[o].placed = order[o].placed /\ order'[o].quantity = order[o].quantity
      /\ order'[o].status # "NONE" /\ Closed(o)' /\ Ended(o) = View(o)'
      /\ Closed(o) => order'[o] = order[o]
  BY <1>1, <1>2, CancelledOrder
<1> QED BY <1>o, <1>1, <1>2, <1>3, <1>4, Learning

\* CancelUnanswered preserves it.
LEMMA CancelUnansweredStep == ASSUME Inv, NEW c \in Callers, CancelUnanswered(c) PROVE Inv'
<1>o. PICK o \in OrderNames : call[c].on = o
  BY DEF Inv, TypeOK, Calls
<1>1. /\ At(c, "cancelling") /\ order[o].status = "OPEN"
      /\ order' = [order EXCEPT ![o].status = "CANCELLED"]
      /\ record' = record /\ Throws(c)
      /\ UNCHANGED <<market, results, world>> /\ faults' = faults
  BY <1>o DEF CancelUnanswered
<1>2. Ended(o).status = "CANCELLED" /\ TypeOK /\ order[o].status # "NONE"
  BY <1>1 DEF Ended, View, Inv
<1>3. Ended(o) \in Evidences /\ faults' \in 0..MaxFaults
  BY <1>1, <1>2, ViewIsEvidence DEF TypeOK
<1>4. order' = [order EXCEPT ![o].status = Ended(o).status]
  BY <1>1, <1>2
<1>5. /\ order' \in [OrderNames -> Orders]
      /\ \A p \in OrderNames \ {o} : order'[p] = order[p]
      /\ order'[o].placed = order[o].placed /\ order'[o].quantity = order[o].quantity
      /\ order'[o].status # "NONE" /\ Closed(o)' /\ Ended(o) = View(o)'
      /\ Closed(o) => order'[o] = order[o]
  BY <1>4, <1>2, CancelledOrder
<1>6. ~At(c, "placed")
  BY <1>1 DEF At
<1> QED BY <1>o, <1>1, <1>2, <1>3, <1>5, <1>6, Learning

\* The three steps that only end a call preserve it.
LEMMA EndingSteps ==
  ASSUME Inv, NEW c \in Callers, CancelRefused(c) \/ HedgeBlocked(c) \/ ReplyUnstored(c)
  PROVE  Inv'
<1>1. /\ Throws(c) /\ UNCHANGED <<market, order, record, results, world>>
      /\ faults' = faults \/ (faults < MaxFaults /\ faults' = faults + 1)
  BY DEF CancelRefused, HedgeBlocked, ReplyUnstored
<1>2. faults' \in 0..MaxFaults
  BY <1>1, HedgeBoundsAssumption DEF Inv, TypeOK
<1> QED BY <1>1, <1>2, Ending

\* The two steps that learn of a refusal preserve it.
LEMMA DenyingSteps ==
  ASSUME Inv, NEW c \in Callers, Refused(c) \/ ReplyLost(c)
  PROVE  Inv'
<1>o. PICK o \in OrderNames : call[c].on = o
  BY DEF Inv, TypeOK, Calls
<1>1. /\ Sending(c) /\ Write(o, Denied(o)) /\ Receives(c, o, NoFill)
      /\ UNCHANGED <<market, order, results, world>>
      /\ faults' = faults \/ (faults < MaxFaults /\ faults' = faults + 1)
  BY <1>o DEF Refused, ReplyLost, Sending
<1>2. faults' \in 0..MaxFaults
  BY <1>1, HedgeBoundsAssumption DEF Inv, TypeOK
<1> QED BY <1>o, <1>1, <1>2, Denying

\* Accepted preserves it: the one submission places the one order.
LEMMA AcceptedStep == ASSUME Inv, NEW c \in Callers, Accepted(c) PROVE Inv'
<1>o. PICK o \in OrderNames : call[c].on = o
  BY DEF Inv, TypeOK, Calls
<1> DEFINE x == [placed |-> order[o].placed + 1, status |-> "OPEN",
                 quantity |-> record[o].quantity, filled |-> 0]
           k == [call[c] EXCEPT !.at = "placed"]
<1>0. TypeOK /\ CallFollows(c) /\ RecordFollows(o)
  BY DEF Inv, CallsFollow, RecordsFollow
<1>1. /\ At(c, "submitting") /\ order' = [order EXCEPT ![o] = x] /\ call' = [call EXCEPT ![c] = k]
      /\ UNCHANGED <<market, record, results, world, faults>>
  BY <1>o DEF Accepted, Goes
<1>2. record[o].state = "unsure" /\ order[o].placed = 0 /\ order[o].status = "NONE"
  BY <1>0, <1>1, <1>o DEF CallFollows, RecordFollows
<1>3. x \in Orders
  BY <1>0, <1>2, HedgeBoundsAssumption DEF TypeOK, Orders, Records, Lots
<1>4. order' \in [OrderNames -> Orders] /\ order'[o] = x /\ \A p \in OrderNames \ {o} : order'[p] = order[p]
  BY <1>0, <1>1, <1>3 DEF TypeOK
<1>5. k \in Calls /\ k.on = o /\ k.at = "placed" /\ k.seen = call[c].seen
  BY <1>0, <1>o DEF TypeOK, Calls, Places
<1>x. x.placed = 1 /\ x.status = "OPEN" /\ x.quantity = record[o].quantity
  BY <1>2
<1> HIDE DEF k, x
<1>6. /\ call' \in [Callers -> Calls] /\ call'[c] = k
      /\ \A d \in Callers \ {c} : call'[d] = call[d]
  BY <1>0, <1>1, <1>5 DEF TypeOK
<1>7. RecordFollows(o)' /\ SteadyAt(o)
  BY <1>0, <1>1, <1>2, <1>4, <1>x DEF RecordFollows, SteadyAt, Closed
<1>8. CallFollows(c)'
  <2>1. o = "hedge" => /\ record'["maker"].state = "known" /\ Closed("maker")'
                       /\ call[c].seen["maker"].filled = order'["maker"].filled
                       /\ (Abs(FinalEffect("maker")) > Tolerance)'
    BY <1>o, <1>1, <1>4, MakerKept DEF OrderNames
  <2>2. o = "maker" => call[c].seen["hedge"] = NoFill
    BY <1>0, <1>o DEF CallFollows
  <2> QED BY <2>1, <2>2, <1>1, <1>2, <1>4, <1>5, <1>6, <1>x DEF CallFollows, At
<1>9. Sending(c) /\ call'[c].on = call[c].on /\ faults' \in 0..MaxFaults
      /\ record' \in [OrderNames -> Records]
  BY <1>0, <1>1, <1>o, <1>5, <1>6 DEF Sending, TypeOK
<1> QED BY <1>1, <1>2, <1>4, <1>6, <1>7, <1>8, <1>9, <1>o, CallMoves

\* What a submission and its reconciliation rest on.
Asks(c, o, quantity) ==
  /\ o \in OrderNames /\ quantity \in Lots
  /\ call[c].on = "maker" /\ call[c].seen["hedge"] = NoFill
  /\ o = "hedge" => At(c, "hedging") /\ quantity = Abs(FinalEffect("maker"))

\* A first submission preserves it.
LEMMA Submitting ==
  ASSUME Inv, NEW c \in Callers, NEW o, NEW quantity, Asks(c, o, quantity),
         SubmitNew(c, o, quantity), o = "maker" => authorized,
         UNCHANGED <<market, order, results, world>>
  PROVE  Inv'
<1> SUFFICES ASSUME "gateway" \notin full PROVE Inv'
  <2>1. CASE Throws(c) /\ UNCHANGED <<record, faults>>
    <3>1. faults' \in 0..MaxFaults
      BY <2>1 DEF Inv, TypeOK
    <3> QED BY <2>1, <3>1, Ending
  <2> QED BY <2>1 DEF SubmitNew
<1> DEFINE r == [NoRecord EXCEPT !.state = "unsure", !.quantity = quantity]
           k == [call[c] EXCEPT !.at = "submitting", !.on = o, !.reads = 0]
<1>0. TypeOK /\ CallFollows(c) /\ RecordFollows(o) /\ o \in OrderNames /\ quantity \in Lots
  BY DEF Inv, CallsFollow, RecordsFollow, Asks
<1>1. record[o].state = "none" /\ record' = [record EXCEPT ![o] = r]
  BY DEF SubmitNew, Write
<1>2. r \in Records /\ r.state = "unsure" /\ r.quantity = quantity
  BY <1>0, NoFillIsEvidence DEF NoRecord, Records
<1>5. k \in Calls /\ k.on = o /\ k.at = "submitting" /\ k.seen = call[c].seen
  <2>1. call[c] \in Calls /\ 0 \in 0..MaximumReads /\ "submitting" \in Places
    BY <1>0, HedgeBoundsAssumption DEF TypeOK, Places
  <2> QED BY <1>0, <2>1 DEF Calls
<1>3. \/ call' = [call EXCEPT ![c] = k] /\ faults' = faults
      \/ Throws(c) /\ faults < MaxFaults /\ faults' = faults + 1
  BY DEF SubmitNew, Goes
<1> HIDE DEF k, r
<1>4. /\ record' \in [OrderNames -> Records] /\ record'[o] = r
      /\ \A p \in OrderNames \ {o} : record'[p] = record[p]
  BY <1>0, <1>1, <1>2 DEF TypeOK
<1>6. RecordFollows(o)' /\ SteadyAt(o)
  BY <1>0, <1>1, <1>2, <1>4 DEF RecordFollows, SteadyAt, Closed
<1>7. o = "hedge" => /\ record["maker"].state = "known" /\ Closed("maker")
                     /\ record'["hedge"].quantity = Abs(FinalEffect("maker"))
                     /\ Abs(FinalEffect("maker")) > Tolerance
  BY <1>0, <1>2, <1>4 DEF Asks, CallFollows
<1>8. order' \in [OrderNames -> Orders] /\ faults' \in 0..MaxFaults
  BY <1>0, <1>3, HedgeBoundsAssumption DEF TypeOK
<1>9. CASE call' = [call EXCEPT ![c] = k]
  <2>1. /\ call' \in [Callers -> Calls] /\ call'[c] = k
        /\ \A d \in Callers \ {c} : call'[d] = call[d]
    BY <1>0, <1>9, <1>5 DEF TypeOK
  <2>2. CallFollows(c)'
    <3>1. o = "hedge" => /\ record'["maker"].state = "known" /\ Closed("maker")'
                         /\ call[c].seen["maker"].filled = order'["maker"].filled
                         /\ (Abs(FinalEffect("maker")) > Tolerance)'
      BY <1>4, MakerKept DEF OrderNames, Asks
    <3>2. o = "maker" => call[c].seen["hedge"] = NoFill
      BY DEF Asks
    <3>3. record'[o].state = "unsure" /\ order'[o].placed = 0
      BY <1>0, <1>1, <1>2, <1>4 DEF RecordFollows
    <3> QED BY <3>1, <3>2, <3>3, <2>1, <1>5 DEF CallFollows, At
  <2>3. record[call'[c].on].state = "none"
    BY <1>1, <1>5, <2>1
  <2> QED BY <1>0, <1>1, <1>4, <1>6, <1>7, <1>8, <2>1, <2>2, <2>3, CallMoves DEF OrderNames
<1>10. CASE Throws(c)
  <2>1. call' \in [Callers -> Calls] /\ CallFollows(c)' /\ ~Sending(c)'
        /\ (\A d \in Callers \ {c} : call'[d] = call[d])
    BY <1>0, <1>10, Throwing
  <2> QED BY <1>0, <1>1, <1>4, <1>6, <1>7, <1>8, <2>1, CallMoves DEF OrderNames
<1> QED BY <1>3, <1>9, <1>10

\* So does the reconciliation of an earlier one.
LEMMA Reconciling ==
  ASSUME Inv, NEW c \in Callers, NEW o, NEW quantity, Asks(c, o, quantity),
         Reconcile(c, o, quantity), UNCHANGED <<market, order, results, world>>
  PROVE  Inv'
<1> DEFINE k == [call[c] EXCEPT !.at = "reading", !.on = o, !.reads = 0]
<1>0. TypeOK /\ CallFollows(c) /\ RecordFollows(o) /\ o \in OrderNames
  BY DEF Inv, CallsFollow, RecordsFollow, Asks
<1>1. record' = record /\ faults' = faults
  BY DEF Reconcile
<1>2. /\ record' \in [OrderNames -> Records] /\ order' \in [OrderNames -> Orders]
      /\ faults' \in 0..MaxFaults /\ RecordFollows(o)' /\ SteadyAt(o)
  BY <1>0, <1>1 DEF TypeOK, RecordFollows, SteadyAt, Closed, View
<1>3. o = "hedge" => /\ record'["maker"].state = "known" /\ Closed("maker")'
                     /\ call[c].seen["maker"].filled = order'["maker"].filled
                     /\ (Abs(FinalEffect("maker")) > Tolerance)'
  BY <1>1, MakerKept DEF OrderNames, Asks
<1>4. CASE Throws(c)
  BY <1>1, <1>2, <1>4, Ending
<1>5. CASE record[o].state = "denied" /\ Receives(c, o, NoFill)
  <2>1. Finished(o)' /\ FinalFill(o)' = 0
    BY <1>1, <1>5 DEF Finished, FinalFill
  <2>2. call' \in [Callers -> Calls] /\ CallFollows(c)' /\ ~Sending(c)'
        /\ (\A d \in Callers \ {c} : call'[d] = call[d])
    BY <1>0, <1>3, <1>5, <2>1, NoFillIsEvidence, Receiving DEF Asks
  <2> QED BY <1>0, <1>1, <1>2, <2>2, CallMoves DEF OrderNames
<1>6. CASE record[o].state = "known" /\ Goes(c, k)
  <2>1. k \in Calls /\ k.on = o /\ k.at = "reading" /\ k.seen = call[c].seen
    <3>1. call[c] \in Calls /\ 0 \in 0..MaximumReads /\ "reading" \in Places
      BY <1>0, HedgeBoundsAssumption DEF TypeOK, Places
    <3> QED BY <1>0, <3>1 DEF Calls
  <2> HIDE DEF k
  <2>2. /\ call' \in [Callers -> Calls] /\ call'[c] = k
        /\ \A d \in Callers \ {c} : call'[d] = call[d]
    BY <1>0, <1>6, <2>1 DEF TypeOK, Goes
  <2>3. CallFollows(c)'
    <3>1. o = "maker" => call[c].seen["hedge"] = NoFill
      BY DEF Asks
    <3> QED BY <3>1, <2>1, <2>2, <1>1, <1>3, <1>6 DEF CallFollows, At
  <2>4. ~Sending(c)'
    BY <2>1, <2>2 DEF Sending, At
  <2> QED BY <1>0, <1>1, <1>2, <2>2, <2>3, <2>4, CallMoves DEF OrderNames
<1>7. record[o].state \in {"none", "unsure", "denied", "known"}
  BY <1>0 DEF TypeOK, Records
<1> QED BY <1>4, <1>5, <1>6, <1>7 DEF Reconcile

\* Calls that end, or stay where they are, beside what others change.
LEMMA CallsKept ==
  ASSUME Inv, Steady, UNCHANGED market,
         \A d \in Callers :
           \/ CallFollows(d)' /\ ~Sending(d)'
           \/ /\ call'[d] = call[d] /\ (settlement.known => settlement'.known)
              /\ Sending(d) => /\ record'[call[d].on] = record[call[d].on]
                               /\ order'[call[d].on].placed = order[call[d].on].placed
  PROVE  CallsFollow' /\ OneSender'
<1>1. CallsFollow'
  <2> SUFFICES ASSUME NEW d \in Callers PROVE CallFollows(d)'
    BY DEF CallsFollow
  <2>1. TypeOK /\ CallFollows(d)
    BY DEF Inv, CallsFollow
  <2> QED BY <2>1, CallKept
<1>2. OneSender'
  <2> SUFFICES ASSUME NEW a \in Callers, NEW b \in Callers, Sending(a)', Sending(b)', call'[a].on = call'[b].on
               PROVE  a = b
    BY DEF OneSender
  <2>1. call'[a] = call[a] /\ call'[b] = call[b]
    OBVIOUS
  <2>2. Sending(a) /\ Sending(b) /\ call[a].on = call[b].on
    BY <2>1 DEF Sending, At
  <2> QED BY <2>2 DEF Inv, OneSender
<1> QED BY <1>1, <1>2

\* Orders and records that do not change.
LEMMA Still ==
  ASSUME Inv, UNCHANGED <<market, order, record>>
  PROVE  /\ RecordsFollow' /\ Steady /\ HedgeFollows'
         /\ \A o \in OrderNames : Finished(o)' = Finished(o) /\ FinalEffect(o)' = FinalEffect(o)
<1>1. RecordsFollow' /\ Steady
  BY DEF Inv, RecordsFollow, RecordFollows, Closed, View, Steady, SteadyAt
<1>2. HedgeFollows'
  BY <1>1, HedgeKept DEF Inv
<1>3. \A o \in OrderNames : Finished(o)' = Finished(o) /\ FinalEffect(o)' = FinalEffect(o)
  BY DEF Finished, FinalEffect, FinalFill, Effect, Closed, market
<1> QED BY <1>1, <1>2, <1>3

\* Resume preserves it.
LEMMA ResumeStep == ASSUME Inv, NEW c \in Callers, Resume(c) PROVE Inv'
<1>0. TypeOK /\ CallFollows(c) /\ At(c, "idle")
  BY DEF Inv, CallsFollow, Resume
<1>1. Asks(c, "maker", Quantity)
  <2>1. Quantity \in Lots
    BY HedgeBoundsAssumption DEF Lots
  <2> QED BY <1>0, <2>1 DEF Asks, OrderNames, CallFollows
<1>2. CASE authorized /\ SubmitNew(c, "maker", Quantity) /\ outcomes' = outcomes
  <2>1. UNCHANGED <<market, order, results, world>>
    BY <1>2 DEF Resume, results
  <2> QED BY <1>1, <1>2, <2>1, Submitting
<1>3. CASE Reconcile(c, "maker", Quantity) /\ outcomes' = outcomes
  <2>1. UNCHANGED <<market, order, results, world>>
    BY <1>3 DEF Resume, results
  <2> QED BY <1>1, <1>3, <2>1, Reconciling
<1>4. CASE /\ ~authorized /\ record["maker"].state = "none"
           /\ Reaches(c, "REJECTED") /\ UNCHANGED <<record, faults>>
  <2>1. UNCHANGED <<feeAsset, makerSide, order, record, settlement, sealed, staged, completed, authorized, full, faults>>
        /\ outcomes' = outcomes \cup {"REJECTED"}
    BY <1>4 DEF Resume, Reaches, market
  <2>2. RecordsFollow' /\ Steady /\ HedgeFollows'
        /\ \A p \in OrderNames : Finished(p)' = Finished(p) /\ FinalEffect(p)' = FinalEffect(p)
    BY <2>1, Still DEF market
  <2>3. /\ call' \in [Callers -> Calls] /\ CallFollows(c)' /\ ~Sending(c)'
        /\ (\A d \in Callers \ {c} : call'[d] = call[d])
    BY <1>0, <1>4, Returns DEF Reaches
  <2>4. TypeOK'
    BY <1>0, <2>1, <2>3 DEF TypeOK
  <2>5. SettlementFollows' /\ SealedFollows'
    BY <2>1, <2>2 DEF Inv, SettlementFollows, SealedFollows, OrderNames
  <2>6. CallsFollow' /\ OneSender'
    BY <2>1, <2>2, <2>3, CallsKept DEF market
  <2>7. OutcomesFollow'
    BY <1>4, <2>1 DEF Inv, OutcomesFollow, Residual, FinalEffect, FinalFill, Effect, Finished, Closed
  <2> QED BY <2>2, <2>4, <2>5, <2>6, <2>7 DEF Inv
<1> QED BY <1>2, <1>3, <1>4 DEF Resume

\* Hedge preserves it: the quantity is the final effect of the maker.
LEMMA HedgeStep == ASSUME Inv, NEW c \in Callers, Hedge(c) PROVE Inv'
<1> DEFINE quantity == Abs(Effect("maker", call[c].seen["maker"].filled))
<1>0. TypeOK /\ CallFollows(c) /\ At(c, "hedging") /\ RecordFollows("maker")
  BY DEF Inv, CallsFollow, Hedge, RecordsFollow, OrderNames
<1>1. /\ call[c].on = "maker" /\ call[c].seen["hedge"] = NoFill
      /\ call[c].seen["maker"].filled = order["maker"].filled /\ record["maker"].state = "known"
  BY <1>0 DEF CallFollows
<1>2. quantity = Abs(FinalEffect("maker"))
  BY <1>1 DEF FinalEffect, FinalFill
<1>3. quantity \in Nat
  <2>1. call[c].seen["maker"].filled \in Nat
    BY <1>0, HedgeBoundsAssumption DEF TypeOK, Calls, Evidences, Lots, OrderNames
  <2>2. Effect("maker", call[c].seen["maker"].filled) \in Int
    BY <2>1, EffectsAreWhole DEF Effect
  <2> QED BY <2>2, Absolute
<1>4. UNCHANGED <<market, order, results, world>>
  BY DEF Hedge
<1>5. CASE Throws(c) /\ UNCHANGED <<record, faults>>
  <2>1. faults' \in 0..MaxFaults
    BY <1>5, <1>0 DEF TypeOK
  <2> QED BY <1>4, <1>5, <2>1, Ending
<1>6. CASE ~(quantity > Quantity + MaximumBaseFee)
  <2>1. quantity \in Lots
    BY <1>3, <1>6, HedgeBoundsAssumption DEF Lots
  <2>2. Asks(c, "hedge", quantity)
    BY <1>0, <1>1, <1>2, <2>1 DEF Asks, OrderNames
  <2>3. SubmitNew(c, "hedge", quantity) \/ Reconcile(c, "hedge", quantity)
    BY <1>6 DEF Hedge
  <2> HIDE DEF quantity
  <2> QED BY <1>4, <2>2, <2>3, Submitting, Reconciling
<1> QED BY <1>5, <1>6 DEF Hedge

\* What an exchange does to an order that is open.
LEMMA Outside ==
  ASSUME Inv, NEW o \in OrderNames, order[o].status = "OPEN", NEW x \in Orders,
         order' = [order EXCEPT ![o] = x], x.placed = order[o].placed, x.quantity = order[o].quantity,
         x.status # "NONE", UNCHANGED <<market, record, call, results, world, faults>>
  PROVE  Inv'
<1>r. UNCHANGED market /\ UNCHANGED <<settlement, sealed, staged, outcomes, completed>>
  BY DEF results
<1>0. TypeOK /\ RecordFollows(o)
  BY DEF Inv, RecordsFollow
<1>1. /\ order' \in [OrderNames -> Orders] /\ order'[o] = x
      /\ \A p \in OrderNames \ {o} : order'[p] = order[p]
  BY <1>0 DEF TypeOK
<1>2. TypeOK'
  BY <1>0, <1>1, <1>r DEF TypeOK, market
<1>3. RecordFollows(o)'
  BY <1>0, <1>1 DEF RecordFollows, Closed
<1>4. RecordsFollow'
  BY <1>1, <1>3 DEF Inv, RecordsFollow, RecordFollows, Closed, View
<1>5. Steady
  BY <1>1 DEF Steady, SteadyAt, Closed
<1>6. CallsFollow' /\ OneSender'
  <2>1. \A d \in Callers : call[d].on \in OrderNames
    BY <1>0 DEF TypeOK, Calls
  <2> QED BY <2>1, <1>r, <1>1, <1>5, CallsKept
<1>7. HedgeFollows'
  BY <1>5, <1>r, HedgeKept DEF Inv
<1>8. SettlementFollows'
  BY <1>0, <1>2, <1>4, <1>5, <1>7, <1>r, SettlementKept DEF Inv
<1>9. OutcomesFollow' /\ SealedFollows'
  BY <1>5, <1>r, OutcomesKept DEF Inv, SealedFollows
<1> QED BY <1>2, <1>4, <1>6, <1>7, <1>8, <1>9 DEF Inv

\* Fill and Expire preserve it.
LEMMA OutsideSteps ==
  ASSUME Inv, NEW o \in OrderNames, Fill(o) \/ Expire(o)
  PROVE  Inv'
<1>0. TypeOK /\ order \in [OrderNames -> Orders] /\ order[o] \in Orders
  BY DEF Inv, TypeOK
<1>1. CASE Fill(o)
  <2> DEFINE end == IF order[o].filled + 1 = order[o].quantity THEN "FILLED" ELSE "OPEN"
             x == [order[o] EXCEPT !.filled = @ + 1, !.status = end]
  <2>1. /\ order[o].status = "OPEN" /\ order[o].filled < order[o].quantity
        /\ UNCHANGED <<market, record, call, results, world, faults>>
    BY <1>1 DEF Fill
  <2>2. order[o].filled + 1 \in Lots
    BY <1>0, <2>1, HedgeBoundsAssumption DEF Orders, Lots
  <2>3. end \in {"FILLED", "OPEN"}
    OBVIOUS
  <2>4. order' = [order EXCEPT ![o] = x]
    <3>1. order' = [order EXCEPT ![o].filled = @ + 1, ![o].status = end]
      BY <1>1 DEF Fill
    <3> HIDE DEF end
    <3> QED BY <3>1, <1>0
  <2> HIDE DEF end
  <2>5. x \in Orders /\ x.status # "NONE" /\ x.placed = order[o].placed /\ x.quantity = order[o].quantity
    BY <1>0, <2>2, <2>3 DEF Orders
  <2> HIDE DEF x
  <2> QED BY <2>1, <2>4, <2>5, Outside
<1>2. CASE Expire(o)
  <2> DEFINE x == [order[o] EXCEPT !.status = "CANCELLED"]
  <2>1. /\ order[o].status = "OPEN" /\ order' = [order EXCEPT ![o] = x]
        /\ UNCHANGED <<market, record, call, results, world, faults>>
    BY <1>2 DEF Expire
  <2>2. x \in Orders /\ x.status # "NONE" /\ x.placed = order[o].placed /\ x.quantity = order[o].quantity
    BY <1>0 DEF Orders
  <2> HIDE DEF x
  <2> QED BY <2>1, <2>2, Outside
<1> QED BY <1>1, <1>2

\* A call that settles knows the final effects of both orders.
LEMMA Knowing ==
  ASSUME Inv, NEW c \in Callers, At(c, "settling") \/ At(c, "concluding")
  PROVE  /\ Finished("maker")
         /\ Effect("maker", call[c].seen["maker"].filled) = FinalEffect("maker")
         /\ Effect("hedge", call[c].seen["hedge"].filled) = FinalEffect("hedge")
         /\ FinalEffect("maker") \in Int /\ FinalEffect("hedge") \in Int
         /\ call[c].on = "maker" => Abs(FinalEffect("maker")) <= Tolerance
                                    /\ ~(Abs(FinalEffect("maker")) > Tolerance)
         /\ call[c].on = "hedge" => Abs(FinalEffect("maker")) > Tolerance /\ Finished("hedge")
<1> USE DEF OrderNames
<1>0. TypeOK /\ CallFollows(c) /\ call[c].on \in OrderNames
  BY DEF Inv, CallsFollow, TypeOK, Calls
<1>i. FinalEffect("maker") \in Int /\ FinalEffect("hedge") \in Int
  BY <1>0, EffectsAreWhole DEF TypeOK, Orders, FinalEffect, FinalFill, Effect, Lots
<1>1. CASE call[c].on = "maker"
  <2>1. /\ Finished("maker") /\ call[c].seen["maker"].filled = FinalFill("maker")
        /\ Abs(FinalEffect("maker")) <= Tolerance /\ call[c].seen["hedge"] = NoFill
    BY <1>0, <1>1 DEF CallFollows
  <2>2. FinalFill("hedge") = 0
    BY <1>0, <2>1, NoHedge DEF Inv
  <2>3. ~(Abs(FinalEffect("maker")) > Tolerance)
    BY <2>1, <1>i, Absolute, HedgeBoundsAssumption
  <2> QED BY <1>1, <1>i, <2>1, <2>2, <2>3, NoFillIsEvidence DEF FinalEffect
<1>2. CASE call[c].on = "hedge"
  <2>1. /\ Finished("hedge") /\ call[c].seen["hedge"].filled = FinalFill("hedge")
        /\ record["maker"].state = "known" /\ Closed("maker")
        /\ call[c].seen["maker"].filled = order["maker"].filled
        /\ Abs(FinalEffect("maker")) > Tolerance
    BY <1>0, <1>2 DEF CallFollows
  <2> QED BY <1>2, <1>i, <2>1, KnownIsFinal DEF FinalEffect
<1> QED BY <1>0, <1>1, <1>2

\* Settle preserves it: whoever settles, settles the same.
LEMMA SettleStep == ASSUME Inv, NEW c \in Callers, Settle(c) PROVE Inv'
<1> SUFFICES ASSUME ~(settlement = NoSettlement /\ "evidence" \in full) PROVE Inv'
  <2>1. CASE settlement = NoSettlement /\ "evidence" \in full
    <3>1. /\ Throws(c) /\ faults' \in 0..MaxFaults
          /\ UNCHANGED <<market, order, record, results, world>>
      BY <2>1 DEF Settle, results, Inv, TypeOK
    <3> QED BY <3>1, Ending
  <2> QED BY <2>1
<1> DEFINE k == [call[c] EXCEPT !.at = "concluding"]
<1>o. PICK o \in OrderNames : call[c].on = o
  BY DEF Inv, TypeOK, Calls
<1>0. TypeOK /\ CallFollows(c) /\ At(c, "settling") /\ call \in [Callers -> Calls]
  BY DEF Inv, CallsFollow, Settle, TypeOK
<1>1. UNCHANGED <<feeAsset, makerSide, order, record, staged, outcomes, completed, world>>
  BY DEF Settle, market
<1>2. RecordsFollow' /\ Steady /\ HedgeFollows'
      /\ \A p \in OrderNames : Finished(p)' = Finished(p) /\ FinalEffect(p)' = FinalEffect(p)
  BY <1>1, Still DEF market
<1>3. k \in Calls /\ k.at = "concluding" /\ k.on = o /\ k.seen = call[c].seen
  BY <1>0, <1>o DEF Calls, Places
<1>4. /\ \/ Goes(c, k) /\ faults' = faults
         \/ Throws(c) /\ faults < MaxFaults /\ faults' = faults + 1
      /\ \/ settlement # NoSettlement /\ UNCHANGED <<settlement, sealed>>
         \/ settlement = NoSettlement /\ settlement' = Payload(call[c]) /\ sealed' \in {settlement', sealed}
  BY DEF Settle
<1> HIDE DEF k
<1>5. settlement'.known /\ (settlement # NoSettlement => settlement' = settlement)
      /\ (sealed' = settlement' \/ sealed' = NoSettlement)
  BY <1>4 DEF Inv, SealedFollows, Payload
<1>k. /\ Finished("maker")
      /\ Effect("maker", call[c].seen["maker"].filled) = FinalEffect("maker")
      /\ Effect("hedge", call[c].seen["hedge"].filled) = FinalEffect("hedge")
      /\ FinalEffect("maker") \in Int /\ FinalEffect("hedge") \in Int
      /\ call[c].on = "maker" => ~(Abs(FinalEffect("maker")) > Tolerance)
      /\ call[c].on = "hedge" => Finished("hedge")
  BY <1>0, Knowing
<1>p. Payload(call[c]) = [maker |-> FinalEffect("maker"), hedge |-> FinalEffect("hedge"), known |-> TRUE]
  BY <1>k DEF Payload
<1>6. SettlementFollows'
  <2>1. CASE settlement # NoSettlement
    BY <1>2, <1>5, <2>1 DEF Inv, SettlementFollows, OrderNames
  <2>2. CASE settlement = NoSettlement
    <3>1. settlement' = [maker |-> FinalEffect("maker"), hedge |-> FinalEffect("hedge"), known |-> TRUE]
      BY <1>4, <1>p, <2>2
    <3> QED BY <3>1, <1>2, <1>k, <1>o DEF SettlementFollows, OrderNames
  <2> QED BY <2>1, <2>2
<1>7. /\ call' \in [Callers -> Calls] /\ CallFollows(c)' /\ ~Sending(c)'
      /\ (\A d \in Callers \ {c} : call'[d] = call[d])
  <2>1. CASE Throws(c)
    BY <1>0, <2>1, Throwing
  <2>2. CASE Goes(c, k)
    <3>1. /\ call' \in [Callers -> Calls] /\ call'[c] = k
          /\ (\A d \in Callers \ {c} : call'[d] = call[d])
      BY <1>0, <1>3, <2>2 DEF Goes
    <3>2. CallFollows(c)'
      <4>1. /\ Finished(o) /\ call[c].seen[o].filled = FinalFill(o)
            /\ o = "maker" => Abs(FinalEffect("maker")) <= Tolerance
            /\ o = "hedge" => /\ record["maker"].state = "known" /\ Closed("maker")
                              /\ call[c].seen["maker"].filled = order["maker"].filled
                              /\ Abs(FinalEffect("maker")) > Tolerance
            /\ o = "maker" => call[c].seen["hedge"] = NoFill
        BY <1>0, <1>o DEF CallFollows
      <4>2. /\ Finished(o)' /\ call[c].seen[o].filled = FinalFill(o)'
            /\ o = "maker" => (Abs(FinalEffect("maker")) <= Tolerance)'
            /\ o = "hedge" => /\ record'["maker"].state = "known" /\ Closed("maker")'
                              /\ call[c].seen["maker"].filled = order'["maker"].filled
                              /\ (Abs(FinalEffect("maker")) > Tolerance)'
        BY <4>1, <1>1, <1>2 DEF FinalFill, Closed, OrderNames
      <4> QED BY <3>1, <4>1, <4>2, <1>3, <1>5 DEF CallFollows, At
    <3>3. ~Sending(c)'
      BY <3>1, <1>3 DEF Sending, At
    <3> QED BY <3>1, <3>2, <3>3
  <2> QED BY <1>4, <2>1, <2>2
<1>8. CallsFollow' /\ OneSender'
  <2>1. UNCHANGED market
    BY <1>1 DEF market
  <2> QED BY <1>1, <1>2, <1>5, <1>7, <2>1, CallsKept
<1>9. OutcomesFollow'
  <2>1. UNCHANGED market
    BY <1>1 DEF market
  <2> QED BY <1>1, <1>2, <2>1, OutcomesKept DEF Inv
<1>10. SealedFollows'
  BY <1>5 DEF SealedFollows
<1>11. TypeOK'
  <2>1. faults' \in 0..MaxFaults
    BY <1>0, <1>4, HedgeBoundsAssumption DEF TypeOK
  <2>2. {settlement', sealed'} \subseteq [maker : Int, hedge : Int, known : BOOLEAN]
    <3>1. Payload(call[c]) \in [maker : Int, hedge : Int, known : BOOLEAN]
      BY <1>k, <1>p
    <3>2. /\ settlement \in [maker : Int, hedge : Int, known : BOOLEAN]
          /\ sealed \in [maker : Int, hedge : Int, known : BOOLEAN]
      BY <1>0 DEF TypeOK
    <3> QED BY <1>4, <3>1, <3>2
  <2>3. TypeOK
    BY <1>0
  <2> QED BY <2>3, <1>1, <1>7, <2>1, <2>2 DEF TypeOK
<1> QED BY <1>2, <1>6, <1>8, <1>9, <1>10, <1>11 DEF Inv

\* Conclude preserves it: whoever concludes, concludes the same.
LEMMA ConcludeStep == ASSUME Inv, NEW c \in Callers, Conclude(c) PROVE Inv'
<1> DEFINE far == Abs(Net(call[c])) > MaximumExposure + Tolerance
           near == Abs(Net(call[c])) <= MaximumExposure + Tolerance
<1> SUFFICES ASSUME ~(Throws(c) /\ UNCHANGED <<outcomes, staged>>) PROVE Inv'
  <2>1. CASE Throws(c) /\ UNCHANGED <<outcomes, staged>>
    <3>1. faults' \in 0..MaxFaults /\ UNCHANGED <<market, order, record, results, world>>
      BY <2>1 DEF Conclude, results, Inv, TypeOK
    <3> QED BY <2>1, <3>1, Ending
  <2> QED BY <2>1
<1>0. TypeOK /\ At(c, "concluding") /\ call[c].on \in OrderNames
  BY DEF Inv, Conclude, TypeOK, Calls
<1>1. UNCHANGED <<feeAsset, makerSide, order, record, settlement, sealed, completed, world, faults>>
  BY DEF Conclude, market
<1>2. RecordsFollow' /\ Steady /\ HedgeFollows'
      /\ \A p \in OrderNames : Finished(p)' = Finished(p) /\ FinalEffect(p)' = FinalEffect(p)
  BY <1>1, Still DEF market
<1>k. /\ Finished("maker") /\ FinalEffect("maker") \in Int /\ FinalEffect("hedge") \in Int
      /\ Net(call[c]) = Residual
      /\ call[c].on = "maker" => Abs(FinalEffect("maker")) <= Tolerance
      /\ call[c].on = "hedge" => Abs(FinalEffect("maker")) > Tolerance /\ Finished("hedge")
  BY <1>0, Knowing DEF Net, Residual
<1>i. Residual \in Int /\ (far \/ near)
  <2>1. Residual \in Int
    BY <1>k DEF Residual
  <2> QED BY <2>1, <1>k, Absolute, HedgeBoundsAssumption
<1>t. Goes(c, Returning)
  BY DEF Conclude, Reaches
<1>n. Intent(call[c]) \in Intents /\ Intent(call[c]).net = Residual
  BY <1>k, <1>i DEF Intent, Intents, Reasons
<1>3. \/ /\ call[c].on = "maker"
         /\ outcomes' = outcomes \cup {"REJECTED"} /\ staged' = staged
      \/ /\ call[c].on = "hedge" /\ far
         /\ outcomes' = outcomes \cup {"RECOVERY_REQUIRED"} /\ staged' = staged \cup {Intent(call[c])}
      \/ /\ call[c].on = "hedge" /\ near
         /\ outcomes' = outcomes \cup {"COMPLETED"} /\ staged' = staged
  BY <1>0, <1>k, <1>i DEF Conclude, Reaches, OrderNames
<1>4. Residual' = Residual
  BY <1>2 DEF Residual, OrderNames
<1>5. OutcomesFollow'
  <2>1. OutcomesFollow
    BY DEF Inv
  <2>2. /\ Finished("maker")' = Finished("maker") /\ Finished("hedge")' = Finished("hedge")
        /\ FinalEffect("maker")' = FinalEffect("maker")
    BY <1>2 DEF OrderNames
  <2>3. (Abs(FinalEffect("maker")) <= Tolerance)' = (Abs(FinalEffect("maker")) <= Tolerance)
        /\ (Abs(FinalEffect("maker")) > Tolerance)' = (Abs(FinalEffect("maker")) > Tolerance)
    BY <2>2
  <2> DEFINE small == Abs(FinalEffect("maker")) <= Tolerance
             large == Abs(FinalEffect("maker")) > Tolerance
  <2>4. "REJECTED" \in outcomes' =>
          \/ record'["maker"].state = "none" /\ ~authorized'
          \/ Finished("maker")' /\ small'
    BY <2>1, <2>2, <2>3, <1>1, <1>3, <1>k DEF OutcomesFollow
  <2>5. "COMPLETED" \in outcomes' \/ "RECOVERY_REQUIRED" \in outcomes' \/ staged' # {} =>
          Finished("maker")' /\ Finished("hedge")' /\ large'
    BY <2>1, <2>2, <2>3, <1>3, <1>k DEF OutcomesFollow
  <2>6. "COMPLETED" \in outcomes' => (Abs(Residual) <= MaximumExposure + Tolerance)'
    BY <2>1, <1>3, <1>4, <1>k DEF OutcomesFollow
  <2>7. "RECOVERY_REQUIRED" \in outcomes' => (Abs(Residual) > MaximumExposure + Tolerance)'
    BY <2>1, <1>3, <1>4, <1>k DEF OutcomesFollow
  <2>8. \A intent \in staged' : intent.net = Residual'
    BY <2>1, <1>3, <1>4, <1>n DEF OutcomesFollow
  <2> QED BY <2>4, <2>5, <2>6, <2>7, <2>8 DEF OutcomesFollow
<1>6. /\ call' \in [Callers -> Calls] /\ CallFollows(c)' /\ ~Sending(c)'
      /\ (\A d \in Callers \ {c} : call'[d] = call[d])
  BY <1>0, <1>t, Returns
<1>7. CallsFollow' /\ OneSender'
  <2>1. UNCHANGED market
    BY <1>1 DEF market
  <2> QED BY <1>1, <1>2, <1>6, <2>1, CallsKept
<1>8. SettlementFollows' /\ SealedFollows'
  BY <1>1, <1>2 DEF Inv, SettlementFollows, SealedFollows, OrderNames
<1>9. TypeOK'
  <2>1. staged' \subseteq Intents /\ outcomes' \subseteq {"REJECTED", "COMPLETED", "RECOVERY_REQUIRED"}
    BY <1>0, <1>3, <1>n DEF TypeOK
  <2> QED BY <1>0, <1>1, <1>6, <2>1 DEF TypeOK
<1> QED BY <1>2, <1>5, <1>7, <1>8, <1>9 DEF Inv

\* Complete, Lapse, FillsUp and stuttering preserve it.
LEMMA QuietSteps ==
  ASSUME Inv, \/ \E c \in Callers : Complete(c)
              \/ \E store \in Stores : FillsUp(store)
              \/ Lapse \/ UNCHANGED vars
  PROVE  Inv'
<1>0. TypeOK
  BY DEF Inv
<1>1. /\ UNCHANGED <<feeAsset, makerSide, order, record, settlement, sealed, staged, outcomes>>
      /\ completed' \in BOOLEAN /\ authorized' \in {authorized, FALSE} /\ full' \subseteq Stores
      /\ faults' = faults \/ (faults < MaxFaults /\ faults' = faults + 1)
      /\ call' = call \/ \E c \in Callers : Throws(c)
  BY <1>0 DEF Complete, FillsUp, Lapse, vars, market, results, TypeOK
<1>2. RecordsFollow' /\ Steady /\ HedgeFollows'
      /\ \A p \in OrderNames : Finished(p)' = Finished(p) /\ FinalEffect(p)' = FinalEffect(p)
  BY <1>1, Still DEF market
<1>c. /\ call' \in [Callers -> Calls]
      /\ \A d \in Callers : call'[d] = call[d] \/ (CallFollows(d)' /\ ~Sending(d)')
  <2>1. CASE call' = call
    BY <1>0, <2>1 DEF TypeOK
  <2>2. ASSUME NEW c \in Callers, Throws(c)
        PROVE  /\ call' \in [Callers -> Calls]
               /\ \A d \in Callers : call'[d] = call[d] \/ (CallFollows(d)' /\ ~Sending(d)')
    BY <1>0, <2>2, Throwing
  <2> QED BY <1>1, <2>1, <2>2
<1>3. CallsFollow' /\ OneSender'
  <2>1. UNCHANGED market /\ \A d \in Callers : call[d].on \in OrderNames
    BY <1>0, <1>1 DEF market, TypeOK, Calls
  <2> QED BY <2>1, <1>1, <1>2, <1>c, CallsKept
<1>4. SettlementFollows' /\ SealedFollows'
  BY <1>1, <1>2 DEF Inv, SettlementFollows, SealedFollows, OrderNames
<1>5. OutcomesFollow'
  <2>1. record["maker"].state = "none" /\ ~authorized => record'["maker"].state = "none" /\ ~authorized'
    BY <1>1
  <2> QED BY <2>1, <1>1, <1>2, OutcomesKept DEF Inv, market
<1>6. TypeOK'
  <2>1. faults' \in 0..MaxFaults
    BY <1>0, <1>1, HedgeBoundsAssumption DEF TypeOK
  <2> QED BY <1>0, <1>1, <1>c, <2>1 DEF TypeOK
<1> QED BY <1>2, <1>3, <1>4, <1>5, <1>6 DEF Inv

\* Crash preserves it: what a restart reads is not less final.
LEMMA CrashStep == ASSUME Inv, Crash PROVE Inv'
<1> USE DEF OrderNames
<1>0. TypeOK /\ RecordsFollow
  BY DEF Inv
<1>1. /\ call' = [c \in Callers |-> Idle] /\ settlement' = sealed /\ staged' = {}
      /\ full' = full \ {"recovery"} /\ faults < MaxFaults /\ faults' = faults + 1
      /\ UNCHANGED <<feeAsset, makerSide, order, sealed, outcomes, completed, authorized>>
  BY DEF Crash, market
<1>2. PICK m \in Forgotten("maker"), h \in Forgotten("hedge") :
        record' = [o \in OrderNames |-> IF o = "maker" THEN m ELSE h]
  BY DEF Crash
<1>3. \A o \in OrderNames : record'[o] \in Forgotten(o)
  BY <1>2
<1>4. \A o \in OrderNames :
        \/ record'[o] = record[o]
        \/ record'[o] = NoRecord /\ record[o].state = "unsure" /\ order[o].placed = 0
  BY <1>3 DEF Forgotten
<1>5. NoRecord \in Records /\ NoRecord.state = "none"
  BY NoFillIsEvidence, HedgeBoundsAssumption DEF NoRecord, Records, Lots
<1>6. record' \in [OrderNames -> Records]
  BY <1>0, <1>2, <1>3, <1>4, <1>5 DEF TypeOK
<1>7. RecordsFollow'
  <2> SUFFICES ASSUME NEW o \in OrderNames PROVE RecordFollows(o)'
    BY DEF RecordsFollow
  <2>1. RecordFollows(o)
    BY <1>0 DEF RecordsFollow
  <2>2. CASE record'[o] = record[o]
    BY <2>1, <2>2, <1>1 DEF RecordFollows, View, Closed
  <2>3. CASE record'[o] = NoRecord /\ record[o].state = "unsure" /\ order[o].placed = 0
    BY <2>1, <2>3, <1>1, <1>5 DEF RecordFollows, View, Closed
  <2> QED BY <1>4, <2>2, <2>3
<1>8. Steady
  BY <1>1, <1>4, <1>5 DEF Steady, SteadyAt
<1>9. \A c \in Callers : CallFollows(c)' /\ ~Sending(c)'
  <2> SUFFICES ASSUME NEW c \in Callers PROVE CallFollows(c)' /\ ~Sending(c)'
    OBVIOUS
  <2>1. call'[c] = Idle
    BY <1>1
  <2>2. call'[c].at = "idle" /\ call'[c].on = "maker" /\ call'[c].seen["hedge"] = NoFill
    BY <2>1 DEF Idle
  <2> QED BY <2>2 DEF CallFollows, At, Sending
<1>10. UNCHANGED market
  BY <1>1 DEF market
<1>11. CallsFollow' /\ OneSender'
  BY <1>8, <1>9, <1>10, CallsKept
<1>12. TypeOK'
  <2>1. Idle \in Calls
    BY HedgeBoundsAssumption DEF Idle, Calls, Places, NoFill, Evidences, Lots
  <2>2. faults' \in 0..MaxFaults
    BY <1>0, <1>1, HedgeBoundsAssumption DEF TypeOK
  <2> QED BY <1>0, <1>1, <1>6, <2>1, <2>2 DEF TypeOK
<1>13. HedgeFollows'
  BY <1>4, <1>5, <1>8, <1>10, HedgeKept DEF Inv
<1>14. SettlementFollows'
  <2>1. settlement' \in {settlement, NoSettlement}
    BY <1>1 DEF Inv, SealedFollows
  <2> QED BY <1>0, <1>7, <1>8, <1>10, <1>12, <1>13, <2>1, SettlementKept DEF Inv
<1>15. OutcomesFollow'
  <2>1. record["maker"].state = "none" => record'["maker"].state = "none"
    BY <1>4, <1>5
  <2> QED BY <2>1, <1>1, <1>8, <1>10, OutcomesKept DEF Inv
<1>16. SealedFollows'
  BY <1>1 DEF Inv, SealedFollows
<1> QED BY <1>7, <1>11, <1>12, <1>13, <1>14, <1>15, <1>16 DEF Inv

\* The invariant holds at the start.
LEMMA InitInv == Init => Inv
<1> USE DEF OrderNames
<1> SUFFICES ASSUME Init PROVE Inv
  OBVIOUS
<1>1. /\ NoOrder \in Orders /\ NoRecord \in Records /\ Idle \in Calls
      /\ NoSettlement \in [maker : Int, hedge : Int, known : BOOLEAN] /\ ~NoSettlement.known
      /\ 0 \in 0..MaxFaults
  BY NoFillIsEvidence, HedgeBoundsAssumption
     DEF NoOrder, Orders, NoRecord, Records, Idle, Calls, Places, NoSettlement, Lots
<1>2. TypeOK
  BY <1>1 DEF Init, TypeOK
<1>3. RecordsFollow
  BY DEF Init, RecordsFollow, RecordFollows, NoOrder, NoRecord
<1>4. \A c \in Callers : CallFollows(c) /\ ~Sending(c)
  BY DEF Init, CallFollows, Sending, At, Idle
<1>5. HedgeFollows /\ SettlementFollows /\ SealedFollows /\ OutcomesFollow
  BY <1>1 DEF Init, HedgeFollows, SettlementFollows, SealedFollows, OutcomesFollow, NoRecord
<1> QED BY <1>2, <1>3, <1>4, <1>5 DEF Inv, CallsFollow, OneSender

\* The invariant holds in every state of every behaviour, whatever fails.
THEOREM Invariant == Spec => []Inv
<1>1. Inv /\ [Next]_vars => Inv'
  <2> SUFFICES ASSUME Inv, [Next]_vars PROVE Inv'
    OBVIOUS
  <2>1. ASSUME NEW c \in Callers, Resume(c) \/ Continue(c) \/ Disturb(c) PROVE Inv'
    BY <2>1, ResumeStep, HedgeStep, AcceptedStep, DenyingSteps, ReadsStep, ReadsLateStep,
       EvidenceFailsStep, CancelsStep, CancelUnansweredStep, EndingSteps, SettleStep, ConcludeStep,
       QuietSteps DEF Continue, Disturb
  <2>2. ASSUME NEW o \in OrderNames, Fill(o) \/ Expire(o) PROVE Inv'
    BY <2>2, OutsideSteps
  <2> QED BY <2>1, <2>2, QuietSteps, CrashStep DEF Next
<1> QED BY <1>1, InitInv, PTL DEF Spec

\* Every variable keeps its type; in particular no order is placed more than twice and
\* no call reads more often than its bound (TypeOK).
THEOREM TypeCorrect == Spec => []TypeOK
<1>1. Inv => TypeOK
  BY DEF Inv
<1> QED BY <1>1, Invariant, PTL

\* A maker's fills are hedged by one order of exactly their effect, and only when the
\* maker order can fill no further, for any number of overlapping calls and crashes.
THEOREM ExactHedge == Spec => []HedgeIsExact
<1>1. Inv => HedgeIsExact
  <2> SUFFICES ASSUME Inv, order["hedge"].placed > 0 PROVE
         order["hedge"].placed = 1 /\ Closed("maker") /\ order["hedge"].quantity = Abs(TrueEffect("maker"))
    BY DEF HedgeIsExact
  <2>1. RecordFollows("hedge") /\ HedgeFollows
    BY DEF Inv, RecordsFollow, OrderNames
  <2>2. order["hedge"].placed = 1 /\ record["hedge"].state # "none"
    BY <2>1 DEF RecordFollows
  <2>3. TrueEffect("maker") = FinalEffect("maker")
    BY <2>1, <2>2 DEF HedgeFollows, TrueEffect, FinalEffect, FinalFill
  <2> QED BY <2>1, <2>2, <2>3 DEF RecordFollows, HedgeFollows
<1> QED BY <1>1, Invariant, PTL

\* What a finished order really did, when its adapter did not misreport it.
LEMMA Reported ==
  ASSUME Inv, ~Misreported, NEW o \in OrderNames, Finished(o)
  PROVE  order[o].status # "OPEN" /\ TrueEffect(o) = FinalEffect(o)
<1>1. RecordFollows(o)
  BY DEF Inv, RecordsFollow
<1>2. CASE record[o].state = "denied"
  <2>1. order[o].placed = 0
    BY <1>1, <1>2 DEF Misreported, RecordFollows
  <2> QED BY <1>1, <1>2, <2>1 DEF RecordFollows, TrueEffect, FinalEffect, FinalFill
<1>3. CASE record[o].state = "known" /\ Closed(o)
  BY <1>3 DEF TrueEffect, FinalEffect, FinalFill, Closed
<1> QED BY <1>2, <1>3 DEF Finished

\* Without a hedge there is nothing to report.
LEMMA Unhedged ==
  ASSUME Inv, Abs(FinalEffect("maker")) <= Tolerance
  PROVE  order["hedge"].placed = 0 /\ order["hedge"].status # "OPEN" /\ TrueEffect("hedge") = FinalEffect("hedge")
<1>1. order["hedge"].placed = 0 /\ FinalFill("hedge") = 0
  BY NoHedge DEF Inv
<1> QED BY <1>1 DEF Inv, RecordsFollow, RecordFollows, OrderNames, TrueEffect, FinalEffect

\* Final effects are integers.
LEMMA EffectsAreIntegers ==
  ASSUME TypeOK PROVE FinalEffect("maker") \in Int /\ FinalEffect("hedge") \in Int
BY EffectsAreWhole DEF TypeOK, Orders, FinalEffect, FinalFill, Effect, Lots, OrderNames

\* What is sealed under the dispatch is what the exchanges finally executed, unless an
\* adapter reported a placed order as failed.
THEOREM TrueSettlement == Spec => []SettlementIsTrue
<1>1. Inv => SettlementIsTrue
  <2> SUFFICES ASSUME Inv, settlement.known, ~Misreported
               PROVE  /\ \A o \in OrderNames : order[o].status # "OPEN"
                      /\ settlement.maker = TrueEffect("maker") /\ settlement.hedge = TrueEffect("hedge")
    BY DEF SettlementIsTrue
  <2>1. /\ Finished("maker")
        /\ settlement.maker = FinalEffect("maker") /\ settlement.hedge = FinalEffect("hedge")
        /\ Abs(FinalEffect("maker")) > Tolerance => Finished("hedge")
    BY DEF Inv, SettlementFollows
  <2>2. Abs(FinalEffect("maker")) > Tolerance \/ Abs(FinalEffect("maker")) <= Tolerance
    BY EffectsAreIntegers, Absolute, HedgeBoundsAssumption DEF Inv
  <2>3. order["maker"].status # "OPEN" /\ TrueEffect("maker") = FinalEffect("maker")
    BY <2>1, Reported DEF OrderNames
  <2>4. order["hedge"].status # "OPEN" /\ TrueEffect("hedge") = FinalEffect("hedge")
    BY <2>1, <2>2, Reported, Unhedged DEF OrderNames
  <2> QED BY <2>1, <2>3, <2>4 DEF OrderNames
<1> QED BY <1>1, Invariant, PTL

\* All calls that return an outcome for the dispatch return the same one.
THEOREM AgreedOutcomes == Spec => []OutcomesAgree
<1>1. Inv => OutcomesAgree
  <2> SUFFICES ASSUME Inv PROVE OutcomesAgree
    OBVIOUS
  <2>1. Abs(FinalEffect("maker")) \in Nat /\ Abs(Residual) \in Nat
    BY EffectsAreIntegers, Absolute DEF Inv, Residual
  <2>2. "REJECTED" \in outcomes => ~("COMPLETED" \in outcomes) /\ ~("RECOVERY_REQUIRED" \in outcomes)
    BY <2>1, HedgeBoundsAssumption DEF Inv, OutcomesFollow, Finished
  <2>3. ~("COMPLETED" \in outcomes /\ "RECOVERY_REQUIRED" \in outcomes)
    BY <2>1, HedgeBoundsAssumption DEF Inv, OutcomesFollow
  <2>4. outcomes \subseteq {"REJECTED", "COMPLETED", "RECOVERY_REQUIRED"}
    BY DEF Inv, TypeOK
  <2>5. outcomes = {} \/ \E x \in outcomes : outcomes = {x}
    BY <2>2, <2>3, <2>4
  <2> QED BY <2>5, FS_EmptySet, FS_Singleton DEF OutcomesAgree
<1> QED BY <1>1, Invariant, PTL

\* The invariant relates outcomes and residuals to the exchanges.
LEMMA OutcomesRestOnOrders == Inv => OutcomesAreTrue /\ RecoveryIsTheResidual
<1> SUFFICES ASSUME Inv, ~Misreported PROVE OutcomesAreTrue /\ RecoveryIsTheResidual
  BY DEF OutcomesAreTrue, RecoveryIsTheResidual
<1> USE DEF OrderNames
<1>1. OutcomesFollow
  BY DEF Inv
<1>2. "REJECTED" \in outcomes => Abs(TrueEffect("maker")) <= Tolerance /\ order["hedge"].placed = 0
  <2> SUFFICES ASSUME "REJECTED" \in outcomes
               PROVE  Abs(TrueEffect("maker")) <= Tolerance /\ order["hedge"].placed = 0
    OBVIOUS
  <2>1. CASE record["maker"].state = "none"
    <3>1. order["maker"].filled = 0 /\ record["hedge"].state = "none"
      BY <2>1 DEF Inv, RecordsFollow, RecordFollows, HedgeFollows
    <3>2. order["hedge"].placed = 0
      BY <3>1 DEF Inv, RecordsFollow, RecordFollows
    <3>3. TrueEffect("maker") = 0
      BY <3>1, ZeroEffect DEF TrueEffect, Effect
    <3> QED BY <3>2, <3>3, Absolute, HedgeBoundsAssumption
  <2>2. CASE Finished("maker") /\ Abs(FinalEffect("maker")) <= Tolerance
    BY <2>2, Reported, Unhedged
  <2> QED BY <1>1, <2>1, <2>2 DEF OutcomesFollow
<1>3. "COMPLETED" \in outcomes \/ "RECOVERY_REQUIRED" \in outcomes \/ staged # {} => TrueNet = Residual
  BY <1>1, Reported DEF OutcomesFollow, TrueNet, Residual
<1> QED BY <1>1, <1>2, <1>3 DEF OutcomesFollow, OutcomesAreTrue, RecoveryIsTheResidual

\* REJECTED leaves no position and no hedge, COMPLETED no material net exposure, and
\* RECOVERY_REQUIRED is only reported for one.
THEOREM TrueOutcomes == Spec => []OutcomesAreTrue
BY OutcomesRestOnOrders, Invariant, PTL

\* Every intent staged for shared recovery, for whatever reason a call gave, is for
\* exactly the residual the two orders finally left (there may be two: the reason is
\* part of an intent's identity).
THEOREM ResidualRecovery == Spec => []RecoveryIsTheResidual
BY OutcomesRestOnOrders, Invariant, PTL
=============================================================================
