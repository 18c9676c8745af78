------------------------- MODULE StrategyOneTinyLive ------------------------
(***************************************************************************)
(* The controlled LIVE lane of Strategy One: the one-time action           *)
(* authority, the arbitrage coordinator that spends it, the durable        *)
(* two-leg pair session, its recovery resolution and the restart gate.     *)
(*                                                                         *)
(* An attempt is one authority with the pair session it is bound to.  Its  *)
(* two legs go through CentralLiveOrderGateway, which is repeated here     *)
(* only as far as the pair can tell: a leg is sent at most once, what it   *)
(* recorded and what it answers.  The orders are FOK: they fill whole or   *)
(* not at all.                                                             *)
(*                                                                         *)
(* The services share one process and interleave only where one of them    *)
(* awaits; what runs between two awaits is cut into one action per journal *)
(* append, because a crash can get in between.  A journal append happens   *)
(* or fails leaving the file as it was; torn lines are JsonlSnapshotFile's *)
(* subject.  All attempts fall on one day of the daily cap.                *)
(***************************************************************************)
EXTENDS Integers, Sequences, FiniteSets

CONSTANTS
  Attempts,               \* authorities, each with its pair session
  MaximumDailyAttempts,   \* maximumDailyAttempts
  MaxLog,                 \* bound on the journal records of an authority
  MaxRestarts,            \* bound on the number of crashes
  Faults                  \* subset of FaultKinds that may happen

FaultKinds == {"crash", "failedAppend", "lostReply"}

ASSUME AttemptsAssumption == IsFiniteSet(Attempts)
ASSUME TinyLiveBoundsAssumption ==
  /\ MaximumDailyAttempts \in Nat \ {0}
  /\ MaxLog \in Nat /\ MaxRestarts \in Nat
  /\ Faults \subseteq FaultKinds

VARIABLES
  journal,    \* attempt -> the authority's journal records, oldest first
  lapsed,     \* attempts whose preview or authority TTL has passed
  attempt,    \* attempt -> where ArbitrageExecutionCoordinator.execute stands
  session,    \* attempt -> its pair session
  run,        \* attempt -> the executeInternal in flight for it
  writeFailed,\* the pair journal has failed to append since the start
  resolver,   \* attempt -> the resolveSession in flight for it
  resolved,   \* attempts whose resolution fits the present session
  record,     \* attempt -> leg -> the gateway's record
  order,      \* attempt -> leg -> what the exchange holds
  restarts    \* crashes so far

authorityVars == <<journal, lapsed>>
pairVars == <<session, run, writeFailed>>
resolutionVars == <<resolver, resolved>>
gatewayVars == <<record, order>>
vars == <<authorityVars, attempt, pairVars, resolutionVars, gatewayVars, restarts>>

-----------------------------------------------------------------------------
(* The authority's records *)

\* RECOVERY stands for FINALIZED with requiresRecovery.
AuthorityStates == {"PREVIEWED", "AUTHORIZED", "CONSUMED", "PAIR_BOUND",
                    "FINALIZED", "RECOVERY", "RESOLVED", "CANCELLED"}
State(a) == IF journal[a] = <<>> THEN "NONE" ELSE journal[a][Len(journal[a])]
Ever(a, state) == \E i \in DOMAIN journal[a] : journal[a][i] = state

\* What isValidRestoredTransition lets a restart replay.
Allowed(s) == CASE s = "PREVIEWED"  -> {"AUTHORIZED", "CANCELLED"}
                [] s = "AUTHORIZED" -> {"CONSUMED", "CANCELLED"}
                [] s = "CONSUMED"   -> {"PAIR_BOUND", "FINALIZED", "RECOVERY", "RESOLVED"}
                [] s = "PAIR_BOUND" -> {"FINALIZED", "RECOVERY", "RESOLVED"}
                [] s \in {"FINALIZED", "RECOVERY"} -> {"RESOLVED"}
                [] OTHER            -> {}
Replays(log) ==
  /\ log # <<>> => log[1] = "PREVIEWED"
  /\ \A i \in 1..Len(log) - 1 : log[i + 1] \in Allowed(log[i])

Unsettled == {"CONSUMED", "PAIR_BOUND", "RECOVERY"}
hasBlockingAuthority == \E a \in Attempts :
  \/ State(a) = "AUTHORIZED" /\ a \notin lapsed
  \/ State(a) \in Unsettled
dailyAttempts == Cardinality({a \in Attempts : Ever(a, "CONSUMED")})

-----------------------------------------------------------------------------
(* The pair's records *)

Legs == {"buy", "sell"}

\* UNKNOWN: PREPARED or SUBMISSION_UNCERTAIN.  UNSAVED: the same, but the journal
\* says something older.  OPEN: any result that is not final.  FAILED: the
\* adapter's failure, without an order id.
LegRecords == {"NONE", "UNKNOWN", "UNSAVED", "OPEN", "FILLED", "CANCELLED", "FAILED"}
LegOrders == {"NONE", "OPEN", "FILLED", "CANCELLED"}
Final == {"FILLED", "CANCELLED", "FAILED"}

\* What the pair keeps of a gateway response: whether it counts as possible
\* exposure, and the result in its record, if any.
Outcomes == {"NONE", "OPEN"} \cup Final
Answers == [possibleExposure : BOOLEAN, result : Outcomes]
Blocked == [possibleExposure |-> FALSE, result |-> "NONE"]

\* Seeded fault: a gateway call that threw counts as nothing sent.
RejectedCountsAsNothing == [possibleExposure |-> FALSE, result |-> "NONE"]
Rejected == [possibleExposure |-> TRUE, result |-> "NONE"]
Uncertain == [possibleExposure |-> TRUE, result |-> "NONE"]
Incomplete(result) == [possibleExposure |-> TRUE, result |-> result]
Enriched(result) == [possibleExposure |-> result = "OPEN", result |-> result]

SessionStates == {"NONE", "PREPARED", "DISPATCHING", "COMPLETED", "RECOVERY_REQUIRED",
                  "POSSIBLE_EXPOSURE", "FAILED"}

\* Seeded fault: what is being dispatched is left to the run in flight.
UnresolvedAtRest == {"PREPARED", "POSSIBLE_EXPOSURE", "RECOVERY_REQUIRED"}
UNRESOLVED_STATES == {"PREPARED", "DISPATCHING", "POSSIBLE_EXPOSURE", "RECOVERY_REQUIRED"}
Sessions == [state : SessionStates, results : [Legs -> Outcomes]]
NoSession == [state |-> "NONE", results |-> [l \in Legs |-> "NONE"]]

\* fresh: this run may submit; wait: legs whose gateway call is awaited, and what
\* that call is doing; got: the answers so far.
Runs == [at : {"idle", "boundary", "await"} \cup Legs, fresh : BOOLEAN,
         wait : [Legs -> {"no", "create", "poll", "read"}], got : [Legs -> Answers]]
NoRun == [at |-> "idle", fresh |-> FALSE, wait |-> [l \in Legs |-> "no"],
          got |-> [l \in Legs |-> Blocked]]
Starting(fresh) == [NoRun EXCEPT !.at = "boundary", !.fresh = fresh]

\* Nothing is inside a synchronous stretch.
Quiet == \A a \in Attempts :
  /\ attempt[a] \in {"idle", "waiting"}
  /\ run[a].at \in {"idle", "await"}
  /\ resolver[a] \in {"idle", "waiting"}

AppendFails == "failedAppend" \in Faults

Journals(a, state) == journal' = [journal EXCEPT ![a] = Append(@, state)]
Goes(a, step) == attempt' = [attempt EXCEPT ![a] = step]

\* The restart gate.
classificationClean ==
  /\ ~writeFailed
  /\ \A a \in Attempts : session[a].state \in UNRESOLVED_STATES => a \in resolved

\* The canonical preflight counts sessions, resolved or not.
activeAttempts == {a \in Attempts : run[a].at # "idle" \/ session[a].state \in UNRESOLVED_STATES}

Preflight == classificationClean /\ activeAttempts = {}

-----------------------------------------------------------------------------
(* StrategyOneTinyLiveActionAuthorityService: the operator's requests *)

Preview(a) ==
  /\ Quiet /\ State(a) = "NONE"
  /\ ~hasBlockingAuthority
  /\ dailyAttempts < MaximumDailyAttempts
  /\ Preflight
  /\ Journals(a, "PREVIEWED")
  /\ UNCHANGED <<lapsed, attempt, pairVars, resolutionVars, gatewayVars, restarts>>

Lapse(a) ==
  /\ Quiet /\ State(a) \in {"PREVIEWED", "AUTHORIZED"} /\ a \notin lapsed
  /\ lapsed' = lapsed \cup {a}
  /\ UNCHANGED <<journal, attempt, pairVars, resolutionVars, gatewayVars, restarts>>

\* Seeded fault: another attempt that still blocks is not looked for.
AuthorizeRegardless(a) ==
  /\ Quiet /\ State(a) = "PREVIEWED" /\ a \notin lapsed
  /\ dailyAttempts < MaximumDailyAttempts
  /\ Preflight
  /\ Journals(a, "AUTHORIZED")
  /\ UNCHANGED <<lapsed, attempt, pairVars, resolutionVars, gatewayVars, restarts>>

\* Seeded fault: the cap is looked at when previewing only.
AuthorizeUncapped(a) ==
  /\ Quiet /\ State(a) = "PREVIEWED" /\ a \notin lapsed
  /\ ~hasBlockingAuthority
  /\ Preflight
  /\ Journals(a, "AUTHORIZED")
  /\ UNCHANGED <<lapsed, attempt, pairVars, resolutionVars, gatewayVars, restarts>>

Authorize(a) ==
  /\ Quiet /\ State(a) = "PREVIEWED" /\ a \notin lapsed
  /\ ~hasBlockingAuthority
  /\ dailyAttempts < MaximumDailyAttempts
  /\ Preflight
  /\ Journals(a, "AUTHORIZED")
  /\ UNCHANGED <<lapsed, attempt, pairVars, resolutionVars, gatewayVars, restarts>>

\* By the operator, or by the emergency stop for every unused authority.
Cancel(a) ==
  /\ Quiet /\ State(a) \in {"PREVIEWED", "AUTHORIZED"}
  /\ Journals(a, "CANCELLED")
  /\ UNCHANGED <<lapsed, attempt, pairVars, resolutionVars, gatewayVars, restarts>>

\* The state of the authority itself is not looked at.
Resolve(a) ==
  /\ Quiet /\ Len(journal[a]) < MaxLog
  /\ \/ State(a) = "CONSUMED" /\ ~Ever(a, "PAIR_BOUND")
     \/ Ever(a, "PAIR_BOUND") /\ (a \in resolved \/ session[a].state = "NONE")
  /\ Journals(a, "RESOLVED")
  /\ UNCHANGED <<lapsed, attempt, pairVars, resolutionVars, gatewayVars, restarts>>

-----------------------------------------------------------------------------
(* ArbitrageExecutionCoordinator.execute *)

Consume(a) ==
  /\ Quiet /\ State(a) = "AUTHORIZED" /\ a \notin lapsed
  /\ Preflight
  /\ Journals(a, "CONSUMED") /\ Goes(a, "consumed")
  /\ UNCHANGED <<lapsed, pairVars, resolutionVars, gatewayVars, restarts>>

\* Seeded fault: the blocked outcome is recorded as the authority's state.
BlockAsOutcome(a) ==
  /\ attempt[a] = "consumed"
  /\ Journals(a, "BLOCKED") /\ Goes(a, "idle")
  /\ UNCHANGED <<lapsed, pairVars, resolutionVars, gatewayVars, restarts>>

\* The last look, the fee evidence or the wallet reservation blocks, or binding
\* the pair fails: nothing was sent.  The finalization may fail as well.
Block(a) ==
  /\ attempt[a] = "consumed"
  /\ \/ State(a) = "CONSUMED" /\ Journals(a, "FINALIZED")
     \/ AppendFails /\ UNCHANGED journal
  /\ Goes(a, "idle")
  /\ UNCHANGED <<lapsed, pairVars, resolutionVars, gatewayVars, restarts>>

BindPair(a) ==
  /\ attempt[a] = "consumed" /\ State(a) = "CONSUMED"
  /\ Journals(a, "PAIR_BOUND") /\ Goes(a, "bound")
  /\ UNCHANGED <<lapsed, pairVars, resolutionVars, gatewayVars, restarts>>

\* The call of the pair owner, for a session that does not exist: prepare(), up to
\* the dispatch boundary.  A pair that is not the exact one, or a full session map,
\* throws; so does a failed append, which the journal remembers.
Prepare(a) ==
  /\ attempt[a] = "bound" /\ session[a].state = "NONE"
  /\ \/ /\ session' = [session EXCEPT ![a].state = "PREPARED"]
        /\ run' = [run EXCEPT ![a] = Starting(TRUE)]
        /\ Goes(a, "waiting") /\ UNCHANGED writeFailed
     \/ /\ UNCHANGED writeFailed \/ (AppendFails /\ writeFailed' = TRUE)
        /\ Goes(a, "failed") /\ UNCHANGED <<session, run>>
  /\ UNCHANGED <<authorityVars, resolutionVars, gatewayVars, restarts>>

\* Seeded fault: a pair that threw is taken for one that sent nothing.
RequiresRecoveryIfReturned(a) ==
  attempt[a] = "returned" /\ session[a].state \in {"POSSIBLE_EXPOSURE", "RECOVERY_REQUIRED"}

\* POSSIBLE_EXPOSURE or RECOVERY_REQUIRED; an exception counts as exposure.
RequiresRecovery(a) ==
  \/ attempt[a] = "failed"
  \/ session[a].state \in {"POSSIBLE_EXPOSURE", "RECOVERY_REQUIRED"}

Finalize(a) ==
  /\ attempt[a] \in {"returned", "failed"}
  /\ \/ /\ State(a) \in {"CONSUMED", "PAIR_BOUND"}
        /\ Journals(a, IF RequiresRecovery(a) THEN "RECOVERY" ELSE "FINALIZED")
     \/ AppendFails /\ UNCHANGED journal
  /\ Goes(a, "idle")
  /\ UNCHANGED <<lapsed, pairVars, resolutionVars, gatewayVars, restarts>>

-----------------------------------------------------------------------------
(* StrategyOneTwoLegLiveExecutionService.executeInternal *)

\* What waits for the run of a gets its outcome.
Wakes(a, step, ready) ==
  /\ attempt' = [attempt EXCEPT ![a] = IF @ = "waiting" THEN step ELSE @]
  /\ resolver' = [resolver EXCEPT ![a] = IF @ = "waiting" THEN ready ELSE @]

\* The session is written: any resolution of the one before no longer fits.
Writes(a, new) ==
  /\ session' = [session EXCEPT ![a] = new]
  /\ resolved' = resolved \ {a}

\* setAndPersist threw: memory and file keep the session they had.
WriteBreaks(a) ==
  /\ AppendFails /\ writeFailed' = TRUE
  /\ run' = [run EXCEPT ![a] = NoRun]
  /\ Wakes(a, "failed", "idle")
  /\ UNCHANGED <<session, resolved>>

\* Seeded fault: the boundary is taken for recorded.
CrossRegardless(a) ==
  /\ run[a].at = "boundary"
  /\ run' = [run EXCEPT ![a].at = "buy"]
  /\ writeFailed' = (writeFailed \/ AppendFails)
  /\ \/ Writes(a, [session[a] EXCEPT !.state = "DISPATCHING"])
     \/ AppendFails /\ UNCHANGED <<session, resolved>>
  /\ UNCHANGED <<attempt, resolver, authorityVars, gatewayVars, restarts>>

\* Both dispatch boundaries are recorded before either gateway call.
CrossBoundary(a) ==
  /\ run[a].at = "boundary"
  /\ \/ /\ Writes(a, [session[a] EXCEPT !.state = "DISPATCHING"])
        /\ run' = [run EXCEPT ![a].at = "buy"]
        /\ UNCHANGED <<attempt, resolver, writeFailed>>
     \/ WriteBreaks(a)
  /\ UNCHANGED <<authorityVars, gatewayVars, restarts>>

\* The pair's verdict on the two answers.
Fills(result) == result = "FILLED"
mismatch(results) == Fills(results["buy"]) # Fills(results["sell"])
Verdict(got, results) ==
  IF \E l \in Legs : got[l].possibleExposure THEN "POSSIBLE_EXPOSURE"
  ELSE IF mismatch(results) THEN "RECOVERY_REQUIRED"
  ELSE IF Fills(results["buy"]) THEN "COMPLETED" ELSE "FAILED"

FinishPair(a) ==
  LET got == run[a].got
      results == [l \in Legs |-> got[l].result]
  IN
  /\ run[a].at = "await" /\ \A l \in Legs : run[a].wait[l] = "no"
  /\ \/ /\ Writes(a, [state |-> Verdict(got, results), results |-> results])
        /\ run' = [run EXCEPT ![a] = NoRun]
        /\ Wakes(a, "returned", "ready")
        /\ UNCHANGED writeFailed
     \/ WriteBreaks(a)
  /\ UNCHANGED <<authorityVars, gatewayVars, restarts>>

-----------------------------------------------------------------------------
(* CentralLiveOrderExecutionGateway, as the pair sees it *)

Notes(a, l, r) == record' = [record EXCEPT ![a][l] = r]
Answered(a, l, g) == [run EXCEPT ![a].wait[l] = "no", ![a].got[l] = g]

\* The synchronous part of executeOrReconcile for the leg that is called next.
CallLeg(a, l) ==
  LET called(next) == [next EXCEPT ![a].at = IF l = "buy" THEN "sell" ELSE "await"]
      answers(g) == run' = called(Answered(a, l, g)) /\ UNCHANGED record
      waits(kind) == run' = called([run EXCEPT ![a].wait[l] = kind])
      known == record[a][l]
  IN
  /\ run[a].at = l
  /\ \/ known = "NONE" /\ ~run[a].fresh /\ answers(Blocked)
     \/ known = "NONE" /\ run[a].fresh /\ Notes(a, l, "UNKNOWN") /\ waits("create")
     \* not ready, at capacity, or the record was set and not persisted
     \/ known = "NONE" /\ run[a].fresh /\ answers(Rejected)
     \/ /\ known = "NONE" /\ run[a].fresh /\ AppendFails
        /\ Notes(a, l, "UNSAVED") /\ run' = called(Answered(a, l, Rejected))
     \/ known \in {"UNKNOWN", "UNSAVED"} /\ answers(Uncertain)
     \/ known = "FAILED" /\ answers(Enriched("FAILED"))
     \/ known = "FAILED" /\ AppendFails /\ answers(Rejected)
     \/ known \in {"OPEN", "FILLED", "CANCELLED"} /\ waits("read") /\ UNCHANGED record
  /\ UNCHANGED <<authorityVars, attempt, session, writeFailed, resolutionVars, order, restarts>>

\* A result that was recorded is answered as it is, or as evidence that is still
\* incomplete; a record that could not be enriched is no answer.
Tells(result) ==
  {Enriched(result)} \cup (IF result = "FAILED" THEN {} ELSE {Incomplete(result)})
  \cup (IF AppendFails THEN {Rejected} ELSE {})

\* The reply of execute() is recorded, or an invalid reply or a failing append
\* leaves the submission uncertain.
Receives(a, l, result) ==
  \/ Notes(a, l, result) /\ \E g \in Tells(result) : run' = Answered(a, l, g)
  \/ Notes(a, l, "UNKNOWN") /\ run' = Answered(a, l, Uncertain)
  \/ /\ AppendFails /\ \E r \in {"UNKNOWN", "UNSAVED"} : Notes(a, l, r)
     /\ run' = Answered(a, l, Rejected)

Places(a, l) == order' = [order EXCEPT ![a][l] = "OPEN"]

CreateAccepted(a, l) ==
  /\ Quiet /\ run[a].wait[l] = "create"
  /\ Places(a, l) /\ run' = [run EXCEPT ![a].wait[l] = "poll"]
  /\ UNCHANGED <<authorityVars, attempt, session, writeFailed, resolutionVars, record, restarts>>

CreateRefused(a, l) ==
  /\ Quiet /\ run[a].wait[l] = "create"
  /\ Receives(a, l, "FAILED")
  /\ UNCHANGED <<authorityVars, attempt, session, writeFailed, resolutionVars, order, restarts>>

\* The order is accepted and the reply lost, or a poll of it throws.
ReplyLost(a, l) ==
  /\ Quiet /\ "lostReply" \in Faults
  /\ \/ run[a].wait[l] = "create" /\ Places(a, l)
     \/ run[a].wait[l] = "poll" /\ UNCHANGED order
  /\ Receives(a, l, "FAILED")
  /\ UNCHANGED <<authorityVars, attempt, session, writeFailed, resolutionVars, restarts>>

\* The poller sees the final state, or its timeout passes: the order is cancelled,
\* or still open.
PollEnds(a, l) ==
  /\ Quiet /\ run[a].wait[l] = "poll"
  /\ \/ UNCHANGED order
     \/ order[a][l] = "OPEN" /\ order' = [order EXCEPT ![a][l] = "CANCELLED"]
  /\ Receives(a, l, order'[a][l])
  /\ UNCHANGED <<authorityVars, attempt, session, writeFailed, resolutionVars, restarts>>

\* reconcileKnown: the status read is recorded, or it fails and the record keeps
\* the result it had.
ReadEnds(a, l) ==
  /\ Quiet /\ run[a].wait[l] = "read"
  /\ \/ /\ Notes(a, l, order[a][l])
        /\ \E g \in Tells(order[a][l]) : run' = Answered(a, l, g)
     \/ /\ \/ run' = Answered(a, l, Incomplete(record[a][l]))
           \/ AppendFails /\ run' = Answered(a, l, Rejected)
        /\ UNCHANGED record
  /\ UNCHANGED <<authorityVars, attempt, session, writeFailed, resolutionVars, order, restarts>>

\* The exchange fills the order whole or kills it.  No synchronous stretch reads
\* the exchange, so between stretches is often enough.
Decide(a, l) ==
  /\ Quiet /\ order[a][l] = "OPEN"
  /\ \E s \in {"FILLED", "CANCELLED"} : order' = [order EXCEPT ![a][l] = s]
  /\ UNCHANGED <<authorityVars, attempt, pairVars, resolutionVars, record, restarts>>

-----------------------------------------------------------------------------
(* StrategyOneTwoLegRecoveryResolutionService *)

\* Seeded fault: one final leg is enough.
terminalEvidence(results) == \E l \in Legs : results[l] \in Final

terminalBalancedEvidence(results) ==
  (\A l \in Legs : results[l] \in Final) /\ ~mismatch(results)

\* A session that was never dispatched is resolved at once; a settled one needs no
\* reconciliation; any other joins the run in flight or starts one that may not
\* submit.
ResolveSession(a) ==
  /\ Quiet /\ resolver[a] = "idle"
  /\ \/ /\ session[a].state = "PREPARED"
        /\ resolved' = resolved \cup {a}
        /\ UNCHANGED <<resolver, run>>
     \/ /\ session[a].state \in {"COMPLETED", "FAILED"}
        /\ resolver' = [resolver EXCEPT ![a] = "ready"]
        /\ UNCHANGED <<resolved, run>>
     \/ /\ session[a].state \in UNRESOLVED_STATES \ {"PREPARED"}
        /\ resolver' = [resolver EXCEPT ![a] = "waiting"]
        /\ run' = IF run[a].at = "idle" THEN [run EXCEPT ![a] = Starting(FALSE)] ELSE run
        /\ UNCHANGED resolved
  /\ UNCHANGED <<authorityVars, attempt, session, writeFailed, gatewayVars, restarts>>

PersistResolution(a) ==
  /\ resolver[a] = "ready"
  /\ \/ terminalBalancedEvidence(session[a].results) /\ resolved' = resolved \cup {a}
     \/ ~terminalBalancedEvidence(session[a].results) /\ UNCHANGED resolved
     \/ AppendFails /\ UNCHANGED resolved
  /\ resolver' = [resolver EXCEPT ![a] = "idle"]
  /\ UNCHANGED <<authorityVars, attempt, pairVars, gatewayVars, restarts>>

-----------------------------------------------------------------------------
(* The process *)

\* What the gateway's journal may hold of a record that memory calls UNSAVED.
Unsaved == {p \in Attempts \X Legs : record[p[1]][p[2]] = "UNSAVED"}
Older(a, l) == {"UNKNOWN"} \cup (IF order[a][l] = "NONE" THEN {"NONE"} ELSE {"OPEN", order[a][l]})
Reread(older) == [a \in Attempts |-> [l \in Legs |->
  IF <<a, l>> \in Unsaved THEN older[<<a, l>>] ELSE record[a][l]]]

\* A crash and the start after it: an authority journal with a transition the
\* constructor does not allow throws, and the process does not come up.
Restart ==
  /\ "crash" \in Faults /\ restarts < MaxRestarts
  /\ \A a \in Attempts : Replays(journal[a])
  /\ attempt' = [a \in Attempts |-> "idle"]
  /\ run' = [a \in Attempts |-> NoRun] /\ writeFailed' = FALSE
  /\ resolver' = [a \in Attempts |-> "idle"]
  /\ \E older \in [Unsaved -> LegRecords] :
       /\ \A p \in Unsaved : older[p] \in Older(p[1], p[2])
       /\ record' = Reread(older)
  /\ restarts' = restarts + 1
  /\ UNCHANGED <<authorityVars, session, resolved, order>>

Init ==
  /\ journal = [a \in Attempts |-> <<>>] /\ lapsed = {}
  /\ attempt = [a \in Attempts |-> "idle"]
  /\ session = [a \in Attempts |-> NoSession]
  /\ run = [a \in Attempts |-> NoRun] /\ writeFailed = FALSE
  /\ resolver = [a \in Attempts |-> "idle"] /\ resolved = {}
  /\ record = [a \in Attempts |-> [l \in Legs |-> "NONE"]]
  /\ order = [a \in Attempts |-> [l \in Legs |-> "NONE"]]
  /\ restarts = 0

Operator(a) == Preview(a) \/ Lapse(a) \/ Authorize(a) \/ Cancel(a) \/ Resolve(a)
Coordinator(a) == Consume(a) \/ Block(a) \/ BindPair(a) \/ Prepare(a) \/ Finalize(a)
Pair(a) == CrossBoundary(a) \/ FinishPair(a)
Leg(a, l) ==
  \/ CallLeg(a, l) \/ CreateAccepted(a, l) \/ CreateRefused(a, l) \/ ReplyLost(a, l)
  \/ PollEnds(a, l) \/ ReadEnds(a, l) \/ Decide(a, l)
Resolution(a) == ResolveSession(a) \/ PersistResolution(a)

Next ==
  \/ \E a \in Attempts : Operator(a) \/ Coordinator(a) \/ Pair(a) \/ Resolution(a)
  \/ \E a \in Attempts, l \in Legs : Leg(a, l)
  \/ Restart

Spec == Init /\ [][Next]_vars

-----------------------------------------------------------------------------
(* Properties *)

Steps == {"idle", "consumed", "bound", "waiting", "returned", "failed"}

TypeOK ==
  /\ journal \in [Attempts -> Seq(AuthorityStates)] /\ lapsed \in SUBSET Attempts
  /\ attempt \in [Attempts -> Steps]
  /\ session \in [Attempts -> Sessions]
  /\ run \in [Attempts -> Runs] /\ writeFailed \in BOOLEAN
  /\ resolver \in [Attempts -> {"idle", "waiting", "ready"}]
  /\ resolved \in SUBSET Attempts
  /\ record \in [Attempts -> [Legs -> LegRecords]]
  /\ order \in [Attempts -> [Legs -> LegOrders]]
  /\ restarts \in Nat

\* maximumConcurrentAttempts: 1.  At most one attempt is between its consumption
\* and its settlement, although several may be previewed at a time and consume()
\* itself never looks for another.
OneAttemptAtATime == \A a, b \in Attempts :
  State(a) \in Unsettled /\ State(b) \in Unsettled => a = b

\* No more authorities are consumed on a day than the cap, which is looked at
\* before, and never when, an authority is consumed.
DailyCapKept == dailyAttempts <= MaximumDailyAttempts

\* "pairBindingBeforeExchangeDispatch", "journalBeforeAnyExchangeIo": an order at
\* an exchange has a journaled pair binding and a session past its boundary.
DispatchIsAuthorized == \A a \in Attempts :
  (\E l \in Legs : order[a][l] # "NONE") =>
    Ever(a, "PAIR_BOUND") /\ session[a].state \notin {"NONE", "PREPARED"}

\* The gateway settled a leg as failed that the exchange had accepted: see
\* AcceptedOrdersAreNotDenied of the gateway.  What follows leaves it aside.
Denied(a) == \E l \in Legs : record[a][l] = "FAILED" /\ order[a][l] # "NONE"

Balanced(a) ==
  /\ \A l \in Legs : order[a][l] # "OPEN"
  /\ order[a]["buy"] = "FILLED" <=> order[a]["sell"] = "FILLED"

\* possibleExposureBlocksSuccess: an attempt with an open order or with one leg
\* filled keeps blocking every other, through crashes and failed appends, until
\* the exchange has settled it.
ExposureBlocks == \A a \in Attempts :
  ~Balanced(a) /\ ~Denied(a) => State(a) \in Unsettled

\* A pair session that says COMPLETED or FAILED is right about both legs, and
\* stays right.
VerdictsAreTrue == \A a \in Attempts : ~Denied(a) =>
  /\ session[a].state = "COMPLETED" => \A l \in Legs : order[a][l] = "FILLED"
  /\ session[a].state = "FAILED" => \A l \in Legs : order[a][l] \in {"NONE", "CANCELLED"}

\* "clears only on durable terminal balanced evidence": while a resolution fits
\* its session, the two legs are settled and balanced at the exchange.
ResolutionsAreTrue == \A a \in resolved : ~Denied(a) => Balanced(a)

\* The restart gate says CLEAN only when no attempt is exposed.
GateIsHonest == classificationClean => \A a \in Attempts : Balanced(a) \/ Denied(a)

\* "cannot resolve until ... is proven", and a resolved authority is settled: the
\* journal of every authority can be replayed by the next start.
AuthorityJournalReplays == \A a \in Attempts : Replays(journal[a])

\* "explicit evidence-bound resolution is required" for a pair that was prepared
\* and never dispatched: when the gate is CLEAN and nothing runs, the preflight
\* counts no active attempt either.
ResolutionReopens ==
  Quiet /\ classificationClean /\ (\A a \in Attempts : run[a].at = "idle") => activeAttempts = {}

=============================================================================
