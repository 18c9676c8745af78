--------------------------- MODULE PlanExecution ----------------------------
(***************************************************************************)
(* What central LIVE execution promises of the plans it takes in, whatever *)
(* crashes: a plan waits until it is started or its authority lapses, never *)
(* both; one plan executes at a time; and a started plan ends once, with   *)
(* one outcome.                                                            *)
(***************************************************************************)
CONSTANT Plans

VARIABLE status

PlanOutcomes == {"COMPLETED", "REJECTED", "RECOVERY_REQUIRED"}
Statuses == {"new", "waiting", "lapsed", "executing"} \cup PlanOutcomes

StatusOK == status \in [Plans -> Statuses]

Init == status = [p \in Plans |-> "new"]

\* The plan is durably queued.
Submit(p) ==
  /\ status[p] = "new"
  /\ status' = [status EXCEPT ![p] = "waiting"]

\* The window of authority of some waiting plans closes.
Lapse(S) ==
  /\ \A p \in S : status[p] = "waiting"
  /\ status' = [p \in Plans |-> IF p \in S THEN "lapsed" ELSE status[p]]

\* The dispatch is durably journaled; no other plan is executing.
Start(p) ==
  /\ status[p] = "waiting"
  /\ \A q \in Plans : status[q] # "executing"
  /\ status' = [status EXCEPT ![p] = "executing"]

\* The outcome is durably journaled.
Finish(p, outcome) ==
  /\ status[p] = "executing"
  /\ status' = [status EXCEPT ![p] = outcome]

Next ==
  \/ \E p \in Plans : Submit(p) \/ Start(p)
  \/ \E p \in Plans, outcome \in PlanOutcomes : Finish(p, outcome)
  \/ \E S \in SUBSET Plans : Lapse(S)

Spec == Init /\ [][Next]_status
=============================================================================
