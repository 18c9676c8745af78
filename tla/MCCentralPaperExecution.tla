---- MODULE MCCentralPaperExecution ----
(* Small instances of CentralPaperExecution for TLC. *)
EXTENDS CentralPaperExecution

\* One plan that can be leased twice, and one that only time 0 admits.
MCPlans == {1, 2}
MCExpiry == [p \in MCPlans |-> IF p = 1 THEN 2 ELSE 0]
MCProfits == {-1, 1}

\* A single plan, for the run about the end of one plan.
MCOnePlan == {1}
MCOneExpiry == [p \in MCOnePlan |-> 2]
MCLoss == {-1}
====
