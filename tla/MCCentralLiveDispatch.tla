------------------------ MODULE MCCentralLiveDispatch -----------------------
(* Small instances of CentralLiveDispatch for TLC. *)
EXTENDS CentralLiveDispatch

\* Three plans: one whose authority outlives a lease, and two that only time 0
\* admits and that the capacity of two records may refuse.
MCPlans == {1, 2, 3}
MCExpiry == [p \in MCPlans |-> IF p = 2 THEN 2 ELSE 0]

\* A build that has dropped the handler of the first plan.
MCRedeployments == {{2, 3}}

\* The run with failing appends leaves the third plan out.
MCTwoPlans == {1, 2}
MCTwoExpiry == [p \in MCTwoPlans |-> 2 * (p - 1)]
=============================================================================
