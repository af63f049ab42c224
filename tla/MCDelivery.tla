------------------------------ MODULE MCDelivery ------------------------------
(* Values for the constants of Delivery in the runs of TLC. *)
EXTENDS Delivery, TLC

CONSTANTS k1, k2, k3

Chain == <<"a", "b">>

\* A disturbance that is not listed does not happen in the run.
Only(listed) == [d \in Disturbance |-> IF d \in DOMAIN listed THEN listed[d] ELSE 0]

\* One key at each supplier; one more may arrive at the first.
OneKeyEach == [s \in Suppliers |-> IF s = "a" THEN <<k1>> ELSE <<k2>>]
RefillA == [s \in Suppliers |-> IF s = "a" THEN {k3} ELSE {}]
NoRefill == [s \in Suppliers |-> {}]

FaultBudget == Only([crash |-> 1, db_error |-> 1, connect_failed |-> 1,
                     no_answer |-> 1, delayed |-> 1, retry |-> 1])

\* The pools overlap: both suppliers hold k1.
OverlappingKeys == [s \in Suppliers |-> IF s = "a" THEN <<k1>> ELSE <<k1, k2>>]

\* Every disturbance that needs two runs of one order at the same time.
StallBudget == Only([stall |-> 1, no_answer |-> 1, retry |-> 1])

\* Disturbances the design is made for.
CalmBudget == Only([crash |-> 1, db_error |-> 1, no_answer |-> 2, restock |-> 1])

StockBudget == Only([no_answer |-> 1, restock |-> 1])

\* The budgets of the counterexamples.
ConnectBudget == Only([no_answer |-> 1, connect_failed |-> 1])
UnknownBudget == Only([no_answer |-> 2])
LateBudget    == Only([stall |-> 1, no_answer |-> 1])

Symmetric == Permutations(Workers) \cup Permutations(JobIds)
=============================================================================
