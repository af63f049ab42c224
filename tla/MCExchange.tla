------------------------------ MODULE MCExchange ------------------------------
(* Values for the constants of Exchange in the runs of TLC. *)
EXTENDS Exchange, MCDelivery

\* A second key at the first supplier: a repeated request could take it.
TwoKeysAtA == [s \in Suppliers |-> IF s = "a" THEN <<k1, k3>> ELSE <<k2>>]

\* Every disturbance of a single worker but a restock, once each.
WireBudget == Only([crash |-> 1, db_error |-> 1, connect_failed |-> 1,
                    no_answer |-> 1, delayed |-> 1, retry |-> 1])
=============================================================================
