------------------------------ MODULE Settlement ------------------------------
(***************************************************************************)
(* What the shop promises about the money of one order whatever happens:   *)
(* crashes, lost answers, requeued jobs of live workers, repeated runs.    *)
(* The money is booked once, on the way out of "created"; the goods are    *)
(* booked once, together with the first code of the order, on the way into *)
(* "delivered"; nothing leaves "delivered" or "payment_failed".  It does   *)
(* NOT promise that a delivered order keeps its code: see Overwrite and    *)
(* ExactlyOnce.                                                            *)
(***************************************************************************)
CONSTANT Orders

VARIABLES
    orderStatus,   \* the status of each order
    ledger,        \* the event types booked for each order
    coded          \* the orders that have a code on record

vars == <<orderStatus, ledger, coded>>

Init == /\ orderStatus = [o \in Orders |-> "created"]
        /\ ledger = [o \in Orders |-> {}]
        /\ coded = {}

\* Order o goes from a status in source to the status target.
Moves(o, source, target) == /\ orderStatus[o] \in source
                            /\ orderStatus' = [orderStatus EXCEPT ![o] = target]

Books(o, event) == /\ event \notin ledger[o]
                   /\ ledger' = [ledger EXCEPT ![o] = @ \cup {event}]

Capture(o) == /\ Moves(o, {"created"}, "paid")
              /\ Books(o, "payment_captured")
              /\ UNCHANGED coded

Void(o) == /\ Moves(o, {"created"}, "payment_failed")
           /\ UNCHANGED <<ledger, coded>>

Start(o) == /\ o \notin coded
            /\ Moves(o, {"paid", "out_of_stock", "delivery_failed"}, "delivering")
            /\ UNCHANGED <<ledger, coded>>

GiveUp(o) == /\ o \notin coded
             /\ \E status \in {"out_of_stock", "delivery_failed"} :
                   Moves(o, {"delivering"}, status)
             /\ UNCHANGED <<ledger, coded>>

Deliver(o) == /\ o \notin coded
              /\ Moves(o, {"delivering"}, "delivered")
              /\ Books(o, "delivery_completed")
              /\ coded' = coded \cup {o}

\* A run that should have ended records its outcome over the delivered order's
\* row, or puts a code there again.
Overwrite(o) == /\ orderStatus[o] = "delivered"
                /\ coded' \in {coded \cup {o}, coded \ {o}}
                /\ UNCHANGED <<orderStatus, ledger>>

Next == \E o \in Orders : \/ Capture(o) \/ Void(o)    \/ Start(o)
                          \/ GiveUp(o)  \/ Deliver(o) \/ Overwrite(o)

Spec == Init /\ [][Next]_vars
=============================================================================
