------------------------------ MODULE ShopDomain ------------------------------
(***************************************************************************)
(* The pure rules of the shop: the order status machine, the statuses of a *)
(* delivery row and of a job, and the rule that picks the supplier of the  *)
(* next attempt.  Everything here is a function of its arguments; the      *)
(* state machines of the other modules call these operators where the code *)
(* calls the functions of shop.domain.                                     *)
(***************************************************************************)
EXTENDS Naturals, Sequences

CONSTANTS
    SupplierChain,  \* suppliers in fallback order, without repetition
    NoSupplier      \* what choose_supplier answers when there is nobody to ask

ChainAssumption ==
    /\ SupplierChain \in Seq(STRING)
    /\ \A i, k \in DOMAIN SupplierChain :
          SupplierChain[i] = SupplierChain[k] => i = k
    /\ NoSupplier \notin {SupplierChain[i] : i \in DOMAIN SupplierChain}

ASSUME ChainAssumption

Suppliers == {SupplierChain[i] : i \in DOMAIN SupplierChain}

-----------------------------------------------------------------------------
(* Order statuses (domain/enums.py) *)

OrderStatus == {"created", "paid", "delivering", "delivered",
                "payment_failed", "out_of_stock", "delivery_failed"}

FINAL_STATUSES == {"delivered", "payment_failed"}

RECOVERABLE_STATUSES == {"out_of_stock", "delivery_failed"}

\* The money is taken and the goods are not handed over.
UNSETTLED_STATUSES == {"paid", "delivering"} \cup RECOVERABLE_STATUSES

\* Mutant: an unpaid order is good enough.
DELIVERABLE_STATUSES_unpaid == {"created", "paid", "delivering",
                                "out_of_stock", "delivery_failed"}

\* The statuses from which a delivery makes sense.
DELIVERABLE_STATUSES == {"paid", "delivering", "out_of_stock", "delivery_failed"}

\* The statuses reachable from each status in one transition.
ALLOWED_TRANSITIONS ==
    [created         |-> {"paid", "payment_failed"},
     paid            |-> {"delivering"},
     delivering      |-> {"delivered", "out_of_stock", "delivery_failed"},
     out_of_stock    |-> {"delivering"},
     delivery_failed |-> {"delivering"},
     delivered       |-> {},
     payment_failed  |-> {}]

is_final(status) == status \in FINAL_STATUSES

can_transition(current, target) == target \in ALLOWED_TRANSITIONS[current]

-----------------------------------------------------------------------------
(* Delivery rows.  "absent" stands for a row that was never inserted.       *)

DeliveryStatus == {"absent", "pending", "succeeded",
                   "known_negative", "unknown", "superseded"}

\* Not asked yet, or asked without learning the answer: ask this one (again).
OpenStatuses == {"absent", "pending", "unknown"}

\* The only statuses from which the chain may go on to the next supplier.
PassedStatuses == {"known_negative", "superseded"}

\* Mutant: an unknown outcome lets the chain go on like a refusal.
choose_supplier_past_unknown(statuses) ==
    LET asked == {i \in DOMAIN SupplierChain :
                    /\ statuses[SupplierChain[i]] \in {"absent", "pending"}
                    /\ \A k \in 1 .. i - 1 :
                          statuses[SupplierChain[k]] \in PassedStatuses \cup {"unknown"}}
    IN  IF asked = {} THEN NoSupplier
        ELSE SupplierChain[CHOOSE i \in asked : TRUE]

\* The supplier at position i is asked when the chain passes over every
\* earlier one and its own row is open; a succeeded row stops the chain.
choose_supplier(statuses) ==
    LET asked == {i \in DOMAIN SupplierChain :
                    /\ statuses[SupplierChain[i]] \in OpenStatuses
                    /\ \A k \in 1 .. i - 1 :
                          statuses[SupplierChain[k]] \in PassedStatuses}
    IN  IF asked = {} THEN NoSupplier
        ELSE SupplierChain[CHOOSE i \in asked : TRUE]

JobState == {"queued", "running", "done", "dead"}

\* The predicate of the partial unique index on active jobs.
ActiveStates == {"queued", "running"}
=============================================================================
