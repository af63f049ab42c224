------------------------------- MODULE Reports -------------------------------
(***************************************************************************)
(* The journal of postings and the queries of the reconciliation report,   *)
(* as functions of the tables.  Which event types are booked for an order  *)
(* is kept as a set: the unique key (order_id, event_type, account) admits *)
(* each pair of postings once.                                             *)
(***************************************************************************)
EXTENDS ShopDomain, Integers, FiniteSetsExt

CONSTANTS
    Orders,
    amount_minor,  \* the price of each order
    ListLimit,     \* rows that a list of ReconciliationRepository has at most
    LiabilityLimit \* rows that open_liabilities has at most

\* The schema admits any price, an order for nothing among them.
ReportsAssumption ==
    /\ IsFiniteSet(Orders)
    /\ amount_minor \in [Orders -> Int]
    /\ ListLimit \in Nat \ {0}
    /\ LiabilityLimit \in Nat \ {0}

ASSUME ReportsAssumption

-----------------------------------------------------------------------------
(* services/ledger_service.py, repositories/ledger.py *)

LedgerEventType == {"payment_captured", "delivery_completed"}

Entry(o, event, account, amount) ==
    [order_id |-> o, event_type |-> event, account |-> account, amount |-> amount]

\* The money has come in, and with it the duty to hand over the goods.
record_payment(o) ==
    {Entry(o, "payment_captured", "gateway", amount_minor[o]),
     Entry(o, "payment_captured", "order_liability", -amount_minor[o])}

\* The goods are handed over: the duty ends and the revenue is recognised.
record_delivery(o) ==
    {Entry(o, "delivery_completed", "order_liability", amount_minor[o]),
     Entry(o, "delivery_completed", "revenue", -amount_minor[o])}

\* Mutant: the unique key is (order_id, account), so the second posting to the
\* liability is silently dropped.
Entries_one_per_account(ledger) ==
    UNION {(IF "payment_captured" \in ledger[o] THEN record_payment(o) ELSE {})
           \cup (IF "delivery_completed" \in ledger[o]
                THEN {e \in record_delivery(o) : e.account = "revenue"} ELSE {})
             : o \in Orders}

Entries(ledger) ==
    UNION {(IF "payment_captured" \in ledger[o] THEN record_payment(o) ELSE {})
           \cup (IF "delivery_completed" \in ledger[o] THEN record_delivery(o) ELSE {})
             : o \in Orders}

Balance(entries) == MapThenSumSet(LAMBDA e : e.amount, entries)

total_balance(ledger) == Balance(Entries(ledger))

\* What a query with a LIMIT may return of the rows that meet its condition: all
\* of them, or as many as the limit allows.  Which ones is left open: the oldest
\* by updated_at, which is the start of the transaction that wrote the row and is
\* not kept here, or, in a query without ORDER BY, any.
Limited(rows, limit) ==
    IF Cardinality(rows) <= limit THEN {rows} ELSE kSubset(limit, rows)

\* The orders with a liability that is not zero.
Liable(ledger) ==
    {o \in Orders :
        Balance({e \in Entries(ledger) : e.order_id = o /\ e.account = "order_liability"}) # 0}

open_liabilities(ledger) == Limited(Liable(ledger), LiabilityLimit)

-----------------------------------------------------------------------------
(* repositories/reconciliation.py.  Each operator is the set of what its     *)
(* query may return.  coded holds the orders with a succeeded delivery row;  *)
(* young those whose row changed after the threshold; superseded is a set of *)
(* delivery rows, each its order and supplier.                               *)

Owed(orderStatus, paid_at) == {o \in Orders : paid_at[o] /\ orderStatus[o] # "delivered"}

paid_not_delivered(paid_at, orderStatus, young) ==
    Limited(Owed(orderStatus, paid_at) \ young, ListLimit)

delivered_not_paid(paid_at, coded) == Limited({o \in coded : ~paid_at[o]}, ListLimit)

superseded_codes(superseded) == Limited(superseded, ListLimit)

\* ReconciliationReport.healthy.
healthy(report) == /\ report.total_balance = 0
                   /\ report.delivered_not_paid = {}
                   /\ report.superseded_codes = {}
=============================================================================
