----------------------------- MODULE MCStorefront -----------------------------
(* Values for the constants of Storefront in the runs of TLC. *)
EXTENDS Storefront, TLC

Chain == <<"a", "b">>

\* The catalogue file lists active products only.
Sells(type, price) == [type |-> type, price_minor |-> price, is_active |-> TRUE]

\* Two products of one price and a third of another type; a price goes up past
\* the others or down to that of another, and a product changes its type.
SomeCatalogs ==
    {<<Sells("key", 1), Sells("key", 1), Sells("topup", 2)>>,
     <<Sells("key", 3), Sells("topup", 1), Sells("topup", 1)>>}

\* Both suppliers serve SKU 2.
SharedSkus == [p \in Suppliers |-> IF p = "a" THEN {1, 2} ELSE {2, 3}]
OneKeyAtA == [p \in Suppliers |-> IF p = "a" THEN 1 ELSE 0]

\* Two failures: both suppliers may be out of reach in one sync.
ShelfBudget == [d \in Disturbance |-> IF d = "failure" THEN 2 ELSE 1]
=============================================================================
