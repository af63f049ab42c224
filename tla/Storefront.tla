------------------------------ MODULE Storefront ------------------------------
(***************************************************************************)
(* The shelf of the shop: products with a price and a cached stock.        *)
(*                                                                         *)
(* Every worker copies the suppliers' stock into the products (Stock-      *)
(* SyncService), asking one supplier after the other; a load of the        *)
(* catalogue changes prices and takes products off or on; and a customer   *)
(* walks through the shelf page by page with the cursor of the last item.  *)
(* Each request for a page is one query, so what changes between two of    *)
(* them changes the shelf under the walk.                                  *)
(***************************************************************************)
EXTENDS ShopDomain, FiniteSets

LOCAL INSTANCE Functions

CONSTANTS
    Skus,        \* SKUs, as numbers in the order of their text
    Types,       \* products.type
    AnyType,     \* a walk without the filter by type
    Limits,      \* page sizes a customer asks for
    Workers,     \* worker processes, each with its StockSyncService
    SkusOf,      \* per supplier, the SKUs it serves
    Catalogs,    \* what a load of the catalogue may bring
    StartPool,   \* per supplier, its free keys at the start
    Budget       \* how often each kind of disturbance may happen

(***************************************************************************)
(*   trade        a supplier's pool grows or shrinks                       *)
(*   load         the catalogue is loaded again                            *)
(*   failure      a supplier does not say what it has, or a sync ends      *)
(*                before it has written                                    *)
(***************************************************************************)
Disturbance == {"trade", "load", "failure"}

\* What upsert_many writes for a product.
Listing == [type : Types, price_minor : Nat, is_active : BOOLEAN]

StorefrontAssumption ==
    /\ Skus \subseteq Nat /\ IsFiniteSet(Skus)
    /\ AnyType \notin Types
    /\ Limits \subseteq Nat \ {0}
    /\ SkusOf \in [Suppliers -> SUBSET Skus]
    /\ Catalogs \subseteq [Skus -> Listing] /\ Catalogs # {}
    /\ StartPool \in [Suppliers -> Nat]
    /\ Budget \in [Disturbance -> Nat]

ASSUME StorefrontAssumption

VARIABLES
    catalog,   \* products: type, price_minor, is_active
    available, \* products.available_count
    pool,      \* keys each supplier has left
    sync,      \* per worker, where StockSyncService.sync stands
    walk,      \* the customer: filter, cursor, and the prices each SKU was shown at
    steady,    \* SKUs on the walk's shelf at one price ever since it began
    budget     \* disturbances left

vars == <<catalog, available, pool, sync, walk, steady, budget>>

Spend(d) ==
    /\ budget[d] > 0
    /\ budget' = [budget EXCEPT ![d] = @ - 1]

-----------------------------------------------------------------------------
(* The page query *)

OnShelf(type) ==
    {s \in Skus : /\ catalog[s].is_active
                  /\ available[s] > 0
                  /\ type \in {AnyType, catalog[s].type}}

\* A position of the shelf's order, also the content of a cursor.
Place == [price_minor : Nat, sku : Nat]
Start == [price_minor |-> 0, sku |-> 0]   \* stands for no cursor: see Past

PlaceOf(s) == [price_minor |-> catalog[s].price_minor, sku |-> s]

Before(p, q) ==
    \/ p.price_minor < q.price_minor
    \/ p.price_minor = q.price_minor /\ p.sku < q.sku

\* Mutant: the cursor's own row is not excluded.
Past_from_cursor(shelf, walking) ==
    {s \in shelf : walking.at = "first" \/ ~Before(PlaceOf(s), walking.cursor)}

\* Mutant: the cursor compares prices only.
Past_by_price(shelf, walking) ==
    {s \in shelf : \/ walking.at = "first"
                   \/ walking.cursor.price_minor < catalog[s].price_minor}

\* The rows the WHERE clause leaves; a request without a cursor has all of them.
Past(shelf, walking) ==
    {s \in shelf : walking.at = "first" \/ Before(walking.cursor, PlaceOf(s))}

\* ORDER BY price_minor, sku LIMIT n.
Page(rows, n) ==
    {s \in rows : Cardinality({r \in rows : Before(PlaceOf(r), PlaceOf(s))}) < n}

LastOf(page) == CHOOSE s \in page : \A r \in page : ~Before(PlaceOf(s), PlaceOf(r))

-----------------------------------------------------------------------------
(* The customer's walk *)

\* A page in hand with a next_cursor, or the last one.
Walk == [at : {"nowhere", "first", "next", "end"}, type : Types \cup {AnyType},
         cursor : Place, shown : [Skus -> Seq(Nat)]]

Walking == walk.at \in {"first", "next"}

BeginWalk ==
    /\ walk.at = "nowhere"
    /\ \E type \in Types \cup {AnyType} :
          /\ walk' = [at |-> "first", type |-> type, cursor |-> Start,
                      shown |-> [s \in Skus |-> <<>>]]
          /\ steady' = OnShelf(type)
    /\ UNCHANGED <<catalog, available, pool, sync, budget>>

GetPage ==
    /\ Walking
    /\ \E n \in Limits :
          LET page == Page(Past(OnShelf(walk.type), walk), n)
          IN  walk' = [at |-> IF Cardinality(page) = n THEN "next" ELSE "end",
                       type |-> walk.type,
                       cursor |-> IF page = {} THEN walk.cursor ELSE PlaceOf(LastOf(page)),
                       shown |-> [s \in Skus |->
                                     IF s \in page
                                     THEN Append(walk.shown[s], catalog[s].price_minor)
                                     ELSE walk.shown[s]]]
    /\ UNCHANGED <<catalog, available, pool, sync, steady, budget>>

\* The SKUs of the shelf that a change of the products leaves where they are.
KeepsSteady ==
    steady' = {s \in steady : /\ s \in OnShelf(walk.type)'
                              /\ catalog'[s].price_minor = catalog[s].price_minor}

\* upsert_many, in one statement; it leaves available_count alone.
LoadCatalog ==
    /\ Spend("load")
    /\ catalog' \in Catalogs
    /\ UNCHANGED <<available, pool, sync, walk>>
    /\ KeepsSteady

-----------------------------------------------------------------------------
(* Stock *)

\* A sync asks the chain in turn: how many it has asked, and what they said.
Sync == [at : {"idle", "asking"}, asked : 0 .. Len(SupplierChain), total_available : Nat,
         skus : SUBSET Skus, reachable : Nat]
Idle == [at |-> "idle", asked |-> 0, total_available |-> 0, skus |-> {}, reachable |-> 0]

\* Keys are issued, drained or restocked.
Trade(p) ==
    /\ Spend("trade")
    /\ \E n \in {0, pool[p] + 1} \cup (IF pool[p] > 0 THEN {pool[p] - 1} ELSE {}) :
          pool' = [pool EXCEPT ![p] = n]
    /\ UNCHANGED <<catalog, available, sync, walk, steady>>

SyncStarts(w) ==
    /\ sync[w].at = "idle"
    /\ sync' = [sync EXCEPT ![w].at = "asking"]
    /\ UNCHANGED <<catalog, available, pool, walk, steady, budget>>

\* Mutant: the last supplier's stock stands for all.
Added_last(sums, p) ==
    [at |-> "asking", asked |-> sums.asked + 1, total_available |-> pool[p],
     skus |-> sums.skus \cup SkusOf[p], reachable |-> sums.reachable + 1]

\* Mutant: SKUs are counted as suppliers.
Added_per_sku(sums, p) ==
    [at |-> "asking", asked |-> sums.asked + 1,
     total_available |-> sums.total_available + pool[p],
     skus |-> sums.skus \cup SkusOf[p],
     reachable |-> sums.reachable + Cardinality(SkusOf[p])]

\* The sums once one more supplier has said what it has.
Added(sums, p) ==
    [at |-> "asking", asked |-> sums.asked + 1,
     total_available |-> sums.total_available + pool[p],
     skus |-> sums.skus \cup SkusOf[p], reachable |-> sums.reachable + 1]

CanAsk(w) == sync[w].at = "asking" /\ sync[w].asked < Len(SupplierChain)

FetchStock(w) ==
    /\ CanAsk(w)
    /\ sync' = [sync EXCEPT ![w] = Added(@, SupplierChain[@.asked + 1])]
    /\ UNCHANGED <<catalog, available, pool, walk, steady, budget>>

\* The answer is None: the supplier is left out.
FetchFails(w) ==
    /\ CanAsk(w)
    /\ Spend("failure")
    /\ sync' = [sync EXCEPT ![w].asked = @ + 1]
    /\ UNCHANGED <<catalog, available, pool, walk, steady>>

\* All were asked and none answered: nothing is written.
SyncSkips(w) ==
    /\ sync[w].at = "asking" /\ sync[w].asked = Len(SupplierChain)
    /\ sync[w].reachable = 0
    /\ sync' = [sync EXCEPT ![w] = Idle]
    /\ UNCHANGED <<catalog, available, pool, walk, steady, budget>>

set_stock(skus, n) == [s \in Skus |-> IF s \in skus THEN n ELSE available[s]]

SyncWrites(w) ==
    /\ sync[w].at = "asking" /\ sync[w].asked = Len(SupplierChain)
    /\ sync[w].reachable > 0
    /\ available' = set_stock(sync[w].skus, sync[w].total_available)
    /\ sync' = [sync EXCEPT ![w] = Idle]
    /\ UNCHANGED <<catalog, pool, walk, budget>>
    /\ KeepsSteady

\* An error that _safe swallows, or the end of the process.
SyncLost(w) ==
    /\ sync[w].at = "asking"
    /\ Spend("failure")
    /\ sync' = [sync EXCEPT ![w] = Idle]
    /\ UNCHANGED <<catalog, available, pool, walk, steady>>

-----------------------------------------------------------------------------
(* The specification *)

Init ==
    /\ catalog \in Catalogs
    /\ available = [s \in Skus |-> 0]
    /\ pool = StartPool
    /\ sync = [w \in Workers |-> Idle]
    /\ walk = [at |-> "nowhere", type |-> AnyType, cursor |-> Start,
               shown |-> [s \in Skus |-> <<>>]]
    /\ steady = {}
    /\ budget = Budget

\* What Worker.run does by itself.
SyncStep(w) == SyncStarts(w) \/ FetchStock(w) \/ SyncSkips(w) \/ SyncWrites(w)

Next ==
    \/ BeginWalk \/ GetPage \/ LoadCatalog
    \/ \E p \in Suppliers : Trade(p)
    \/ \E w \in Workers : SyncStep(w) \/ FetchFails(w) \/ SyncLost(w)

Spec == Init /\ [][Next]_vars

(***************************************************************************)
(* The loop of a live worker comes back to the sync, and every request of  *)
(* a sync ends within the client's timeouts.                               *)
(***************************************************************************)
FairSpec == Spec /\ \A w \in Workers : WF_vars(SyncStep(w))

-----------------------------------------------------------------------------
(* Properties *)

\* Type correctness; a sync never counts more suppliers than it has asked, and a
\* walk that has no page yet has shown nothing (StockSyncService.sync, shelf).
TypeOK ==
    /\ catalog \in [Skus -> Listing]
    /\ available \in [Skus -> Nat]
    /\ pool \in [Suppliers -> Nat]
    /\ sync \in [Workers -> Sync]
    /\ walk \in Walk
    /\ steady \subseteq Skus
    /\ budget \in [Disturbance -> Nat]
    /\ \A w \in Workers : sync[w].reachable <= sync[w].asked
    /\ walk.at = "first" => \A s \in Skus : walk.shown[s] = <<>>

\* What changes under a walk costs it nothing else: a product that stays on the
\* shelf at its price from the first page to the last is shown, and shown once,
\* whatever page sizes are asked for and whatever comes, goes or moves around it
\* (the cursor over (price_minor, sku) in ProductRepository.shelf).
SteadyShownOnce ==
    walk.at = "end" => \A s \in steady : Len(walk.shown[s]) = 1

\* A walk shows a product again only when it has become dearer in between: the
\* cursor goes up and never back (CatalogService.shelf's next_cursor).
DearerIfShownAgain ==
    \A s \in Skus : \A i, k \in DOMAIN walk.shown[s] :
        i < k => walk.shown[s][i] < walk.shown[s][k]

Served == UNION {SkusOf[p] : p \in Suppliers}
TotalStock == FoldFunction(+, 0, pool)

\* The cached stock catches up: after a finite number of trades, loads, suppliers
\* that do not answer and syncs that fail, every SKU that some supplier serves
\* shows the keys of all suppliers together, for good, although several workers
\* write totals they have read at different times (StockSyncService.sync).
StockCatchesUp == <>[](\A s \in Served : available[s] = TotalStock)
=============================================================================
