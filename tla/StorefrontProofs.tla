--------------------------- MODULE StorefrontProofs ---------------------------
(***************************************************************************)
(* What a walk through a changing shelf shows, for any products, prices,   *)
(* page sizes, workers and suppliers.                                      *)
(***************************************************************************)
EXTENDS Storefront, FiniteSetTheorems, WellFoundedInduction, TLAPS

-----------------------------------------------------------------------------
(* The inductive invariant *)

\* The cursor divides a walk: what was shown lies at it or before it, and of the
\* products that never moved those before it were shown once and the others not.
ShownUpToCursor ==
    walk.at = "next" =>
        \A s \in Skus : \A i \in DOMAIN walk.shown[s] :
            ~Before(walk.cursor, [price_minor |-> walk.shown[s][i], sku |-> s])

SteadyAtCursor ==
    walk.at = "next" =>
        \A s \in steady :
            Len(walk.shown[s]) = IF Before(walk.cursor, PlaceOf(s)) THEN 0 ELSE 1

SteadyOnShelf == walk.at # "nowhere" => steady \subseteq OnShelf(walk.type)

NothingBeforeTheWalk ==
    walk.at = "nowhere" => steady = {} /\ \A s \in Skus : walk.shown[s] = <<>>

WalkInv ==
    /\ ShownUpToCursor
    /\ SteadyAtCursor
    /\ SteadyOnShelf
    /\ NothingBeforeTheWalk
    /\ SteadyShownOnce
    /\ DearerIfShownAgain

-----------------------------------------------------------------------------
(* The order of the shelf *)

\* Before is a strict linear order.
LEMMA BeforeIsLinear ==
    ASSUME NEW p \in Place, NEW q \in Place, NEW r \in Place
    PROVE  /\ ~Before(p, p)
           /\ Before(p, q) /\ Before(q, r) => Before(p, r)
           /\ p = q \/ Before(p, q) \/ Before(q, p)
<1>1. ~Before(p, p) /\ (Before(p, q) /\ Before(q, r) => Before(p, r))
  BY DEF Before, Place
<1>2. p.price_minor = q.price_minor /\ p.sku = q.sku => p = q
  BY DEF Place
<1>3. p = q \/ Before(p, q) \/ Before(q, p)
  BY <1>2 DEF Before, Place
<1> QED BY <1>1, <1>3

\* No two products have one place.
LEMMA PlaceType ==
    ASSUME TypeOK, NEW s \in Skus
    PROVE  /\ PlaceOf(s) \in Place
           /\ PlaceOf(s).sku = s
           /\ PlaceOf(s).price_minor = catalog[s].price_minor
           /\ \A t \in Skus : PlaceOf(s) = PlaceOf(t) => s = t
<1>1. Skus \subseteq Nat
  BY StorefrontAssumption DEF StorefrontAssumption
<1>2. catalog[s].price_minor \in Nat
  BY DEF TypeOK, Listing
<1> QED BY <1>1, <1>2 DEF PlaceOf, Place

\* Products in the order of the shelf, for any three of them.
LEMMA ProductOrder ==
    ASSUME TypeOK, NEW s \in Skus, NEW t \in Skus, NEW u \in Skus
    PROVE  /\ ~Before(PlaceOf(s), PlaceOf(s))
           /\ Before(PlaceOf(s), PlaceOf(t)) /\ Before(PlaceOf(t), PlaceOf(u))
                 => Before(PlaceOf(s), PlaceOf(u))
           /\ s = t \/ Before(PlaceOf(s), PlaceOf(t)) \/ Before(PlaceOf(t), PlaceOf(s))
<1>1. PlaceOf(s) \in Place /\ PlaceOf(t) \in Place /\ PlaceOf(u) \in Place
  BY PlaceType
<1>2. PlaceOf(s) = PlaceOf(t) => s = t
  BY PlaceType
<1> QED BY <1>1, <1>2, BeforeIsLinear

\* The products of a set that come after one of them, and those before it.
After(D, s) == {r \in D : Before(PlaceOf(s), PlaceOf(r))}
Earlier(D, s) == {r \in D : Before(PlaceOf(r), PlaceOf(s))}

LEMMA MinimalSet ==
    ASSUME NEW F, F # {}, NEW D, IsFiniteSet(D), F \subseteq SUBSET D
    PROVE  \E U \in F : \A V \in F : ~(V \subseteq U /\ V # U)
<1>1. F \subseteq FiniteSubsetsOf(D)
  BY FS_FiniteSubsetsOfFinite
<1>2. PICK U \in F : \A V \in F : <<V, U>> \notin StrictSubsetOrdering(D)
  BY <1>1, FS_StrictSubsetOrderingWellFounded, WFMin
<1>3. ASSUME NEW V \in F, V \subseteq U, V # U PROVE FALSE
  BY <1>2, <1>3 DEF StrictSubsetOrdering
<1> QED BY <1>3

\* Every set of products has a last one and a first one.
LEMMA LastAndFirst ==
    ASSUME TypeOK, NEW D \in SUBSET Skus, D # {}
    PROVE  /\ \E m \in D : \A r \in D : ~Before(PlaceOf(m), PlaceOf(r))
           /\ \E m \in D : \A r \in D : ~Before(PlaceOf(r), PlaceOf(m))
<1>1. IsFiniteSet(D)
  BY FS_Subset, StorefrontAssumption DEF StorefrontAssumption
<1>2. \E m \in D : \A r \in D : ~Before(PlaceOf(m), PlaceOf(r))
  <2> DEFINE F == {After(D, s) : s \in D}
  <2>1. F # {} /\ F \subseteq SUBSET D
    BY DEF After
  <2>2. PICK m \in D : \A V \in F : ~(V \subseteq After(D, m) /\ V # After(D, m))
    <3> HIDE DEF F
    <3>1. PICK U \in F : \A V \in F : ~(V \subseteq U /\ V # U)
      BY <1>1, <2>1, MinimalSet
    <3> QED BY <3>1 DEF F
  <2>3. ASSUME NEW r \in D, Before(PlaceOf(m), PlaceOf(r)) PROVE FALSE
    <3>1. After(D, r) \subseteq After(D, m)
      BY <2>3, ProductOrder DEF After
    <3>2. r \in After(D, m) /\ r \notin After(D, r)
      BY <2>3, ProductOrder DEF After
    <3> QED BY <2>2, <3>1, <3>2
  <2> QED BY <2>3
<1>3. \E m \in D : \A r \in D : ~Before(PlaceOf(r), PlaceOf(m))
  <2> DEFINE F == {Earlier(D, s) : s \in D}
  <2>1. F # {} /\ F \subseteq SUBSET D
    BY DEF Earlier
  <2>2. PICK m \in D : \A V \in F : ~(V \subseteq Earlier(D, m) /\ V # Earlier(D, m))
    <3> HIDE DEF F
    <3>1. PICK U \in F : \A V \in F : ~(V \subseteq U /\ V # U)
      BY <1>1, <2>1, MinimalSet
    <3> QED BY <3>1 DEF F
  <2>3. ASSUME NEW r \in D, Before(PlaceOf(r), PlaceOf(m)) PROVE FALSE
    <3>1. Earlier(D, r) \subseteq Earlier(D, m)
      BY <2>3, ProductOrder DEF Earlier
    <3>2. r \in Earlier(D, m) /\ r \notin Earlier(D, r)
      BY <2>3, ProductOrder DEF Earlier
    <3> QED BY <2>2, <3>1, <3>2
  <2> QED BY <2>3
<1> QED BY <1>2, <1>3

\* A page is a beginning of the rows, and all of them when it is not full.
LEMMA PageIsBeginning ==
    ASSUME TypeOK, NEW rows \in SUBSET Skus, NEW n \in Nat \ {0}
    PROVE  LET page == Page(rows, n)
           IN  /\ page \in SUBSET rows /\ IsFiniteSet(page) /\ Cardinality(page) \in Nat
               /\ \A s \in page, r \in rows : Before(PlaceOf(r), PlaceOf(s)) => r \in page
               /\ Cardinality(page) # n => page = rows
               /\ Cardinality(page) = n => page # {}
               /\ page # {} => /\ LastOf(page) \in page
                               /\ \A r \in page : ~Before(PlaceOf(LastOf(page)), PlaceOf(r))
<1> DEFINE page == Page(rows, n)
<1>1. IsFiniteSet(rows)
  BY FS_Subset, StorefrontAssumption DEF StorefrontAssumption
<1>2. page = {s \in rows : Cardinality(Earlier(rows, s)) < n}
  BY DEF Page, Earlier
<1> HIDE DEF page
<1>3. \A s \in rows : IsFiniteSet(Earlier(rows, s)) /\ Cardinality(Earlier(rows, s)) \in Nat
  BY <1>1, FS_Subset, FS_CardinalityType DEF Earlier
<1>4. page \in SUBSET rows /\ IsFiniteSet(page) /\ Cardinality(page) \in Nat
  BY <1>1, <1>2, FS_Subset, FS_CardinalityType
<1>5. ASSUME NEW s \in page, NEW r \in rows, Before(PlaceOf(r), PlaceOf(s))
      PROVE  r \in page
  <2>1. Earlier(rows, r) \in SUBSET Earlier(rows, s)
    BY <1>4, <1>5, ProductOrder DEF Earlier
  <2>2. Cardinality(Earlier(rows, r)) <= Cardinality(Earlier(rows, s))
    BY <1>3, <1>4, <2>1, FS_Subset
  <2> QED BY <1>2, <1>3, <1>4, <2>2
<1>6. ASSUME page # {}
      PROVE  /\ LastOf(page) \in page
             /\ \A r \in page : ~Before(PlaceOf(LastOf(page)), PlaceOf(r))
  BY <1>4, <1>6, LastAndFirst DEF LastOf
<1>7. Cardinality(page) = n => page # {}
  BY FS_EmptySet
<1>8. ASSUME page # rows PROVE Cardinality(page) = n
  <2>1. PICK m \in rows \ page : \A r \in rows \ page : ~Before(PlaceOf(r), PlaceOf(m))
    BY <1>4, <1>8, LastAndFirst
  <2>2. Earlier(rows, m) \in SUBSET page
    BY <2>1 DEF Earlier
  <2>3. Cardinality(page) >= n
    <3>1. Cardinality(Earlier(rows, m)) <= Cardinality(page)
      BY <1>4, <2>2, FS_Subset
    <3> QED BY <1>2, <1>3, <1>4, <2>1, <3>1
  <2>4. page # {}
    BY <2>3, FS_EmptySet
  <2> DEFINE l == LastOf(page)
  <2>5. l \in page /\ \A r \in page : ~Before(PlaceOf(l), PlaceOf(r))
    BY <1>6, <2>4
  <2> HIDE DEF l
  <2>6. page \in SUBSET (Earlier(rows, l) \cup {l})
    BY <1>4, <2>5, ProductOrder DEF Earlier
  <2>7. /\ IsFiniteSet(Earlier(rows, l) \cup {l})
        /\ Cardinality(Earlier(rows, l) \cup {l}) <= n
    <3> DEFINE E == Earlier(rows, l)
    <3>1. IsFiniteSet(E) /\ Cardinality(E) \in Nat /\ Cardinality(E) < n
      BY <1>2, <1>3, <1>4, <2>5
    <3> HIDE DEF E
    <3>2. IsFiniteSet(E \cup {l})
      BY <3>1, FS_AddElement
    <3>3. Cardinality(E \cup {l}) = IF l \in E THEN Cardinality(E) ELSE Cardinality(E) + 1
      BY <3>1, FS_AddElement
    <3>4. Cardinality(E \cup {l}) <= n
      BY <3>1, <3>3
    <3> QED BY <3>2, <3>4 DEF E
  <2>8. Cardinality(page) <= n
    BY <1>4, <2>6, <2>7, FS_Subset, FS_CardinalityType
  <2> QED BY <1>4, <2>3, <2>8
<1> QED BY <1>4, <1>5, <1>6, <1>7, <1>8 DEF page

-----------------------------------------------------------------------------
(* Types *)

LEMMA IdleSync == Idle \in Sync /\ Idle.reachable = 0 /\ Idle.asked = 0
<1>1. Len(SupplierChain) \in Nat
  BY ChainAssumption DEF ChainAssumption
<1> QED BY <1>1 DEF Idle, Sync

LEMMA SpendType ==
    ASSUME TypeOK, NEW d \in Disturbance, Spend(d)
    PROVE  budget' \in [Disturbance -> Nat]
BY DEF TypeOK, Spend

LEMMA AddedType ==
    ASSUME TypeOK, NEW c \in Sync, NEW p \in Suppliers, c.reachable <= c.asked,
           c.asked < Len(SupplierChain)
    PROVE  /\ Added(c, p) \in Sync
           /\ Added(c, p).reachable <= Added(c, p).asked
<1>1. Len(SupplierChain) \in Nat
  BY ChainAssumption DEF ChainAssumption
<1>2. SkusOf[p] \subseteq Skus /\ pool[p] \in Nat
  BY StorefrontAssumption DEF StorefrontAssumption, TypeOK
<1> QED BY <1>1, <1>2 DEF Sync, Added

\* The steps that ask keep the sums of every sync whole.
LEMMA AskingKeepsSync ==
    ASSUME TypeOK, NEW w \in Workers, FetchStock(w) \/ FetchFails(w)
    PROVE  /\ sync' \in [Workers -> Sync]
           /\ \A v \in Workers : sync'[v].reachable <= sync'[v].asked
<1>1. /\ sync[w] \in Sync /\ sync[w].reachable <= sync[w].asked
      /\ sync[w].asked < Len(SupplierChain) /\ Len(SupplierChain) \in Nat
  BY ChainAssumption DEF TypeOK, FetchStock, FetchFails, CanAsk, ChainAssumption
<1>2. CASE FetchStock(w)
  <2> DEFINE p == SupplierChain[sync[w].asked + 1]
             new == Added(sync[w], p)
  <2>1. p \in Suppliers
    <3>1. sync[w].asked + 1 \in DOMAIN SupplierChain
      BY <1>1, ChainAssumption DEF ChainAssumption, Sync
    <3> QED BY <3>1 DEF Suppliers
  <2>2. sync' = [sync EXCEPT ![w] = new]
    BY <1>2 DEF FetchStock
  <2> HIDE DEF p
  <2>3. new \in Sync /\ new.reachable <= new.asked
    BY <1>1, <2>1, AddedType
  <2> HIDE DEF new
  <2> QED BY <2>2, <2>3 DEF TypeOK
<1>3. CASE FetchFails(w)
  <2> DEFINE new == [sync[w] EXCEPT !.asked = @ + 1]
  <2>1. sync' = [sync EXCEPT ![w] = new]
    BY <1>3 DEF FetchFails
  <2>2. new \in Sync /\ new.reachable <= new.asked
    BY <1>1 DEF Sync
  <2> HIDE DEF new
  <2> QED BY <2>1, <2>2 DEF TypeOK
<1> QED BY <1>2, <1>3

\* What a page does to the walk, for the page and its size named.
LEMMA PageInHand ==
    ASSUME TypeOK, GetPage
    PROVE  \E n \in Limits, page \in SUBSET Past(OnShelf(walk.type), walk) :
              /\ n \in Nat \ {0}
              /\ page = Page(Past(OnShelf(walk.type), walk), n)
              /\ walk'.at = IF Cardinality(page) = n THEN "next" ELSE "end"
              /\ walk'.type = walk.type
              /\ walk'.cursor = IF page = {} THEN walk.cursor ELSE PlaceOf(LastOf(page))
              /\ walk'.shown = [s \in Skus |-> IF s \in page
                                   THEN Append(walk.shown[s], catalog[s].price_minor)
                                   ELSE walk.shown[s]]
              /\ walk' \in Walk
<1> DEFINE rows == Past(OnShelf(walk.type), walk)
<1>1. rows \in SUBSET Skus
  BY DEF Past, OnShelf
<1> HIDE DEF rows
<1>2. PICK n \in Limits :
          walk' = [at |-> IF Cardinality(Page(rows, n)) = n THEN "next" ELSE "end",
                   type |-> walk.type,
                   cursor |-> IF Page(rows, n) = {} THEN walk.cursor
                              ELSE PlaceOf(LastOf(Page(rows, n))),
                   shown |-> [s \in Skus |-> IF s \in Page(rows, n)
                                 THEN Append(walk.shown[s], catalog[s].price_minor)
                                 ELSE walk.shown[s]]]
  BY DEF GetPage, rows
<1>3. n \in Nat \ {0}
  BY StorefrontAssumption DEF StorefrontAssumption
<1> DEFINE page == Page(rows, n)
<1>4. page \in SUBSET rows /\ (page # {} => LastOf(page) \in page)
  BY <1>1, <1>3, PageIsBeginning
<1>5. (IF page = {} THEN walk.cursor ELSE PlaceOf(LastOf(page))) \in Place
  <2>1. walk.cursor \in Place
    BY DEF TypeOK, Walk
  <2>2. page # {} => PlaceOf(LastOf(page)) \in Place
    BY <1>1, <1>4, PlaceType
  <2> QED BY <2>1, <2>2
<1>6. [s \in Skus |-> IF s \in page THEN Append(walk.shown[s], catalog[s].price_minor)
                      ELSE walk.shown[s]] \in [Skus -> Seq(Nat)]
  <2> SUFFICES ASSUME NEW s \in Skus
               PROVE  /\ Append(walk.shown[s], catalog[s].price_minor) \in Seq(Nat)
                      /\ walk.shown[s] \in Seq(Nat)
    OBVIOUS
  <2>1. walk.shown[s] \in Seq(Nat) /\ catalog[s].price_minor \in Nat
    BY DEF TypeOK, Walk, Listing
  <2> QED BY <2>1
<1> HIDE DEF page
<1>7. walk' \in Walk
  <2>1. walk.type \in Types \cup {AnyType}
    BY DEF TypeOK, Walk
  <2> QED BY <1>2, <1>5, <1>6, <2>1 DEF Walk, page
<1>8. /\ walk'.at = IF Cardinality(page) = n THEN "next" ELSE "end"
      /\ walk'.type = walk.type
      /\ walk'.cursor = IF page = {} THEN walk.cursor ELSE PlaceOf(LastOf(page))
      /\ walk'.shown = [s \in Skus |-> IF s \in page
                           THEN Append(walk.shown[s], catalog[s].price_minor)
                           ELSE walk.shown[s]]
  BY <1>2 DEF page
<1> QED BY <1>3, <1>4, <1>7, <1>8 DEF page, rows

LEMMA TypeInit == Init => TypeOK
<1> SUFFICES ASSUME Init PROVE TypeOK
  OBVIOUS
<1>1. catalog \in [Skus -> Listing] /\ available \in [Skus -> Nat]
      /\ pool \in [Suppliers -> Nat] /\ budget \in [Disturbance -> Nat]
  BY StorefrontAssumption DEF Init, StorefrontAssumption
<1>2. sync \in [Workers -> Sync] /\ \A w \in Workers : sync[w].reachable <= sync[w].asked
  BY IdleSync DEF Init
<1>3. walk \in Walk /\ walk.at = "nowhere" /\ steady \subseteq Skus
  BY DEF Init, Walk, Place, Start
<1> QED BY <1>1, <1>2, <1>3 DEF TypeOK

LEMMA TypeStep == TypeOK /\ [Next]_vars => TypeOK'
<1> SUFFICES ASSUME TypeOK, [Next]_vars PROVE TypeOK'
  OBVIOUS
<1>1. CASE BeginWalk
  <2>1. PICK type \in Types \cup {AnyType} :
            /\ walk' = [at |-> "first", type |-> type, cursor |-> Start,
                        shown |-> [s \in Skus |-> <<>>]]
            /\ steady' = OnShelf(type)
    BY <1>1 DEF BeginWalk
  <2>2. walk' \in Walk /\ \A s \in Skus : walk'.shown[s] = <<>>
    BY <2>1 DEF Walk, Place, Start
  <2>3. steady' \subseteq Skus
    BY <2>1 DEF OnShelf
  <2> QED BY <1>1, <2>2, <2>3 DEF TypeOK, BeginWalk
<1>2. CASE GetPage
  <2>1. walk' \in Walk /\ walk'.at # "first"
    BY <1>2, PageInHand
  <2> QED BY <1>2, <2>1 DEF TypeOK, GetPage
<1>3. CASE LoadCatalog
  <2>1. catalog' \in [Skus -> Listing]
    BY <1>3, StorefrontAssumption DEF LoadCatalog, StorefrontAssumption
  <2>2. budget' \in [Disturbance -> Nat]
    BY <1>3, SpendType DEF LoadCatalog, Disturbance
  <2>3. steady' \subseteq Skus
    BY <1>3 DEF LoadCatalog, KeepsSteady, TypeOK
  <2> QED BY <1>3, <2>1, <2>2, <2>3 DEF TypeOK, LoadCatalog
<1>4. ASSUME NEW p \in Suppliers, Trade(p) PROVE TypeOK'
  <2>1. budget' \in [Disturbance -> Nat]
    BY <1>4, SpendType DEF Trade, Disturbance
  <2>2. pool' \in [Suppliers -> Nat]
    <3>1. pool[p] \in Nat
      BY DEF TypeOK
    <3>2. PICK n \in {0, pool[p] + 1} \cup (IF pool[p] > 0 THEN {pool[p] - 1} ELSE {}) :
              pool' = [pool EXCEPT ![p] = n]
      BY <1>4 DEF Trade
    <3>3. n \in Nat
      BY <3>1, <3>2
    <3> QED BY <3>2, <3>3 DEF TypeOK
  <2> QED BY <1>4, <2>1, <2>2 DEF TypeOK, Trade
<1>5. ASSUME NEW w \in Workers, SyncStarts(w) PROVE TypeOK'
  <2>1. [sync[w] EXCEPT !.at = "asking"] \in Sync
        /\ [sync[w] EXCEPT !.at = "asking"].reachable <= [sync[w] EXCEPT !.at = "asking"].asked
    <3>1. sync[w] \in Sync /\ sync[w].reachable <= sync[w].asked
      BY DEF TypeOK
    <3> QED BY <3>1 DEF Sync
  <2> DEFINE new == [sync[w] EXCEPT !.at = "asking"]
  <2>2. sync' = [sync EXCEPT ![w] = new]
    BY <1>5 DEF SyncStarts
  <2>3. new \in Sync /\ new.reachable <= new.asked
    BY <2>1
  <2> HIDE DEF new
  <2> QED BY <1>5, <2>2, <2>3 DEF TypeOK, SyncStarts
<1>6. ASSUME NEW w \in Workers, FetchStock(w) \/ FetchFails(w) PROVE TypeOK'
  <2>1. budget' \in [Disturbance -> Nat]
    BY <1>6, SpendType DEF FetchStock, FetchFails, Disturbance, TypeOK
  <2>2. /\ sync' \in [Workers -> Sync]
        /\ \A v \in Workers : sync'[v].reachable <= sync'[v].asked
    BY <1>6, AskingKeepsSync
  <2> QED BY <1>6, <2>1, <2>2 DEF TypeOK, FetchStock, FetchFails
<1>7. ASSUME NEW w \in Workers, SyncSkips(w) PROVE TypeOK'
  BY <1>7, IdleSync DEF TypeOK, SyncSkips
<1>8. ASSUME NEW w \in Workers, SyncWrites(w) PROVE TypeOK'
  <2>1. available' \in [Skus -> Nat]
    BY <1>8 DEF SyncWrites, set_stock, TypeOK, Sync
  <2>2. steady' \subseteq Skus
    BY <1>8 DEF SyncWrites, KeepsSteady, TypeOK
  <2> QED BY <1>8, <2>1, <2>2, IdleSync DEF TypeOK, SyncWrites
<1>9. ASSUME NEW w \in Workers, SyncLost(w) PROVE TypeOK'
  <2>1. budget' \in [Disturbance -> Nat]
    BY <1>9, SpendType DEF SyncLost, Disturbance
  <2> QED BY <1>9, <2>1, IdleSync DEF TypeOK, SyncLost
<1>10. CASE UNCHANGED vars
  BY <1>10 DEF TypeOK, vars
<1> QED BY <1>1, <1>2, <1>3, <1>4, <1>5, <1>6, <1>7, <1>8, <1>9, <1>10 DEF Next, SyncStep

\* Every reachable state of the shelf has its type; no sync counts more suppliers
\* than it has asked (StockSyncService.sync, ProductRepository.shelf).
THEOREM ShelfTypeCorrect == Spec => []TypeOK
BY TypeInit, TypeStep, PTL DEF Spec

-----------------------------------------------------------------------------
(* The walk *)

\* A change of the products moves no product that stays steady.
LEMMA ChangeKeepsWalk ==
    ASSUME TypeOK, WalkInv, walk' = walk, KeepsSteady
    PROVE  WalkInv'
<1>1. \A s \in steady' : /\ s \in steady /\ s \in OnShelf(walk.type)'
                         /\ PlaceOf(s)' = PlaceOf(s)
  BY DEF KeepsSteady, PlaceOf
<1>2. ShownUpToCursor' /\ DearerIfShownAgain'
  BY DEF WalkInv, ShownUpToCursor, DearerIfShownAgain
<1>3. SteadyAtCursor'
  BY <1>1 DEF WalkInv, SteadyAtCursor
<1>4. SteadyOnShelf' /\ NothingBeforeTheWalk' /\ SteadyShownOnce'
  BY <1>1 DEF WalkInv, SteadyOnShelf, NothingBeforeTheWalk, SteadyShownOnce
<1> QED BY <1>2, <1>3, <1>4 DEF WalkInv

\* A step that touches neither products nor walk.
LEMMA IdleKeepsWalk ==
    ASSUME WalkInv, UNCHANGED <<catalog, available, walk, steady>>
    PROVE  WalkInv'
<1>1. OnShelf(walk.type)' = OnShelf(walk.type)
  BY DEF OnShelf
<1>2. \A s : PlaceOf(s)' = PlaceOf(s)
  BY DEF PlaceOf
<1> QED BY <1>1, <1>2 DEF WalkInv, ShownUpToCursor, SteadyAtCursor, SteadyOnShelf,
                          NothingBeforeTheWalk, SteadyShownOnce, DearerIfShownAgain

\* A page goes on where the cursor stands.
LEMMA PageKeepsWalk ==
    ASSUME TypeOK, WalkInv, GetPage
    PROVE  WalkInv'
<1> DEFINE shelf == OnShelf(walk.type)
           rows == Past(shelf, walk)
<1>1. PICK n \in Limits, page \in SUBSET rows :
          /\ n \in Nat \ {0}
          /\ page = Page(rows, n)
          /\ walk'.at = IF Cardinality(page) = n THEN "next" ELSE "end"
          /\ walk'.type = walk.type
          /\ walk'.cursor = IF page = {} THEN walk.cursor ELSE PlaceOf(LastOf(page))
          /\ walk'.shown = [s \in Skus |-> IF s \in page
                               THEN Append(walk.shown[s], catalog[s].price_minor)
                               ELSE walk.shown[s]]
          /\ walk' \in Walk
  BY PageInHand
<1>2. shelf \in SUBSET Skus /\ rows \in SUBSET shelf
  BY DEF OnShelf, Past
<1>3. /\ \A s \in page, r \in rows : Before(PlaceOf(r), PlaceOf(s)) => r \in page
      /\ walk'.at = "end" => page = rows
      /\ walk'.at = "next" => page # {}
      /\ page # {} => /\ LastOf(page) \in page
                      /\ \A r \in page : ~Before(PlaceOf(LastOf(page)), PlaceOf(r))
  BY <1>1, <1>2, PageIsBeginning
<1>4. walk.at \in {"first", "next"} /\ walk'.at \in {"next", "end"}
  BY <1>1 DEF GetPage, Walking
<1>5. walk.at = "next" => rows = {s \in shelf : Before(walk.cursor, PlaceOf(s))}
  BY DEF Past
<1>6. walk.at = "first" => rows = shelf /\ \A s \in Skus : walk.shown[s] = <<>>
  BY DEF Past, TypeOK
<1>7. UNCHANGED <<catalog, available, steady>> /\ steady \subseteq shelf
  BY <1>4 DEF GetPage, WalkInv, SteadyOnShelf
<1>8. walk.cursor \in Place /\ \A s \in Skus : walk.shown[s] \in Seq(Nat)
  BY DEF TypeOK, Walk
<1> HIDE DEF shelf, rows
<1>9. \A s \in Skus : PlaceOf(s) \in Place /\ PlaceOf(s)' = PlaceOf(s)
  BY <1>7, PlaceType DEF PlaceOf
<1>10. \A s \in Skus \ page : walk'.shown[s] = walk.shown[s]
  BY <1>1
<1>11. \A s \in page : walk'.shown[s] = Append(walk.shown[s], catalog[s].price_minor)
  BY <1>1, <1>2
<1>12. \A s \in page : catalog[s].price_minor \in Nat
  BY <1>1, <1>2 DEF TypeOK, Listing
\* What a page shows again has become dearer.
<1>13. ASSUME NEW s \in page, NEW i \in DOMAIN walk.shown[s]
       PROVE  walk.shown[s][i] < catalog[s].price_minor
  <2>1. walk.at = "next" /\ s \in Skus
    BY <1>1, <1>2, <1>4, <1>6
  <2>2. Before(walk.cursor, PlaceOf(s))
    BY <1>5, <2>1
  <2>3. ~Before(walk.cursor, [price_minor |-> walk.shown[s][i], sku |-> s])
    BY <2>1 DEF WalkInv, ShownUpToCursor
  <2>4. walk.shown[s][i] \in Nat
    BY <1>8, <2>1
  <2>5. s \in Nat
    BY <2>1, StorefrontAssumption DEF StorefrontAssumption
  <2> QED BY <1>8, <1>12, <2>2, <2>3, <2>4, <2>5 DEF Before, PlaceOf, Place
<1>14. DearerIfShownAgain'
  <2> SUFFICES ASSUME NEW s \in Skus, NEW i \in DOMAIN walk'.shown[s],
                      NEW k \in DOMAIN walk'.shown[s], i < k
               PROVE  walk'.shown[s][i] < walk'.shown[s][k]
    BY DEF DearerIfShownAgain
  <2>1. CASE s \notin page
    BY <1>10, <2>1 DEF WalkInv, DearerIfShownAgain
  <2>2. CASE s \in page
    <3> DEFINE q == walk.shown[s]
               c == catalog[s].price_minor
    <3>1. q \in Seq(Nat) /\ c \in Nat /\ walk'.shown[s] = Append(q, c)
      BY <1>8, <1>11, <1>12, <2>2
    <3>2. \A j \in DOMAIN q : q[j] < c
      BY <1>13, <2>2
    <3>3. \A j, l \in DOMAIN q : j < l => q[j] < q[l]
      BY DEF WalkInv, DearerIfShownAgain
    <3> HIDE DEF q, c
    <3>4. i \in 1 .. Len(q) + 1 /\ k \in 1 .. Len(q) + 1 /\ i \in 1 .. Len(q)
      BY <3>1
    <3> QED BY <3>1, <3>2, <3>3, <3>4
  <2> QED BY <2>1, <2>2
\* The cursor goes up.
<1>15. ASSUME walk'.at = "next"
       PROVE  /\ LastOf(page) \in Skus /\ LastOf(page) \in page
              /\ walk'.cursor = PlaceOf(LastOf(page))
              /\ walk.at = "next" => Before(walk.cursor, walk'.cursor)
  BY <1>1, <1>2, <1>3, <1>5, <1>15
<1>16. ShownUpToCursor'
  <2> SUFFICES ASSUME walk'.at = "next", NEW s \in Skus, NEW i \in DOMAIN walk'.shown[s]
               PROVE  ~Before(walk'.cursor, [price_minor |-> walk'.shown[s][i], sku |-> s])
    BY DEF ShownUpToCursor
  <2> DEFINE place(p) == [price_minor |-> p, sku |-> s]
  <2>1. s \in Nat
    BY StorefrontAssumption DEF StorefrontAssumption
  <2>2. ASSUME NEW k \in DOMAIN walk.shown[s]
        PROVE  ~Before(walk'.cursor, place(walk.shown[s][k]))
    <3>1. walk.at = "next"
      BY <1>4, <1>6
    <3>2. ~Before(walk.cursor, place(walk.shown[s][k]))
      BY <3>1 DEF WalkInv, ShownUpToCursor
    <3>3. place(walk.shown[s][k]) \in Place
      BY <1>8, <2>1 DEF Place
    <3>4. walk'.cursor \in Place /\ Before(walk.cursor, walk'.cursor)
      BY <1>9, <1>15, <3>1
    <3> HIDE DEF place
    <3> QED BY <1>8, <3>2, <3>3, <3>4, BeforeIsLinear
  <2>3. CASE s \notin page
    BY <1>10, <2>2, <2>3
  <2>4. CASE s \in page
    <3>1. ~Before(walk'.cursor, place(catalog[s].price_minor))
      BY <1>3, <1>15, <2>4 DEF PlaceOf
    <3>2. \/ i \in DOMAIN walk.shown[s] /\ walk'.shown[s][i] = walk.shown[s][i]
          \/ walk'.shown[s][i] = catalog[s].price_minor
      <4> DEFINE q == walk.shown[s]
                 c == catalog[s].price_minor
      <4>1. q \in Seq(Nat) /\ c \in Nat /\ walk'.shown[s] = Append(q, c)
        BY <1>8, <1>11, <1>12, <2>4
      <4> HIDE DEF q, c
      <4>2. i \in 1 .. Len(q) + 1
        BY <4>1
      <4>3. walk'.shown[s][i] = IF i \in DOMAIN q THEN q[i] ELSE c
        BY <4>1, <4>2
      <4> QED BY <4>3 DEF q, c
    <3> QED BY <2>2, <3>1, <3>2
  <2> QED BY <2>3, <2>4
\* What every steady product was shown before the page and after it.
<1>17. ASSUME NEW s \in steady
       PROVE  /\ s \in rows => Len(walk.shown[s]) = 0
              /\ s \notin rows => Len(walk.shown[s]) = 1
  <2>1. s \in shelf /\ s \in Skus
    BY <1>2, <1>7
  <2>2. CASE walk.at = "first"
    BY <1>6, <2>1, <2>2
  <2>3. CASE walk.at = "next"
    <3>1. Len(walk.shown[s]) = IF Before(walk.cursor, PlaceOf(s)) THEN 0 ELSE 1
      BY <2>3 DEF WalkInv, SteadyAtCursor
    <3> QED BY <1>5, <2>1, <2>3, <3>1
  <2> QED BY <1>4, <2>2, <2>3
<1>18. ASSUME NEW s \in steady
       PROVE  /\ s \in page => Len(walk'.shown[s]) = 1
              /\ s \in rows \ page => Len(walk'.shown[s]) = 0
              /\ s \notin rows => Len(walk'.shown[s]) = 1
  <2>1. s \in Skus /\ walk.shown[s] \in Seq(Nat)
    BY <1>2, <1>7, <1>8
  <2>2. s \in page /\ Len(walk.shown[s]) = 0 => Len(walk'.shown[s]) = 1
    <3>1. \A q \in Seq(Nat), c \in Nat : Len(q) = 0 => Len(Append(q, c)) = 1
      OBVIOUS
    <3> QED BY <1>11, <1>12, <2>1, <3>1
  <2>3. s \notin page => walk'.shown[s] = walk.shown[s]
    BY <1>10, <2>1
  <2>4. s \in page => s \in rows
    BY <1>1
  <2>5. s \in page => Len(walk'.shown[s]) = 1
    BY <1>17, <2>2, <2>4
  <2>6. s \in rows \ page => Len(walk'.shown[s]) = 0
    BY <1>17, <2>3
  <2>7. s \notin rows => Len(walk'.shown[s]) = 1
    BY <1>17, <2>3, <2>4
  <2> QED BY <2>5, <2>6, <2>7
<1>19. SteadyShownOnce'
  <2>1. walk'.at = "end" => \A s \in steady : Len(walk'.shown[s]) = 1
    BY <1>3, <1>18
  <2> QED BY <1>7, <2>1 DEF SteadyShownOnce
<1>20. SteadyAtCursor'
  <2> SUFFICES ASSUME walk'.at = "next", NEW s \in steady
               PROVE  Len(walk'.shown[s])
                        = IF Before(walk'.cursor, PlaceOf(s)) THEN 0 ELSE 1
    BY <1>2, <1>7, <1>9 DEF SteadyAtCursor
  <2> DEFINE l == LastOf(page)
  <2>1. /\ l \in page /\ l \in Skus /\ s \in Skus /\ s \in shelf
        /\ walk'.cursor = PlaceOf(l)
    BY <1>2, <1>7, <1>15
  <2>2. s \in page => ~Before(PlaceOf(l), PlaceOf(s))
    BY <1>3
  <2>3. s \in rows \ page => Before(PlaceOf(l), PlaceOf(s))
    <3>1. s \in rows \ page => ~Before(PlaceOf(s), PlaceOf(l)) /\ s # l
      BY <1>3, <2>1
    <3> HIDE DEF l
    <3> QED BY <2>1, <3>1, ProductOrder
  <2>4. s \notin rows => ~Before(PlaceOf(l), PlaceOf(s))
    <3>1. s \notin rows => walk.at = "next" /\ ~Before(walk.cursor, PlaceOf(s))
      BY <1>4, <1>5, <1>6, <2>1
    <3>2. walk.at = "next" => Before(walk.cursor, PlaceOf(l))
      BY <1>15
    <3> HIDE DEF l
    <3> QED BY <1>8, <1>9, <2>1, <3>1, <3>2, BeforeIsLinear
  <2> HIDE DEF l
  <2> QED BY <1>18, <2>1, <2>2, <2>3, <2>4
<1>21. SteadyOnShelf' /\ NothingBeforeTheWalk'
  BY <1>1, <1>4, <1>7 DEF SteadyOnShelf, NothingBeforeTheWalk, OnShelf, shelf
<1> QED BY <1>14, <1>16, <1>19, <1>20, <1>21 DEF WalkInv

\* The first request of a walk starts from nothing.
LEMMA BeginKeepsWalk ==
    ASSUME BeginWalk
    PROVE  WalkInv'
<1>1. PICK type \in Types \cup {AnyType} :
          /\ walk' = [at |-> "first", type |-> type, cursor |-> Start,
                      shown |-> [s \in Skus |-> <<>>]]
          /\ steady' = OnShelf(type) /\ UNCHANGED <<catalog, available>>
  BY DEF BeginWalk
<1>2. SteadyOnShelf'
  BY <1>1 DEF SteadyOnShelf, OnShelf
<1> QED BY <1>1, <1>2 DEF WalkInv, ShownUpToCursor, SteadyAtCursor,
                          NothingBeforeTheWalk, SteadyShownOnce, DearerIfShownAgain

LEMMA WalkInit == Init => WalkInv
BY DEF Init, WalkInv, ShownUpToCursor, SteadyAtCursor, SteadyOnShelf,
       NothingBeforeTheWalk, SteadyShownOnce, DearerIfShownAgain

LEMMA WalkStep == TypeOK /\ WalkInv /\ [Next]_vars => WalkInv'
<1> SUFFICES ASSUME TypeOK, WalkInv, [Next]_vars PROVE WalkInv'
  OBVIOUS
<1>1. CASE BeginWalk
  BY <1>1, BeginKeepsWalk
<1>2. CASE GetPage
  BY <1>2, PageKeepsWalk
<1>3. CASE LoadCatalog
  BY <1>3, ChangeKeepsWalk DEF LoadCatalog
<1>4. ASSUME NEW p \in Suppliers, Trade(p) PROVE WalkInv'
  BY <1>4, IdleKeepsWalk DEF Trade
<1>5. ASSUME NEW w \in Workers, SyncWrites(w) PROVE WalkInv'
  BY <1>5, ChangeKeepsWalk DEF SyncWrites
<1>6. ASSUME NEW w \in Workers,
             SyncStarts(w) \/ FetchStock(w) \/ FetchFails(w) \/ SyncSkips(w) \/ SyncLost(w)
      PROVE  WalkInv'
  BY <1>6, IdleKeepsWalk DEF SyncStarts, FetchStock, FetchFails, SyncSkips, SyncLost
<1>7. CASE UNCHANGED vars
  BY <1>7, IdleKeepsWalk DEF vars
<1> QED BY <1>1, <1>2, <1>3, <1>4, <1>5, <1>6, <1>7 DEF Next, SyncStep

LEMMA WalkInvariant == Spec => []WalkInv
BY WalkInit, WalkStep, ShelfTypeCorrect, PTL DEF Spec

\* Whatever changes under a walk, a product that stays on the shelf at its price is
\* shown exactly once (the keyset cursor of ProductRepository.shelf).
THEOREM SteadyProductsAreShown == Spec => []SteadyShownOnce
<1>1. WalkInv => SteadyShownOnce
  BY DEF WalkInv
<1> QED BY <1>1, WalkInvariant, PTL

\* A walk repeats a product only at a higher price (CatalogService.shelf).
THEOREM RepeatsAreDearer == Spec => []DearerIfShownAgain
<1>1. WalkInv => DearerIfShownAgain
  BY DEF WalkInv
<1> QED BY <1>1, WalkInvariant, PTL

=============================================================================
