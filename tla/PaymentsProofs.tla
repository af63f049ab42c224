---------------------------- MODULE PaymentsProofs ----------------------------
(***************************************************************************)
(* Theorems about Payments, for every set of orders, events, requests and  *)
(* sweepers, every content of the events and every budget of disturbances. *)
(***************************************************************************)
EXTENDS Payments, FiniteSetTheorems, WellFoundedInduction, TLAPS

-----------------------------------------------------------------------------
(* What the invariant says between a transaction's steps *)

\* A request knows what it learnt, and what it inserted is its own: the event
\* is not stored yet, and no other request has inserted it.
Inserted(r) ==
    LET q == requests[r]
    IN  /\ q.pc \in {"insert", "lookup"} => q.found = "nothing"
        /\ q.pc = "commit" => q.found \in {"missing", "order"}
        /\ Uncommitted(r) =>
              /\ q.pc # "lookup" => q.found \in {"missing", "order"}
              /\ events[q.event] = "absent"
              /\ \A p \in Requests \ {r} :
                    Uncommitted(p) => requests[p].event # q.event

\* The request holds the lock of order o and has read its row.
Holds(r, o) == /\ Uncommitted(r)
               /\ requests[r].found = "order"
               /\ payload[requests[r].event].order_id = o

\* The row that a request has read under the lock is still the order's row, and
\* nobody else holds the lock.
ReadIsCurrent ==
    \A r \in Requests, o \in Orders :
        Holds(r, o) => /\ o \in exists
                       /\ requests[r].order = OrderRow(o)
                       /\ \A p \in Requests \ {r} : ~Holds(p, o)

\* The events a creation has listed wait for it: nobody else judges them before
\* the order is there.
ListIsPending ==
    \A o \in Orders :
        creating[o].pc = "commit" =>
            /\ o \notin exists
            /\ \A i \in DOMAIN creating[o].list : creating[o].list[i] \in Pending(o)
            /\ \A i, k \in DOMAIN creating[o].list :
                  creating[o].list[i] = creating[o].list[k] => i = k

\* An order that is not paid has no entry in the ledger.
NothingBooked == \A o \in Orders : orderStatus[o] = "created" => ledger[o] = {}

IInv == /\ \A r \in Requests : Inserted(r)
        /\ ReadIsCurrent
        /\ ListIsPending
        /\ NothingBooked
        /\ OneEventDecides

-----------------------------------------------------------------------------
(* The verdict on one event *)

Undecided == {"absent", "orphan"}

\* What the payload of an event is made of.
LEMMA PayloadType ==
    ASSUME NEW e \in Events
    PROVE  /\ payload[e] \in Payload
           /\ payload[e].order_id \in Orders
           /\ payload[e].status \in {"paid", "failed"}
           /\ payload[e].amount_matches \in BOOLEAN
           /\ payload[e].occurred_at \in Nat \ {0}
BY PaymentsAssumption DEF PaymentsAssumption, Payload

\* The order an event makes is decided.
LEMMA MarkedType ==
    ASSUME NEW e \in Events
    PROVE  /\ marked(e) \in Order
           /\ marked(e).status = IF payload[e].status = "paid" THEN "paid"
                                 ELSE "payment_failed"
           /\ marked(e).last = payload[e].occurred_at
BY PayloadType DEF marked, Order, OrderStatus

\* The verdicts, and what each of them says about the order and the event.
LEMMA ApplyMeans ==
    ASSUME NEW order \in Order, NEW e \in Events
    PROVE  /\ apply(order, e) \in Rejections \cup {"applied"}
           /\ apply(order, e) = "applied" =>
                 /\ order.status = "created"
                 /\ payload[e].status = "paid" => payload[e].amount_matches
           /\ apply(order, e) = "amount_mismatch" =>
                 payload[e].status = "paid" /\ ~payload[e].amount_matches
           /\ apply(order, e) = "stale_event" => payload[e].occurred_at < order.last
           /\ apply(order, e) \in {"not_applicable", "already_paid"} =>
                 order.status \notin {"created", "payment_failed"}
           /\ order.status = "created" /\ order.last = 0 /\ payload[e].amount_matches =>
                 apply(order, e) = "applied"
BY PayloadType
DEF apply, is_final, is_stale, Rejections, FINAL_STATUSES, Order

\* An undecided event is neither applied nor rejected.
LEMMA VerdictsDecide ==
    /\ Rejections \cap Undecided = {}
    /\ "applied" \notin Rejections \cup Undecided
    /\ Rejections \cup Undecided \cup {"applied"} = EventState
BY DEF Rejections, Undecided, EventState

-----------------------------------------------------------------------------
(* What a transaction that judges a list of events writes *)

\* A list of different events of order o that nobody has judged.
Judgeable(o, list) ==
    /\ DOMAIN list \subseteq Nat
    /\ \A i \in DOMAIN list : list[i] \in OfOrder(o) /\ events[list[i]] \in Undecided
    /\ \A i, k \in DOMAIN list : list[i] = list[k] => i = k

\* No event of the list changes the order.
TurnsAway(o, list) ==
    /\ UNCHANGED orderVars
    /\ \A e \in Events : \/ events'[e] = events[e]
                         \/ /\ events'[e] = apply(OrderRow(o), e)
                            /\ events'[e] \in Rejections

\* Event d takes the order; the others are judged by the order before or after.
Takes(o, list, d) ==
    /\ d \in OfOrder(o)
    /\ events[d] \in Undecided
    /\ apply(OrderRow(o), d) = "applied"
    /\ events'[d] = "applied"
    /\ \A e \in Events \ {d} :
          \/ events'[e] = events[e]
          \/ /\ events'[e] \in {apply(OrderRow(o), e), apply(marked(d), e)}
             /\ events'[e] \in Rejections
    /\ orderStatus' = [orderStatus EXCEPT ![o] = marked(d).status]
    /\ lastEventAt' = [lastEventAt EXCEPT ![o] = payload[d].occurred_at]
    /\ IF payload[d].status = "paid"
       THEN /\ ledger' = [ledger EXCEPT ![o] = @ \cup {"payment_captured"}]
            /\ jobs' = jobs \cup {o}
       ELSE UNCHANGED <<ledger, jobs>>

Judges(o, list) ==
    /\ events' \in [Events -> EventState]
    /\ \A e \in Events : \/ events'[e] = events[e]
                         \/ /\ e \in OfOrder(o)
                            /\ events[e] \in Undecided
                            /\ \E i \in DOMAIN list : list[i] = e
    /\ TurnsAway(o, list) \/ \E d \in Events : Takes(o, list, d)

\* Every set of positions has a first one.
LEMMA FirstPosition ==
    ASSUME NEW S \in SUBSET Nat, S # {}
    PROVE  \E m \in S : \A k \in S : m <= k
<1>1. PICK m \in S : \A k \in S : <<k, m>> \notin OpToRel(<, Nat)
  BY NatLessThanWellFounded, WFMin
<1>2. \A k \in S : ~(k < m)
  BY <1>1 DEF OpToRel
<1> QED
  BY <1>2

\* The loop over the events of a new order, written as the loop it is: each event
\* is judged by the row that the events before it left.  However many there are,
\* OrderAfter is the row it ends with and Judgement its verdicts
\* (payment_service.py:apply_pending_orphans).
THEOREM LoopInClosedForm ==
    ASSUME NEW order \in Order, NEW list \in Seq(Events), NEW row, NEW verdict,
           row[0] = order,
           \A i \in 1 .. Len(list) :
               /\ verdict[i] = apply(row[i - 1], list[i])
               /\ row[i] = IF verdict[i] = "applied" THEN marked(list[i]) ELSE row[i - 1]
    PROVE  /\ row[Len(list)] = OrderAfter(order, list)
           /\ \A i \in DOMAIN list : verdict[i] = Judgement(order, list, i)
<1> DEFINE T == Takers(order, list)
           d == Decisive(order, list)
           RowAt(n) == IF T = {} \/ n < d THEN order ELSE marked(list[d])
<1>1. /\ DOMAIN list = 1 .. Len(list) /\ Len(list) \in Nat
      /\ \A i \in 1 .. Len(list) : list[i] \in Events
  OBVIOUS
<1>2. T # {} => /\ d \in 1 .. Len(list)
                /\ apply(order, list[d]) = "applied"
                /\ \A k \in 1 .. Len(list) : apply(order, list[k]) = "applied" => d <= k
  <2> SUFFICES ASSUME T # {}
               PROVE  d \in T /\ \A k \in T : d <= k
    BY <1>1 DEF Takers
  <2>1. T \in SUBSET Nat
    BY <1>1 DEF Takers
  <2>2. \E i \in T : \A k \in T : i <= k
    BY <2>1, FirstPosition
  <2> QED
    BY <2>2 DEF Decisive
<1>3. T = {} => \A k \in 1 .. Len(list) : apply(order, list[k]) # "applied"
  BY <1>1 DEF Takers
<1>4. T # {} => \A e \in Events : apply(marked(list[d]), e) # "applied"
  <2> SUFFICES ASSUME T # {}, NEW e \in Events
               PROVE  apply(marked(list[d]), e) # "applied"
    OBVIOUS
  <2>1. marked(list[d]) \in Order /\ marked(list[d]).status # "created"
    BY <1>1, <1>2, MarkedType
  <2> QED
    BY <2>1, ApplyMeans
<1> HIDE DEF T, d
<1>5. ASSUME NEW i \in 1 .. Len(list), row[i - 1] = RowAt(i - 1)
      PROVE  row[i] = RowAt(i)
  <2>1. list[i] \in Events
    BY <1>1
  <2>2. row[i] = IF apply(row[i - 1], list[i]) = "applied" THEN marked(list[i]) ELSE row[i - 1]
    OBVIOUS
  <2>3. CASE T = {}
    BY <1>3, <1>5, <2>2, <2>3
  <2>4. CASE T # {} /\ i < d
    <3>1. apply(order, list[i]) # "applied" /\ i - 1 < d
      BY <1>2, <2>4
    <3> QED
      BY <1>5, <2>2, <2>4, <3>1
  <2>5. CASE T # {} /\ i = d
    <3>1. row[i - 1] = order
      BY <1>2, <1>5, <2>5
    <3> QED
      BY <1>2, <2>2, <2>5, <3>1
  <2>6. CASE T # {} /\ i > d
    <3>1. row[i - 1] = marked(list[d])
      BY <1>2, <1>5, <2>6
    <3> QED
      BY <1>2, <1>4, <2>1, <2>2, <2>6, <3>1
  <2> QED
    BY <1>2, <2>3, <2>4, <2>5, <2>6
<1>6. row[0] = RowAt(0)
  BY <1>2
<1> HIDE DEF RowAt
<1>7. \A n \in 0 .. Len(list) : row[n] = RowAt(n)
  <2> DEFINE S == {n \in 0 .. Len(list) : row[n] # RowAt(n)}
  <2> SUFFICES ASSUME S # {} PROVE FALSE
    OBVIOUS
  <2>1. S \in SUBSET Nat
    OBVIOUS
  <2>2. PICK m \in S : \A k \in S : m <= k
    BY <2>1, FirstPosition
  <2>3. m \in 1 .. Len(list) /\ m - 1 \in 0 .. Len(list)
    BY <1>1, <1>6
  <2>4. m - 1 \notin S
    BY <2>2, <2>3
  <2> QED
    BY <1>5, <2>3, <2>4
<1>8. row[Len(list)] = OrderAfter(order, list)
  BY <1>1, <1>2, <1>7 DEF OrderAfter, RowAt, T, d
<1>9. ASSUME NEW i \in DOMAIN list
      PROVE  verdict[i] = Judgement(order, list, i)
  <2>1. i \in 1 .. Len(list) /\ i - 1 \in 0 .. Len(list)
    BY <1>1
  <2>2. verdict[i] = apply(RowAt(i - 1), list[i])
    BY <1>7, <2>1
  <2>3. CASE T = {}
    BY <2>2, <2>3 DEF RowAt, Judgement, T
  <2>4. CASE T # {}
    <3>1. d \in Nat /\ i \in Nat /\ (i - 1 < d <=> i <= d)
      BY <1>2, <2>1, <2>4
    <3> QED
      BY <2>2, <2>4, <3>1 DEF RowAt, Judgement, OrderAfter, T, d
  <2> QED
    BY <2>3, <2>4
<1> QED
  BY <1>8, <1>9

\* The row of an order is well typed.
LEMMA OrderRowType ==
    ASSUME TypeOK, NEW o \in Orders
    PROVE  /\ OrderRow(o) \in Order
           /\ OrderRow(o).status = orderStatus[o]
           /\ OrderRow(o).last = lastEventAt[o]
BY DEF TypeOK, OrderRow, Order

\* Settles does what the loop over the events is meant to do: the first event the
\* order takes decides it, and every other one of the list is rejected.
LEMMA SettlesJudges ==
    ASSUME TypeOK, NEW o \in Orders, NEW list, Judgeable(o, list),
           Settles(o, OrderRow(o), list)
    PROVE  Judges(o, list)
<1> DEFINE row == OrderRow(o)
           Listed(e) == \E i \in DOMAIN list : list[i] = e
           At(e) == CHOOSE i \in DOMAIN list : list[i] = e
<1>1. row \in Order
  BY OrderRowType
<1>2. \A i \in DOMAIN list : /\ list[i] \in Events
                             /\ i \in Nat
  BY DEF Judgeable, OfOrder
<1>3. \A e \in Events : Listed(e) => /\ At(e) \in DOMAIN list
                                     /\ list[At(e)] = e
                                     /\ e \in OfOrder(o)
                                     /\ events[e] \in Undecided
  BY DEF Judgeable
<1>4. /\ events' = [e \in Events |-> IF Listed(e) THEN Judgement(row, list, At(e)) ELSE events[e]]
      /\ IF OrderAfter(row, list) = row THEN UNCHANGED <<orderStatus, lastEventAt>>
         ELSE /\ orderStatus' = [orderStatus EXCEPT ![o] = OrderAfter(row, list).status]
              /\ lastEventAt' = [lastEventAt EXCEPT ![o] = OrderAfter(row, list).last]
      /\ IF OrderAfter(row, list) # row /\ OrderAfter(row, list).status = "paid"
         THEN /\ ledger' = [ledger EXCEPT ![o] = @ \cup {"payment_captured"}]
              /\ jobs' = jobs \cup {o}
         ELSE UNCHANGED <<ledger, jobs>>
  BY DEF Settles
<1> HIDE DEF row, At
<1>5. CASE Takers(row, list) = {}
  <2>1. OrderAfter(row, list) = row
    BY <1>5 DEF OrderAfter
  <2>2. \A e \in Events : Listed(e) => /\ Judgement(row, list, At(e)) = apply(row, e)
                                       /\ apply(row, e) \in Rejections
    <3> SUFFICES ASSUME NEW e \in Events, Listed(e)
                 PROVE  /\ Judgement(row, list, At(e)) = apply(row, e)
                        /\ apply(row, e) \in Rejections
      OBVIOUS
    <3>1. Judgement(row, list, At(e)) = apply(row, e)
      BY <1>3, <1>5 DEF Judgement
    <3>2. apply(row, e) # "applied"
      BY <1>3, <1>5 DEF Takers
    <3> QED
      BY <1>1, <3>1, <3>2, ApplyMeans
  <2>3. events' \in [Events -> EventState]
    BY <1>4, <2>2, VerdictsDecide DEF TypeOK
  <2>4. UNCHANGED orderVars
    BY <1>4, <2>1 DEF orderVars
  <2>5. TurnsAway(o, list)
    BY <1>4, <2>2, <2>4 DEF TurnsAway, row
  <2>6. \A e \in Events : events'[e] = events[e] \/ Listed(e)
    BY <1>4
  <2> QED
    BY <1>3, <2>3, <2>5, <2>6 DEF Judges
<1>6. CASE Takers(row, list) # {}
  <2> DEFINE n == Decisive(row, list)
             d == list[n]
  <2>1. /\ n \in DOMAIN list
        /\ apply(row, d) = "applied"
        /\ \A k \in DOMAIN list : apply(row, list[k]) = "applied" => n <= k
    <3>1. Takers(row, list) \in SUBSET Nat
      BY <1>2 DEF Takers
    <3>2. \E i \in Takers(row, list) : \A k \in Takers(row, list) : i <= k
      BY <1>6, <3>1, FirstPosition
    <3>3. n \in Takers(row, list) /\ \A k \in Takers(row, list) : n <= k
      BY <3>2 DEF Decisive
    <3> QED
      BY <3>3 DEF Takers
  <2>2. d \in Events /\ OrderAfter(row, list) = marked(d)
    BY <1>2, <1>6, <2>1 DEF OrderAfter
  <2>3. row.status = "created" /\ marked(d) \in Order /\ marked(d) # row
        /\ marked(d).status # "created"
    BY <1>1, <2>1, <2>2, ApplyMeans, MarkedType
  <2>4. Listed(d) /\ At(d) = n
    BY <1>3, <2>1, <2>2 DEF Judgeable
  <2>5. events'[d] = "applied"
    BY <1>4, <2>1, <2>2, <2>4 DEF Judgement
  <2>6. ASSUME NEW e \in Events \ {d}, Listed(e)
        PROVE  /\ Judgement(row, list, At(e)) \in {apply(row, e), apply(marked(d), e)}
               /\ Judgement(row, list, At(e)) \in Rejections
    <3>1. At(e) \in DOMAIN list /\ list[At(e)] = e /\ At(e) # n
      BY <1>3, <2>6, <2>4
    <3>2. CASE At(e) <= n
      <4>1. Judgement(row, list, At(e)) = apply(row, e)
        BY <3>1, <3>2 DEF Judgement
      <4>2. apply(row, e) # "applied"
        BY <1>2, <2>1, <3>1, <3>2
      <4> QED
        BY <1>1, <4>1, <4>2, ApplyMeans
    <3>3. CASE ~(At(e) <= n)
      <4>1. Judgement(row, list, At(e)) = apply(marked(d), e)
        BY <1>6, <2>2, <3>1, <3>3 DEF Judgement
      <4> QED
        BY <2>3, <4>1, ApplyMeans
    <3> QED
      BY <3>2, <3>3
  <2> HIDE DEF n, d
  <2>7. events' \in [Events -> EventState]
    <3>1. \A e \in Events : events'[e] \in EventState
      BY <1>4, <2>5, <2>6, VerdictsDecide DEF TypeOK
    <3> QED
      BY <1>4, <3>1
  <2>8. /\ orderStatus' = [orderStatus EXCEPT ![o] = marked(d).status]
        /\ lastEventAt' = [lastEventAt EXCEPT ![o] = payload[d].occurred_at]
        /\ IF payload[d].status = "paid"
           THEN /\ ledger' = [ledger EXCEPT ![o] = @ \cup {"payment_captured"}]
                /\ jobs' = jobs \cup {o}
           ELSE UNCHANGED <<ledger, jobs>>
    BY <1>4, <2>2, <2>3, MarkedType
  <2>9. d \in OfOrder(o) /\ events[d] \in Undecided
    BY <1>3, <2>2, <2>4
  <2>10. \A e \in Events \ {d} :
            \/ events'[e] = events[e]
            \/ /\ events'[e] \in {apply(row, e), apply(marked(d), e)}
               /\ events'[e] \in Rejections
    BY <1>4, <2>6
  <2>11. Takes(o, list, d)
    BY <2>1, <2>5, <2>8, <2>9, <2>10 DEF Takes, row
  <2>12. \A e \in Events : events'[e] = events[e] \/ Listed(e)
    BY <1>4
  <2> QED
    BY <1>3, <2>2, <2>7, <2>11, <2>12 DEF Judges
<1> QED
  BY <1>5, <1>6

-----------------------------------------------------------------------------
(* Type correctness *)

\* What a pending list is: a list of different events, all of them waiting.
LEMMA PendingListType ==
    ASSUME NEW o \in Orders, NEW list \in PendingLists(o)
    PROVE  /\ list \in Seq(Events)
           /\ \A i \in DOMAIN list : list[i] \in Pending(o)
           /\ Judgeable(o, list)
<1> DEFINE n == Cardinality(Pending(o))
<1>1. Pending(o) \in SUBSET Events /\ Pending(o) \subseteq OfOrder(o)
  BY DEF Pending, OfOrder
<1>2. n \in Nat
  BY <1>1, FS_Subset, FS_CardinalityType, PaymentsAssumption DEF PaymentsAssumption
<1> HIDE DEF n
<1>3. /\ list \in [1 .. n -> Pending(o)]
      /\ \A i, k \in 1 .. n : i < k => list[i] # list[k]
  BY DEF PendingLists, n
<1>4. DOMAIN list = 1 .. n /\ \A i \in 1 .. n : list[i] \in Pending(o)
  BY <1>3
<1>5. list \in Seq(Events)
  BY <1>1, <1>2, <1>3
<1>6. \A i, k \in DOMAIN list : list[i] = list[k] => i = k
  BY <1>2, <1>3, <1>4
<1> QED
  BY <1>1, <1>2, <1>4, <1>5, <1>6 DEF Judgeable, Pending, Undecided

\* A request is idle or carries an event and an order row.
LEMMA RequestType ==
    ASSUME TypeOK, NEW r \in Requests, requests[r].pc # "idle"
    PROVE  /\ requests[r] \in [pc : {"insert", "lookup", "commit", "reply"},
                               event : Events,
                               found : {"nothing", "duplicate", "missing", "order"},
                               order : Order]
           /\ requests[r].event \in Events
           /\ payload[requests[r].event].order_id \in Orders
           /\ requests[r].order \in Order
<1>1. requests[r] \in Request
  BY DEF TypeOK
<1> QED
  BY <1>1, PayloadType DEF Request, NoRequest

LEMMA SpendType ==
    ASSUME TypeOK, NEW d \in Disturbance, Spend(d)
    PROVE  budget' \in [Disturbance -> Nat]
BY DEF Spend, TypeOK

\* What judging a list leaves of the types.
LEMMA JudgesType ==
    ASSUME TypeOK, NEW o \in Orders, NEW list, Judges(o, list)
    PROVE  /\ events' \in [Events -> EventState]
           /\ orderStatus' \in [Orders -> OrderStatus]
           /\ lastEventAt' \in [Orders -> Nat]
           /\ ledger' \in [Orders -> SUBSET {"payment_captured", "delivery_completed"}]
           /\ jobs' \subseteq Orders
<1>1. CASE TurnsAway(o, list)
  BY <1>1 DEF Judges, TurnsAway, TypeOK, orderVars
<1>2. ASSUME NEW d \in Events, Takes(o, list, d)
      PROVE  /\ orderStatus' \in [Orders -> OrderStatus]
             /\ lastEventAt' \in [Orders -> Nat]
             /\ ledger' \in [Orders -> SUBSET {"payment_captured", "delivery_completed"}]
             /\ jobs' \subseteq Orders
  <2>1. marked(d).status \in OrderStatus /\ payload[d].occurred_at \in Nat
    BY MarkedType, PayloadType DEF Order
  <2> QED
    BY <1>2, <2>1 DEF Takes, TypeOK
<1> QED
  BY <1>1, <1>2 DEF Judges

LEMMA RowEquals ==
    ASSUME NEW order \in Order, NEW o \in Orders, order.status = orderStatus[o],
           order.last = lastEventAt[o]
    PROVE  order = OrderRow(o)
BY DEF Order, OrderRow

-----------------------------------------------------------------------------
(* The parts of the invariant that are about requests and creations *)

\* Outside request r, what the requests rely on stays as it is: their events
\* are still missing and the rows they have read still there.
WorldStays(P) ==
    \A p \in P :
        Uncommitted(p) =>
            /\ events'[requests[p].event] = "absent"
            /\ \A o \in Orders :
                  Holds(p, o) => /\ o \in exists'
                                 /\ OrderRow(o)' = OrderRow(o)

LEMMA SameWorld ==
    ASSUME IInv, UNCHANGED <<exists, orderVars, events>>
    PROVE  WorldStays(Requests)
BY DEF WorldStays, IInv, Inserted, ReadIsCurrent, OrderRow, orderVars

LEMMA RequestsStay ==
    ASSUME IInv, UNCHANGED requests, WorldStays(Requests)
    PROVE  (\A r \in Requests : Inserted(r)') /\ ReadIsCurrent'
<1>1. \A r \in Requests : Uncommitted(r)' <=> Uncommitted(r)
  BY DEF Uncommitted
<1>2. \A r \in Requests, o \in Orders : Holds(r, o)' <=> Holds(r, o)
  BY <1>1 DEF Holds
<1>3. \A r \in Requests : Inserted(r)'
  BY <1>1 DEF IInv, Inserted, WorldStays
<1>4. ASSUME NEW r \in Requests, NEW o \in Orders, Holds(r, o)
      PROVE  o \in exists' /\ OrderRow(o)' = OrderRow(o)
  BY <1>4 DEF WorldStays, Holds
<1>5. ReadIsCurrent'
  BY <1>2, <1>4 DEF IInv, ReadIsCurrent
<1> QED
  BY <1>3, <1>5

\* A step of one request: its own part of the invariant is enough.
LEMMA RequestStep ==
    ASSUME TypeOK, IInv, NEW r \in Requests, NEW q, Step(r, q),
           WorldStays(Requests \ {r}), Inserted(r)',
           \A o \in Orders : Holds(r, o)' => /\ o \in exists'
                                             /\ q.order = OrderRow(o)'
                                             /\ \A p \in Requests \ {r} : ~Holds(p, o)
    PROVE  (\A p \in Requests : Inserted(p)') /\ ReadIsCurrent'
<1>1. /\ requests'[r] = q
      /\ \A p \in Requests \ {r} : requests'[p] = requests[p]
  BY DEF Step, TypeOK
<1>2. \A p \in Requests \ {r} : Uncommitted(p)' <=> Uncommitted(p)
  BY <1>1 DEF Uncommitted
<1>3. \A p \in Requests \ {r}, o \in Orders : Holds(p, o)' <=> Holds(p, o)
  BY <1>1, <1>2 DEF Holds
<1>4. \A p \in Requests : Inserted(p)'
  <2> SUFFICES ASSUME NEW p \in Requests \ {r} PROVE Inserted(p)'
    OBVIOUS
  <2>1. /\ requests'[p].pc \in {"insert", "lookup"} => requests'[p].found = "nothing"
        /\ requests'[p].pc = "commit" => requests'[p].found \in {"missing", "order"}
    BY <1>1 DEF IInv, Inserted
  <2>2. ASSUME Uncommitted(p)'
        PROVE  /\ requests'[p].pc # "lookup" => requests'[p].found \in {"missing", "order"}
               /\ events'[requests'[p].event] = "absent"
               /\ \A s \in Requests \ {p} :
                     Uncommitted(s)' => requests'[s].event # requests'[p].event
    <3>1. Uncommitted(p)
      BY <1>2, <2>2
    <3>2. \A s \in Requests \ {p, r} :
              Uncommitted(s)' => requests'[s].event # requests'[p].event
      BY <1>1, <1>2, <3>1 DEF IInv, Inserted
    <3>3. Uncommitted(r)' => requests'[r].event # requests'[p].event
      BY <2>2 DEF Inserted
    <3> QED
      BY <1>1, <3>1, <3>2, <3>3 DEF IInv, Inserted, WorldStays
  <2> QED
    BY <2>1, <2>2 DEF Inserted
<1>5. ASSUME NEW p \in Requests \ {r}, NEW o \in Orders, Holds(p, o)
      PROVE  /\ o \in exists'
             /\ requests'[p].order = OrderRow(o)'
             /\ \A s \in Requests \ {p} : ~Holds(s, o)'
  <2>1. o \in exists' /\ OrderRow(o)' = OrderRow(o)
    BY <1>5 DEF WorldStays, Holds
  <2>2. requests'[p].order = OrderRow(o)'
    BY <1>1, <1>5, <2>1 DEF IInv, ReadIsCurrent
  <2>3. \A s \in Requests \ {p, r} : ~Holds(s, o)'
    BY <1>3, <1>5 DEF IInv, ReadIsCurrent
  <2>4. ~Holds(r, o)'
    BY <1>5
  <2> QED
    BY <2>1, <2>2, <2>3, <2>4
<1>6. ReadIsCurrent'
  BY <1>1, <1>3, <1>5 DEF ReadIsCurrent
<1> QED
  BY <1>4, <1>6

\* The lists of the creations under way stay what they are.
LEMMA ListsStay ==
    ASSUME IInv,
           \A o \in Orders :
               creating'[o].pc = "commit" =>
                   /\ creating'[o] = creating[o]
                   /\ o \notin exists'
                   /\ \A e \in Pending(o) : events'[e] = "orphan"
    PROVE  ListIsPending'
<1> SUFFICES ASSUME NEW o \in Orders, creating'[o].pc = "commit"
             PROVE  /\ o \notin exists'
                    /\ \A i \in DOMAIN creating'[o].list : creating'[o].list[i] \in Pending(o)'
                    /\ \A i, k \in DOMAIN creating'[o].list :
                          creating'[o].list[i] = creating'[o].list[k] => i = k
  BY DEF ListIsPending
<1>1. creating'[o] = creating[o] /\ creating[o].pc = "commit" /\ o \notin exists'
  OBVIOUS
<1>2. \A e \in Pending(o) : e \in Pending(o)'
  BY DEF Pending, OfOrder
<1> QED
  BY <1>1, <1>2 DEF IInv, ListIsPending

\* Judging events disturbs no request that does not hold the order, and no
\* creation of an order that is not there.
LEMMA JudgesWorld ==
    ASSUME TypeOK, IInv, NEW o \in Orders, NEW list, Judges(o, list),
           NEW P \in SUBSET Requests,
           \A p \in P : ~Holds(p, o),
           \A p \in P : Uncommitted(p) => \A i \in DOMAIN list : list[i] # requests[p].event,
           exists \subseteq exists'
    PROVE  WorldStays(P)
<1> SUFFICES ASSUME NEW p \in P, Uncommitted(p)
             PROVE  /\ events'[requests[p].event] = "absent"
                    /\ \A u \in Orders : Holds(p, u) => u \in exists' /\ OrderRow(u)' = OrderRow(u)
  BY DEF WorldStays
<1>1. requests[p].event \in Events /\ events[requests[p].event] = "absent"
  BY RequestType DEF IInv, Inserted, Uncommitted
<1>2. events'[requests[p].event] = "absent"
  BY <1>1 DEF Judges
<1>3. ASSUME NEW u \in Orders, Holds(p, u)
      PROVE  u \in exists' /\ OrderRow(u)' = OrderRow(u)
  <2>1. u # o /\ u \in exists
    BY <1>3 DEF IInv, ReadIsCurrent
  <2>2. orderStatus'[u] = orderStatus[u] /\ lastEventAt'[u] = lastEventAt[u]
    <3>1. CASE TurnsAway(o, list)
      BY <3>1 DEF TurnsAway, orderVars
    <3>2. ASSUME NEW d \in Events, Takes(o, list, d)
          PROVE  orderStatus'[u] = orderStatus[u] /\ lastEventAt'[u] = lastEventAt[u]
      BY <2>1, <3>2 DEF Takes, TypeOK
    <3> QED
      BY <3>1, <3>2 DEF Judges
  <2> QED
    BY <2>1, <2>2 DEF OrderRow
<1> QED
  BY <1>2, <1>3

-----------------------------------------------------------------------------
(* The parts about the orders *)

\* Nothing is judged: an event may be stored, to wait for its order.
NothingJudged ==
    /\ UNCHANGED <<orderVars, coded, exists>>
    /\ events' \in [Events -> EventState]
    /\ \A e \in Events : \/ events'[e] = events[e]
                         \/ events[e] = "absent" /\ events'[e] = "orphan"

\* A list of events of an order that is there by then is judged.
OneOrderJudged ==
    \E o \in Orders : \E list :
        /\ Judgeable(o, list)
        /\ Judges(o, list)
        /\ exists' = exists \cup {o}
        /\ UNCHANGED coded

\* The orders waiting for payment are as they were created.
LEMMA WaitingOrder ==
    ASSUME TypeOK, IInv, NEW o \in Orders, orderStatus[o] = "created"
    PROVE  /\ Applied(o) = {}
           /\ lastEventAt[o] = 0
           /\ o \notin jobs
           /\ ledger[o] = {}
BY DEF IInv, OneEventDecides, NothingBooked

\* An order that is not there yet has the row it will be created with.
LEMMA MissingOrder ==
    ASSUME TypeOK, IInv, NEW o \in Orders, o \notin exists
    PROVE  /\ orderStatus[o] = "created"
           /\ OrderRow(o) = NewOrder
BY DEF IInv, OneEventDecides, OrderRow, NewOrder

LEMMA QuietOrders ==
    ASSUME TypeOK, IInv, NothingJudged
    PROVE  OneEventDecides' /\ NothingBooked'
<1>1. \A o \in Orders : Applied(o)' = Applied(o)
  BY DEF NothingJudged, Applied, OfOrder
<1> QED
  BY <1>1 DEF IInv, OneEventDecides, NothingBooked, NothingJudged, orderVars, OfOrder

LEMMA JudgedOrders ==
    ASSUME TypeOK, IInv, OneOrderJudged
    PROVE  OneEventDecides' /\ NothingBooked'
<1>0. PICK o \in Orders : \E list : /\ Judgeable(o, list)
                                    /\ Judges(o, list)
                                    /\ exists' = exists \cup {o}
  BY DEF OneOrderJudged
<1>1. PICK list : /\ Judgeable(o, list)
                  /\ Judges(o, list)
                  /\ exists' = exists \cup {o}
  BY <1>0
<1>2. CASE TurnsAway(o, list)
  <2>1. \A p \in Orders : Applied(p)' = Applied(p)
    BY <1>1, <1>2, VerdictsDecide DEF Judges, TurnsAway, Applied, OfOrder
  <2> QED
    BY <1>1, <1>2, <2>1 DEF IInv, OneEventDecides, NothingBooked, TurnsAway, orderVars,
       OfOrder
<1>3. ASSUME NEW d \in Events, Takes(o, list, d)
      PROVE  OneEventDecides' /\ NothingBooked'
  <2>1. /\ d \in OfOrder(o)
        /\ orderStatus[o] = "created"
        /\ payload[d].status = "paid" => payload[d].amount_matches
    BY <1>3, OrderRowType, ApplyMeans DEF Takes
  <2>2. Applied(o) = {} /\ lastEventAt[o] = 0 /\ o \notin jobs /\ ledger[o] = {}
    BY <2>1, WaitingOrder
  <2>3. Applied(o)' = {d}
    <3>1. \A e \in Events : events'[e] = "applied" => e = d \/ events[e] = "applied"
      BY <1>3, VerdictsDecide DEF Takes
    <3> QED
      BY <1>3, <2>1, <2>2, <3>1 DEF Applied, Takes, OfOrder
  <2>4. \A p \in Orders \ {o} :
            /\ Applied(p)' = Applied(p)
            /\ orderStatus'[p] = orderStatus[p]
            /\ lastEventAt'[p] = lastEventAt[p]
            /\ ledger'[p] = ledger[p]
            /\ p \in jobs' <=> p \in jobs
    <3>1. \A p \in Orders \ {o} : \A e \in OfOrder(p) : events'[e] = events[e]
      BY <1>1 DEF Judges, OfOrder
    <3>2. \A p \in Orders \ {o} : Applied(p)' = Applied(p)
      BY <3>1 DEF Applied, OfOrder
    <3> QED
      BY <1>3, <3>2 DEF Takes, TypeOK
  <2>5. /\ orderStatus'[o] = marked(d).status
        /\ lastEventAt'[o] = payload[d].occurred_at
        /\ payload[d].status = "paid" => o \in jobs'
        /\ payload[d].status # "paid" => jobs' = jobs
    BY <1>3 DEF Takes, TypeOK
  <2>6. ASSUME NEW p \in Orders \ {o}
        PROVE  \/ /\ orderStatus'[p] = "created" /\ Applied(p)' = {}
                  /\ lastEventAt'[p] = 0 /\ p \notin jobs'
               \/ \E e \in OfOrder(p) :
                     /\ Applied(p)' = {e}
                     /\ p \in exists'
                     /\ lastEventAt'[p] = payload[e].occurred_at
                     /\ IF payload[e].status = "failed"
                        THEN orderStatus'[p] = "payment_failed" /\ p \notin jobs'
                        ELSE /\ payload[e].amount_matches
                             /\ orderStatus'[p] \notin {"created", "payment_failed"}
                             /\ p \in jobs'
    BY <1>1, <2>4 DEF IInv, OneEventDecides
  <2>7. IF payload[d].status = "failed"
        THEN orderStatus'[o] = "payment_failed" /\ o \notin jobs'
        ELSE /\ payload[d].amount_matches
             /\ orderStatus'[o] \notin {"created", "payment_failed"}
             /\ o \in jobs'
    BY <2>1, <2>2, <2>5, MarkedType, PayloadType
  <2>8. OneEventDecides'
    BY <1>1, <2>1, <2>3, <2>5, <2>6, <2>7 DEF OneEventDecides, OfOrder
  <2>9. NothingBooked'
    BY <2>4, <2>5, MarkedType DEF IInv, NothingBooked
  <2> QED
    BY <2>8, <2>9
<1> QED
  BY <1>1, <1>2, <1>3 DEF Judges

\* What a step of the delivery pipeline does to its order.
LEMMA PipelineMoves ==
    ASSUME TypeOK, NEW o \in Orders, PipelineStep(o)
    PROVE  /\ orderStatus[o] \notin {"created", "payment_failed", "delivered"}
           /\ orderStatus'[o] \in OrderStatus \ {"created", "payment_failed"}
           /\ orderStatus' \in [Orders -> OrderStatus]
           /\ ledger' \in [Orders -> SUBSET {"payment_captured", "delivery_completed"}]
           /\ coded' \subseteq Orders
           /\ \A p \in Orders \ {o} : /\ orderStatus'[p] = orderStatus[p]
                                       /\ ledger'[p] = ledger[p]
<1>1. CASE Pipeline!Start(o)
  BY <1>1 DEF Pipeline!Start, Pipeline!Moves, TypeOK, OrderStatus
<1>2. CASE Pipeline!GiveUp(o)
  BY <1>2 DEF Pipeline!GiveUp, Pipeline!Moves, TypeOK, OrderStatus
<1>3. CASE Pipeline!Deliver(o)
  BY <1>3 DEF Pipeline!Deliver, Pipeline!Moves, Pipeline!Books, TypeOK, OrderStatus
<1> QED
  BY <1>1, <1>2, <1>3 DEF PipelineStep

LEMMA PipelineOrders ==
    ASSUME TypeOK, IInv, NEW o \in Orders, PipelineStep(o)
    PROVE  OneEventDecides' /\ NothingBooked'
<1>1. UNCHANGED <<exists, lastEventAt, jobs, events>>
  BY DEF PipelineStep
<1>2. \A p \in Orders : Applied(p)' = Applied(p)
  BY <1>1 DEF Applied, OfOrder
<1>3. \A p \in Orders : /\ orderStatus'[p] = "created" <=> orderStatus[p] = "created"
                        /\ orderStatus'[p] = "payment_failed" <=> orderStatus[p] = "payment_failed"
                        /\ orderStatus'[p] = "created" => ledger'[p] = ledger[p]
  BY PipelineMoves
<1>4. NothingBooked'
  BY <1>3 DEF IInv, NothingBooked
<1>5. OneEventDecides'
  BY <1>1, <1>2, <1>3 DEF IInv, OneEventDecides, OfOrder
<1> QED
  BY <1>4, <1>5

-----------------------------------------------------------------------------
(* The steps, one by one *)

Kinds == \/ NothingJudged
         \/ OneOrderJudged
         \/ \E o \in Orders : PipelineStep(o)

LEMMA KindsDecide ==
    ASSUME TypeOK, IInv, Kinds
    PROVE  OneEventDecides' /\ NothingBooked'
BY QuietOrders, JudgedOrders, PipelineOrders DEF Kinds

\* A step that leaves the orders, the events and the creations alone.
LEMMA NothingButRequests ==
    ASSUME TypeOK, IInv, UNCHANGED <<exists, orderVars, coded, events, creating>>
    PROVE  Kinds /\ ListIsPending'
<1>1. NothingJudged
  BY DEF NothingJudged, TypeOK
<1>2. ListIsPending'
  BY DEF IInv, ListIsPending, Pending, OfOrder
<1> QED
  BY <1>1, <1>2 DEF Kinds

\* A request in progress takes one more step of its own.
LEMMA StepType ==
    ASSUME TypeOK, NEW r \in Requests, NEW q \in Request, Step(r, q)
    PROVE  requests' \in [Requests -> Request] /\ requests'[r] = q
BY DEF Step, TypeOK

LEMMA IdleRequest ==
    ASSUME TypeOK, NEW r \in Requests, Step(r, NoRequest)
    PROVE  /\ requests' \in [Requests -> Request]
           /\ requests'[r].pc = "idle"
           /\ Inserted(r)'
           /\ \A o \in Orders : ~Holds(r, o)'
<1>1. /\ requests' \in [Requests -> Request]
      /\ requests'[r] = NoRequest
  BY DEF Step, TypeOK, Request
<1>2. NoRequest.pc = "idle"
  BY DEF NoRequest
<1> QED
  BY <1>1, <1>2 DEF Inserted, Holds, Uncommitted

LEMMA ReceiveKeeps ==
    ASSUME TypeOK, IInv, NEW r \in Requests, NEW e \in Events, Receive(r, e)
    PROVE  TypeOK' /\ IInv' /\ Kinds
<1> DEFINE q == [pc |-> "insert", event |-> e, found |-> "nothing", order |-> NewOrder]
<1>1. q \in Request /\ q.pc = "insert" /\ q.found = "nothing"
  BY DEF Request, NewOrder, Order, OrderStatus
<1>2. Step(r, q) /\ UNCHANGED <<exists, orderVars, coded, events, creating, sweeps, acked>>
  BY DEF Receive
<1> HIDE DEF q
<1>3. requests' \in [Requests -> Request] /\ requests'[r] = q
  BY <1>1, <1>2, StepType
<1>4. ~Uncommitted(r)' /\ Inserted(r)'
  BY <1>1, <1>3 DEF Uncommitted, Inserted
<1>5. (\A p \in Requests : Inserted(p)') /\ ReadIsCurrent'
  <2>1. WorldStays(Requests \ {r})
    BY <1>2, SameWorld DEF WorldStays
  <2> QED
    BY <1>2, <1>4, <2>1, RequestStep DEF Holds
<1>6. budget' \in [Disturbance -> Nat]
  BY SpendType DEF Receive, TypeOK, Disturbance
<1>7. TypeOK'
  BY <1>2, <1>3, <1>6 DEF TypeOK, orderVars
<1> QED
  BY <1>2, <1>5, <1>7, NothingButRequests, KindsDecide DEF IInv

LEMMA InsertKeeps ==
    ASSUME TypeOK, IInv, NEW r \in Requests, InsertIfNew(r)
    PROVE  TypeOK' /\ IInv' /\ Kinds
<1> DEFINE q == requests[r]
           fresh == [q EXCEPT !.pc = "lookup"]
           known == [q EXCEPT !.pc = "reply", !.found = "duplicate"]
<1>1. /\ q.pc = "insert"
      /\ \A p \in Requests \ {r} : Uncommitted(p) => requests[p].event # q.event
      /\ Step(r, IF events[q.event] = "absent" THEN fresh ELSE known)
      /\ UNCHANGED <<exists, orderVars, coded, events, creating, sweeps, acked, budget>>
  BY DEF InsertIfNew
<1>2. /\ fresh \in Request /\ fresh.pc = "lookup" /\ fresh.found = q.found
      /\ fresh.event = q.event
      /\ known \in Request /\ known.pc = "reply" /\ known.found = "duplicate"
  BY <1>1, RequestType DEF Request
<1>3. q.found = "nothing"
  BY <1>1 DEF IInv, Inserted
<1> HIDE DEF fresh, known
<1>4. WorldStays(Requests \ {r})
  BY <1>1, SameWorld DEF WorldStays
<1>5. CASE events[q.event] = "absent"
  <2>1. Step(r, fresh) /\ requests' \in [Requests -> Request] /\ requests'[r] = fresh
    BY <1>1, <1>2, <1>5, StepType
  <2>2. \A p \in Requests \ {r} :
            /\ requests'[p] = requests[p]
            /\ Uncommitted(p)' <=> Uncommitted(p)
    BY <2>1 DEF Step, TypeOK, Uncommitted
  <2>3. Inserted(r)'
    BY <1>1, <1>2, <1>3, <1>5, <2>1, <2>2 DEF Inserted
  <2>4. \A o \in Orders : ~Holds(r, o)'
    BY <1>2, <1>3, <2>1 DEF Holds
  <2>5. (\A p \in Requests : Inserted(p)') /\ ReadIsCurrent'
    BY <1>4, <2>1, <2>3, <2>4, RequestStep
  <2>6. TypeOK'
    BY <1>1, <2>1 DEF TypeOK, orderVars
  <2> QED
    BY <1>1, <2>5, <2>6, NothingButRequests, KindsDecide DEF IInv
<1>6. CASE events[q.event] # "absent"
  <2>1. Step(r, known) /\ requests' \in [Requests -> Request] /\ requests'[r] = known
    BY <1>1, <1>2, <1>6, StepType
  <2>2. ~Uncommitted(r)' /\ Inserted(r)'
    BY <1>2, <2>1 DEF Inserted, Uncommitted
  <2>3. (\A p \in Requests : Inserted(p)') /\ ReadIsCurrent'
    BY <1>4, <2>1, <2>2, RequestStep DEF Holds
  <2>4. TypeOK'
    BY <1>1, <2>1 DEF TypeOK, orderVars
  <2> QED
    BY <1>1, <2>3, <2>4, NothingButRequests, KindsDecide DEF IInv
<1> QED
  BY <1>5, <1>6

LEMMA LookupKeeps ==
    ASSUME TypeOK, IInv, NEW r \in Requests, Lookup(r)
    PROVE  TypeOK' /\ IInv' /\ Kinds
<1> DEFINE q == requests[r]
           o == payload[q.event].order_id
           locked == [q EXCEPT !.pc = AfterWork, !.found = "order", !.order = OrderRow(o)]
           missing == [q EXCEPT !.pc = AfterWork, !.found = "missing"]
           next == IF o \in exists THEN locked ELSE missing
<1>1. /\ q.pc = "lookup" /\ ~Locked(o)
      /\ Step(r, next)
      /\ UNCHANGED <<exists, orderVars, coded, events, creating, sweeps, acked, budget>>
  BY DEF Lookup
<1>2. q.event \in Events /\ o \in Orders /\ OrderRow(o) \in Order
  BY <1>1, RequestType, OrderRowType
<1>3. /\ next \in Request
      /\ next.pc = AfterWork
      /\ next.event = q.event
      /\ next.found \in {"missing", "order"}
      /\ next.found = "order" => o \in exists /\ next.order = OrderRow(o)
  BY <1>1, <1>2, RequestType DEF Request, AfterWork
<1>4. Uncommitted(r)
  <2>1. q.found = "nothing"
    BY <1>1 DEF IInv, Inserted
  <2> QED
    BY <1>1, <2>1 DEF Uncommitted
<1> HIDE DEF next
<1>5. requests' \in [Requests -> Request] /\ requests'[r] = next
  BY <1>1, <1>3, StepType
<1>6. \A p \in Requests \ {r} :
          /\ requests'[p] = requests[p]
          /\ Uncommitted(p)' <=> Uncommitted(p)
  BY <1>1 DEF Step, TypeOK, Uncommitted
<1>7. Inserted(r)'
  <2>1. AfterWork \in {"commit", "reply"}
    BY DEF AfterWork
  <2> QED
    BY <1>1, <1>3, <1>4, <1>5, <1>6, <2>1 DEF IInv, Inserted
<1>8. ASSUME NEW u \in Orders, Holds(r, u)'
      PROVE  /\ u \in exists'
             /\ next.order = OrderRow(u)'
             /\ \A p \in Requests \ {r} : ~Holds(p, u)
  <2>1. u = o /\ o \in exists /\ next.order = OrderRow(o)
    BY <1>3, <1>5, <1>8 DEF Holds
  <2>2. \A p \in Requests : ~Holds(p, o)
    BY <1>1 DEF Locked, Holds
  <2> QED
    BY <1>1, <2>1, <2>2 DEF OrderRow, orderVars
<1>9. (\A p \in Requests : Inserted(p)') /\ ReadIsCurrent'
  <2>1. WorldStays(Requests \ {r})
    BY <1>1, SameWorld DEF WorldStays
  <2> QED
    BY <1>1, <1>7, <1>8, <2>1, RequestStep
<1>10. TypeOK'
  BY <1>1, <1>5 DEF TypeOK, orderVars
<1> QED
  BY <1>1, <1>9, <1>10, NothingButRequests, KindsDecide DEF IInv

\* The commit of a request that found no order stores its event.
LEMMA CommitMissing ==
    ASSUME TypeOK, IInv, NEW r \in Requests, Commit(r), requests[r].found # "order"
    PROVE  /\ NothingJudged
           /\ WorldStays(Requests \ {r})
           /\ ListIsPending'
<1> DEFINE q == requests[r]
<1>1. /\ q.pc = "commit" /\ Uncommitted(r)
      /\ events' = [events EXCEPT ![q.event] = "orphan"]
      /\ UNCHANGED <<orderVars, exists, coded, creating>>
  BY DEF Commit, IInv, Inserted, Uncommitted
<1>2. q.event \in Events /\ events[q.event] = "absent"
  BY <1>1, RequestType DEF IInv, Inserted
<1>3. NothingJudged
  BY <1>1, <1>2 DEF NothingJudged, TypeOK, EventState
<1>4. ASSUME NEW p \in Requests \ {r}, Uncommitted(p)
      PROVE  /\ events'[requests[p].event] = "absent"
             /\ \A o \in Orders : Holds(p, o) => o \in exists' /\ OrderRow(o)' = OrderRow(o)
  <2>1. requests[p].event # q.event /\ events[requests[p].event] = "absent"
    BY <1>1, <1>4 DEF IInv, Inserted
  <2>2. events'[requests[p].event] = "absent"
    BY <1>1, <1>2, <1>4, <2>1, RequestType DEF TypeOK, Uncommitted
  <2> QED
    BY <1>1, <1>4, <2>2 DEF IInv, ReadIsCurrent, OrderRow, orderVars
<1>5. ListIsPending'
  <2>1. \A o \in Orders : \A e \in Pending(o) : events'[e] = "orphan"
    BY <1>1, <1>2 DEF Pending, OfOrder, TypeOK
  <2> QED
    BY <1>1, <2>1, ListsStay DEF IInv, ListIsPending
<1> QED
  BY <1>3, <1>4, <1>5 DEF WorldStays

\* Judging the events of an order that is there disturbs no creation.
LEMMA JudgesLists ==
    ASSUME TypeOK, IInv, NEW o \in exists, o \in Orders, NEW list, Judges(o, list),
           UNCHANGED <<exists, creating>>
    PROVE  ListIsPending'
<1>1. ASSUME NEW p \in Orders, creating[p].pc = "commit", NEW e \in Pending(p)
      PROVE  p \notin exists /\ events'[e] = "orphan"
  <2>1. p \notin exists /\ e \in Events /\ e \notin OfOrder(o) /\ events[e] = "orphan"
    BY <1>1 DEF IInv, ListIsPending, Pending, OfOrder
  <2> QED
    BY <2>1 DEF Judges
<1> QED
  BY <1>1, ListsStay DEF IInv, ListIsPending

\* The commit of a request that read its order judges its event.
LEMMA CommitFound ==
    ASSUME TypeOK, IInv, NEW r \in Requests, Commit(r), requests[r].found = "order"
    PROVE  /\ OneOrderJudged
           /\ WorldStays(Requests \ {r})
           /\ ListIsPending'
           /\ orderStatus' \in [Orders -> OrderStatus]
           /\ lastEventAt' \in [Orders -> Nat]
           /\ ledger' \in [Orders -> SUBSET {"payment_captured", "delivery_completed"}]
           /\ jobs' \subseteq Orders
<1> DEFINE q == requests[r]
           o == payload[q.event].order_id
           list == <<q.event>>
<1>1. /\ q.pc = "commit" /\ Uncommitted(r)
      /\ Settles(o, q.order, list)
      /\ UNCHANGED <<exists, coded, creating>>
  BY DEF Commit, IInv, Inserted, Uncommitted
<1>2. /\ q.event \in Events /\ o \in Orders
      /\ events[q.event] = "absent"
  BY <1>1, RequestType DEF IInv, Inserted
<1>3. Holds(r, o)
  BY <1>1 DEF Holds
<1>4. /\ o \in exists /\ q.order = OrderRow(o)
      /\ \A p \in Requests \ {r} : ~Holds(p, o)
  BY <1>2, <1>3 DEF IInv, ReadIsCurrent
<1>5. DOMAIN list = {1} /\ list[1] = q.event
  OBVIOUS
<1>6. Judgeable(o, list)
  BY <1>2, <1>5 DEF Judgeable, OfOrder, Undecided
<1>7. Settles(o, OrderRow(o), list)
  BY <1>1, <1>4
<1> HIDE DEF list
<1>8. Judges(o, list)
  BY <1>2, <1>6, <1>7, SettlesJudges
<1>9. OneOrderJudged
  BY <1>1, <1>2, <1>4, <1>6, <1>8 DEF OneOrderJudged
<1>10. WorldStays(Requests \ {r})
  <2>1. \A p \in Requests \ {r} :
            Uncommitted(p) => \A i \in DOMAIN list : list[i] # requests[p].event
    BY <1>1, <1>5 DEF IInv, Inserted
  <2> QED
    BY <1>1, <1>2, <1>4, <1>8, <2>1, JudgesWorld
<1>11. ListIsPending'
  BY <1>1, <1>2, <1>4, <1>8, JudgesLists
<1> QED
  BY <1>2, <1>8, <1>9, <1>10, <1>11, JudgesType

LEMMA CommitKeeps ==
    ASSUME TypeOK, IInv, NEW r \in Requests, Commit(r)
    PROVE  TypeOK' /\ IInv' /\ Kinds
<1> DEFINE q == requests[r]
           answered == [q EXCEPT !.pc = "reply"]
           next == IF AnswersFirst THEN NoRequest ELSE answered
<1>1. /\ q.pc = "commit"
      /\ Step(r, next)
      /\ UNCHANGED <<exists, coded, creating, sweeps, acked, budget>>
  <2>1. q.pc = "commit" /\ q \in [pc : {"insert", "lookup", "commit", "reply"},
                               event : Events,
                               found : {"nothing", "duplicate", "missing", "order"},
                               order : Order]
    BY RequestType DEF Commit
  <2>2. [q EXCEPT !.pc = "idle"].pc = "idle" /\ answered.pc = "reply"
    BY <2>1
  <2>3. Ends(r, [q EXCEPT !.pc = IF AnswersFirst THEN "idle" ELSE "reply"])
    BY DEF Commit
  <2>4. Step(r, next)
    BY <2>2, <2>3 DEF Ends
  <2> QED
    BY <2>1, <2>4 DEF Commit
<1>2. /\ next \in Request
      /\ AnswersFirst => next.pc = "idle"
      /\ ~AnswersFirst => next.pc = "reply"
  BY <1>1, RequestType DEF Request, NoRequest
<1> HIDE DEF next
<1>3. requests' \in [Requests -> Request] /\ requests'[r] = next
  BY <1>1, <1>2, StepType
<1>4. ~Uncommitted(r)' /\ Inserted(r)'
  BY <1>2, <1>3 DEF Uncommitted, Inserted
<1>5. /\ (NothingJudged \/ OneOrderJudged)
      /\ WorldStays(Requests \ {r})
      /\ ListIsPending'
      /\ orderStatus' \in [Orders -> OrderStatus]
      /\ lastEventAt' \in [Orders -> Nat]
      /\ ledger' \in [Orders -> SUBSET {"payment_captured", "delivery_completed"}]
      /\ jobs' \subseteq Orders
  BY CommitMissing, CommitFound DEF NothingJudged, TypeOK, orderVars
<1>6. (\A p \in Requests : Inserted(p)') /\ ReadIsCurrent'
  BY <1>1, <1>4, <1>5, RequestStep DEF Holds
<1>7. events' \in [Events -> EventState]
  BY <1>5 DEF NothingJudged, OneOrderJudged, Judges
<1>8. TypeOK'
  BY <1>1, <1>3, <1>5, <1>7 DEF TypeOK
<1> QED
  BY <1>5, <1>6, <1>8, KindsDecide DEF Kinds, IInv

LEMMA ReplyKeeps ==
    ASSUME TypeOK, IInv, NEW r \in Requests, Reply(r)
    PROVE  TypeOK' /\ IInv' /\ Kinds
<1> DEFINE q == requests[r]
           committing == [q EXCEPT !.pc = "commit"]
           next == IF Uncommitted(r) THEN committing ELSE NoRequest
<1>1. q.pc = "reply" /\ q \in [pc : {"insert", "lookup", "commit", "reply"},
                               event : Events,
                               found : {"nothing", "duplicate", "missing", "order"},
                               order : Order]
  BY RequestType DEF Reply
<1>2. /\ acked' = acked \cup {q.event}
      /\ UNCHANGED <<exists, orderVars, coded, events, creating, sweeps, budget>>
  BY DEF Reply
<1>3. Step(r, next)
  <2>1. [q EXCEPT !.pc = "idle"].pc = "idle" /\ committing.pc = "commit"
    BY <1>1
  <2>2. Ends(r, [q EXCEPT !.pc = IF Uncommitted(r) THEN "commit" ELSE "idle"])
    BY DEF Reply
  <2> QED
    BY <2>1, <2>2 DEF Ends
<1>4. /\ committing \in Request /\ committing.pc = "commit"
      /\ committing.event = q.event
      /\ committing.found = q.found
      /\ committing.order = q.order
  BY <1>1 DEF Request
<1>5. WorldStays(Requests \ {r})
  BY <1>2, SameWorld DEF WorldStays
<1>6. acked' \subseteq Events
  BY <1>1, <1>2 DEF TypeOK
<1> HIDE DEF committing
<1>7. CASE Uncommitted(r)
  <2>1. requests' \in [Requests -> Request] /\ requests'[r] = committing
        /\ Step(r, committing)
    BY <1>3, <1>4, <1>7, StepType
  <2>2. \A p \in Requests \ {r} :
            /\ requests'[p] = requests[p]
            /\ Uncommitted(p)' <=> Uncommitted(p)
    BY <2>1 DEF Step, TypeOK, Uncommitted
  <2>3. Inserted(r)'
    BY <1>1, <1>2, <1>4, <1>7, <2>1, <2>2 DEF IInv, Inserted
  <2>4. ASSUME NEW o \in Orders, Holds(r, o)'
        PROVE  /\ o \in exists'
               /\ committing.order = OrderRow(o)'
               /\ \A p \in Requests \ {r} : ~Holds(p, o)
    <3>1. Holds(r, o)
      BY <1>4, <1>7, <2>1, <2>4 DEF Holds
    <3> QED
      BY <1>2, <1>4, <3>1 DEF IInv, ReadIsCurrent, OrderRow, orderVars
  <2>5. (\A p \in Requests : Inserted(p)') /\ ReadIsCurrent'
    BY <1>5, <2>1, <2>3, <2>4, RequestStep
  <2>6. TypeOK'
    BY <1>2, <1>6, <2>1 DEF TypeOK, orderVars
  <2> QED
    BY <1>2, <2>5, <2>6, NothingButRequests, KindsDecide DEF IInv
<1>8. CASE ~Uncommitted(r)
  <2>1. Step(r, NoRequest)
    BY <1>3, <1>8
  <2>2. (\A p \in Requests : Inserted(p)') /\ ReadIsCurrent'
    BY <1>5, <2>1, IdleRequest, RequestStep
  <2>3. TypeOK'
    BY <1>2, <1>6, <2>1, IdleRequest DEF TypeOK, orderVars
  <2> QED
    BY <1>2, <2>2, <2>3, NothingButRequests, KindsDecide DEF IInv
<1> QED
  BY <1>7, <1>8

LEMMA RequestFailsKeeps ==
    ASSUME TypeOK, IInv, NEW r \in Requests, RequestFails(r)
    PROVE  TypeOK' /\ IInv' /\ Kinds
<1>1. /\ Step(r, NoRequest)
      /\ UNCHANGED <<exists, orderVars, coded, events, creating, sweeps, acked>>
  BY DEF RequestFails
<1>2. WorldStays(Requests \ {r})
  BY <1>1, SameWorld DEF WorldStays
<1>3. (\A p \in Requests : Inserted(p)') /\ ReadIsCurrent'
  BY <1>1, <1>2, IdleRequest, RequestStep
<1>4. budget' \in [Disturbance -> Nat]
  BY SpendType DEF RequestFails, Disturbance
<1>5. TypeOK'
  BY <1>1, <1>4, IdleRequest DEF TypeOK, orderVars
<1> QED
  BY <1>1, <1>3, <1>5, NothingButRequests, KindsDecide DEF IInv

LEMMA CreateReplaysKeeps ==
    ASSUME TypeOK, IInv, NEW o \in Orders, CreateReplays(o)
    PROVE  TypeOK' /\ IInv' /\ Kinds
<1>1. /\ o \notin exists
      /\ UNCHANGED <<exists, orderVars, coded, events, requests, sweeps, acked, budget>>
  BY DEF CreateReplays
<1>2. PICK list \in PendingLists(o) :
          creating' = [creating EXCEPT ![o] = [pc |-> "commit", list |-> list]]
  BY DEF CreateReplays
<1>3. /\ list \in Seq(Events)
      /\ \A i \in DOMAIN list : list[i] \in Pending(o)
      /\ Judgeable(o, list)
  BY PendingListType
<1>4. /\ creating' \in [Orders -> Creation]
      /\ creating'[o].list = list
      /\ \A p \in Orders \ {o} : creating'[p] = creating[p]
  BY <1>2, <1>3 DEF TypeOK, Creation
<1>5. ListIsPending'
  BY <1>1, <1>3, <1>4 DEF IInv, ListIsPending, Judgeable, Pending, OfOrder
<1>6. (\A p \in Requests : Inserted(p)') /\ ReadIsCurrent'
  BY <1>1, SameWorld, RequestsStay
<1>7. NothingJudged
  BY <1>1 DEF NothingJudged, TypeOK
<1>8. TypeOK'
  BY <1>1, <1>4 DEF TypeOK, orderVars
<1> QED
  BY <1>5, <1>6, <1>7, <1>8, KindsDecide DEF Kinds, IInv

LEMMA CreateFailsKeeps ==
    ASSUME TypeOK, IInv, NEW o \in Orders, CreateFails(o)
    PROVE  TypeOK' /\ IInv' /\ Kinds
<1>1. /\ UNCHANGED <<exists, orderVars, coded, events, requests, sweeps, acked>>
      /\ creating' = [creating EXCEPT ![o] = [pc |-> "lost", list |-> <<>>]]
  BY DEF CreateFails
<1>2. /\ creating' \in [Orders -> Creation]
      /\ creating'[o].pc = "lost"
      /\ \A p \in Orders \ {o} : creating'[p] = creating[p]
  BY <1>1 DEF TypeOK, Creation
<1>3. ListIsPending'
  BY <1>1, <1>2 DEF IInv, ListIsPending, Pending, OfOrder
<1>4. (\A p \in Requests : Inserted(p)') /\ ReadIsCurrent'
  BY <1>1, SameWorld, RequestsStay
<1>5. NothingJudged
  BY <1>1 DEF NothingJudged, TypeOK
<1>6. budget' \in [Disturbance -> Nat]
  BY SpendType DEF CreateFails, Disturbance
<1>7. TypeOK'
  BY <1>1, <1>2, <1>6 DEF TypeOK, orderVars
<1> QED
  BY <1>3, <1>4, <1>5, <1>7, KindsDecide DEF Kinds, IInv

LEMMA CreateCommitsKeeps ==
    ASSUME TypeOK, IInv, NEW o \in Orders, CreateCommits(o)
    PROVE  TypeOK' /\ IInv' /\ Kinds
<1> DEFINE list == creating[o].list
<1>1. /\ creating[o].pc = "commit"
      /\ exists' = exists \cup {o}
      /\ Settles(o, NewOrder, list)
      /\ creating' = [creating EXCEPT ![o] = NotCreated]
      /\ UNCHANGED <<coded, requests, sweeps, acked, budget>>
  BY DEF CreateCommits
<1>2. /\ o \notin exists
      /\ list \in Seq(Events)
      /\ \A i \in DOMAIN list : list[i] \in Pending(o)
      /\ \A i, k \in DOMAIN list : list[i] = list[k] => i = k
  BY <1>1 DEF IInv, ListIsPending, TypeOK, Creation
<1> HIDE DEF list
<1>3. Judgeable(o, list)
  <2>1. DOMAIN list \subseteq Nat
    BY <1>2
  <2> QED
    BY <1>2, <2>1 DEF Judgeable, Pending, OfOrder, Undecided
<1>4. Judges(o, list)
  BY <1>1, <1>2, <1>3, MissingOrder, SettlesJudges
<1>5. OneOrderJudged
  BY <1>1, <1>3, <1>4 DEF OneOrderJudged
<1>6. (\A p \in Requests : Inserted(p)') /\ ReadIsCurrent'
  <2>1. \A p \in Requests : ~Holds(p, o)
    BY <1>2 DEF IInv, ReadIsCurrent
  <2>2. \A p \in Requests :
            Uncommitted(p) => \A i \in DOMAIN list : list[i] # requests[p].event
    BY <1>2 DEF IInv, Inserted, Pending
  <2>3. WorldStays(Requests)
    BY <1>1, <1>4, <2>1, <2>2, JudgesWorld
  <2> QED
    BY <1>1, <2>3, RequestsStay
<1>7. /\ creating' \in [Orders -> Creation]
      /\ creating'[o].pc = "off"
      /\ \A p \in Orders \ {o} : creating'[p] = creating[p]
  BY <1>1 DEF TypeOK, Creation, NotCreated
<1>8. ListIsPending'
  <2>1. ASSUME NEW p \in Orders, creating'[p].pc = "commit"
        PROVE  /\ creating'[p] = creating[p]
               /\ p \notin exists'
               /\ \A e \in Pending(p) : events'[e] = "orphan"
    <3>1. p # o /\ creating'[p] = creating[p] /\ p \notin exists'
      BY <1>1, <1>7, <2>1 DEF IInv, ListIsPending
    <3>2. \A e \in Pending(p) : e \in Events /\ e \notin OfOrder(o) /\ events[e] = "orphan"
      BY <3>1 DEF Pending, OfOrder
    <3> QED
      BY <1>4, <3>1, <3>2 DEF Judges
  <2> QED
    BY <2>1, ListsStay
<1>9. TypeOK'
  BY <1>1, <1>4, <1>7, JudgesType DEF TypeOK
<1> QED
  BY <1>5, <1>6, <1>8, <1>9, KindsDecide DEF Kinds, IInv

LEMMA CrashKeeps ==
    ASSUME TypeOK, IInv, Crash
    PROVE  TypeOK' /\ IInv' /\ Kinds
<1>1. /\ requests' = [r \in Requests |-> NoRequest]
      /\ creating' = [o \in Orders |-> IF creating[o].pc = "commit"
                                       THEN [pc |-> "lost", list |-> <<>>] ELSE creating[o]]
      /\ UNCHANGED <<exists, orderVars, coded, events, sweeps, acked>>
  BY DEF Crash
<1>2. /\ requests' \in [Requests -> Request]
      /\ \A r \in Requests : requests'[r].pc = "idle"
  BY <1>1 DEF Request, NoRequest
<1>3. (\A r \in Requests : Inserted(r)') /\ ReadIsCurrent'
  BY <1>2 DEF Inserted, ReadIsCurrent, Holds, Uncommitted
<1>4. /\ creating' \in [Orders -> Creation]
      /\ \A o \in Orders : creating'[o].pc # "commit"
  BY <1>1 DEF TypeOK, Creation
<1>5. ListIsPending'
  BY <1>4 DEF ListIsPending
<1>6. NothingJudged
  BY <1>1 DEF NothingJudged, TypeOK
<1>7. budget' \in [Disturbance -> Nat]
  BY SpendType DEF Crash, Disturbance
<1>8. TypeOK'
  BY <1>1, <1>2, <1>4, <1>7 DEF TypeOK, orderVars
<1> QED
  BY <1>3, <1>5, <1>6, <1>8, KindsDecide DEF Kinds, IInv

LEMMA SweepKeeps ==
    ASSUME TypeOK, IInv, NEW s \in Sweepers, SweepLists(s) \/ SweepFails(s)
    PROVE  TypeOK' /\ IInv' /\ Kinds
<1>1. UNCHANGED <<exists, orderVars, coded, events, requests, creating, acked>>
  BY DEF SweepLists, SweepFails
<1>2. sweeps' \in [Sweepers -> SUBSET Orders]
  BY DEF SweepLists, SweepFails, OrphanOrders, TypeOK
<1>3. budget' \in [Disturbance -> Nat]
  BY SpendType DEF SweepLists, SweepFails, Disturbance, TypeOK
<1>4. (\A p \in Requests : Inserted(p)') /\ ReadIsCurrent'
  BY <1>1, SameWorld, RequestsStay
<1>5. TypeOK'
  BY <1>1, <1>2, <1>3 DEF TypeOK, orderVars
<1> QED
  BY <1>1, <1>4, <1>5, NothingButRequests, KindsDecide DEF IInv

LEMMA SweepReplaysKeeps ==
    ASSUME TypeOK, IInv, NEW s \in Sweepers, SweepReplays(s)
    PROVE  TypeOK' /\ IInv' /\ Kinds
<1>1. PICK o \in sweeps[s] :
          /\ sweeps' = [sweeps EXCEPT ![s] = @ \ {o}]
          /\ IF o \in exists
             THEN /\ ~Locked(o)
                  /\ \E list \in PendingLists(o) : Settles(o, OrderRow(o), list)
             ELSE UNCHANGED <<events, orderVars>>
          /\ UNCHANGED <<exists, coded, requests, creating, acked, budget>>
  BY DEF SweepReplays
<1>2. o \in Orders /\ sweeps' \in [Sweepers -> SUBSET Orders]
  BY <1>1 DEF TypeOK
<1>3. CASE o \notin exists
  <2>1. UNCHANGED <<exists, orderVars, coded, events, requests, creating, acked, budget>>
    BY <1>1, <1>3
  <2>2. (\A p \in Requests : Inserted(p)') /\ ReadIsCurrent'
    BY <2>1, SameWorld, RequestsStay
  <2>3. TypeOK'
    BY <1>2, <2>1 DEF TypeOK, orderVars
  <2> QED
    BY <2>1, <2>2, <2>3, NothingButRequests, KindsDecide DEF IInv
<1>4. CASE o \in exists
  <2>1. PICK list \in PendingLists(o) : Settles(o, OrderRow(o), list)
    BY <1>1, <1>4
  <2>2. Judgeable(o, list) /\ \A i \in DOMAIN list : list[i] \in Pending(o)
    BY <1>2, <2>1, PendingListType
  <2>3. Judges(o, list)
    BY <1>2, <2>1, <2>2, SettlesJudges
  <2>4. OneOrderJudged
    <3>1. exists' = exists \cup {o}
      BY <1>1, <1>4
    <3> QED
      BY <1>1, <1>2, <2>2, <2>3, <3>1 DEF OneOrderJudged
  <2>5. \A p \in Requests : ~Holds(p, o)
    BY <1>1, <1>4 DEF Locked, Holds
  <2>6. \A p \in Requests :
            Uncommitted(p) => \A i \in DOMAIN list : list[i] # requests[p].event
    BY <2>2 DEF IInv, Inserted, Pending
  <2>7. WorldStays(Requests)
    BY <1>1, <1>2, <2>3, <2>5, <2>6, JudgesWorld
  <2>8. (\A p \in Requests : Inserted(p)') /\ ReadIsCurrent'
    BY <1>1, <2>7, RequestsStay
  <2>9. ListIsPending'
    BY <1>1, <1>2, <1>4, <2>3, JudgesLists
  <2>10. TypeOK'
    BY <1>1, <1>2, <2>3, JudgesType DEF TypeOK
  <2> QED
    BY <2>4, <2>8, <2>9, <2>10, KindsDecide DEF Kinds, IInv
<1> QED
  BY <1>3, <1>4

LEMMA PipelineKeeps ==
    ASSUME TypeOK, IInv, NEW o \in Orders, PipelineStep(o)
    PROVE  TypeOK' /\ IInv' /\ Kinds
<1>1. UNCHANGED <<exists, lastEventAt, jobs, events, requests, creating, sweeps, acked, budget>>
  BY DEF PipelineStep
<1>2. WorldStays(Requests)
  <2> SUFFICES ASSUME NEW p \in Requests, Uncommitted(p)
               PROVE  /\ events'[requests[p].event] = "absent"
                      /\ \A u \in Orders :
                            Holds(p, u) => u \in exists' /\ OrderRow(u)' = OrderRow(u)
    BY DEF WorldStays
  <2>1. ASSUME NEW u \in Orders, Holds(p, u)
        PROVE  u \in exists' /\ OrderRow(u)' = OrderRow(u)
    <3>1. u # o
      BY <2>1 DEF PipelineStep, Locked, Holds
    <3>2. orderStatus'[u] = orderStatus[u]
      BY <3>1, PipelineMoves
    <3> QED
      BY <1>1, <2>1, <3>2 DEF OrderRow, IInv, ReadIsCurrent
  <2> QED
    BY <1>1, <2>1 DEF IInv, Inserted
<1>3. (\A p \in Requests : Inserted(p)') /\ ReadIsCurrent'
  BY <1>1, <1>2, RequestsStay
<1>4. ListIsPending'
  BY <1>1 DEF IInv, ListIsPending, Pending, OfOrder
<1>5. TypeOK'
  BY <1>1, PipelineMoves DEF TypeOK
<1> QED
  BY <1>3, <1>4, <1>5, KindsDecide DEF Kinds, IInv

-----------------------------------------------------------------------------
(* The invariant *)

LEMMA InvInit == Init => TypeOK /\ IInv
<1> SUFFICES ASSUME Init PROVE TypeOK /\ IInv
  OBVIOUS
<1>1. /\ orderStatus = [o \in Orders |-> "created"]
      /\ ledger = [o \in Orders |-> {}]
      /\ coded = {}
  BY DEF Init, Pipeline!Init
<1>2. /\ requests \in [Requests -> Request]
      /\ \A r \in Requests : requests[r].pc = "idle"
      /\ creating \in [Orders -> Creation]
      /\ \A o \in Orders : creating[o].pc = "off"
  BY DEF Init, Request, NoRequest, Creation, NotCreated
<1>3. TypeOK
  BY <1>1, <1>2, PaymentsAssumption DEF Init, TypeOK, OrderStatus, EventState,
     PaymentsAssumption
<1>4. /\ \A r \in Requests : Inserted(r)
      /\ ReadIsCurrent
      /\ ListIsPending
  BY <1>2 DEF Inserted, ReadIsCurrent, ListIsPending, Holds, Uncommitted
<1>5. \A o \in Orders : Applied(o) = {}
  BY DEF Init, Applied, OfOrder
<1>6. NothingBooked /\ OneEventDecides
  BY <1>1, <1>5 DEF Init, NothingBooked, OneEventDecides
<1> QED
  BY <1>3, <1>4, <1>6 DEF IInv

LEMMA InvStep == TypeOK /\ IInv /\ [Next]_vars => TypeOK' /\ IInv' /\ Kinds
<1> SUFFICES ASSUME TypeOK, IInv, [Next]_vars PROVE TypeOK' /\ IInv' /\ Kinds
  OBVIOUS
<1>1. CASE UNCHANGED vars
  <2>1. UNCHANGED <<exists, orderVars, coded, events, requests, creating, sweeps, acked, budget>>
    BY <1>1 DEF vars, orderVars
  <2>2. (\A p \in Requests : Inserted(p)') /\ ReadIsCurrent'
    BY <2>1, SameWorld, RequestsStay
  <2>3. TypeOK'
    BY <2>1 DEF TypeOK, orderVars
  <2> QED
    BY <2>1, <2>2, <2>3, NothingButRequests, KindsDecide DEF IInv
<1>2. ASSUME NEW r \in Requests,
             \/ \E e \in Events : Receive(r, e)
             \/ Serve(r)
             \/ RequestFails(r)
      PROVE  TypeOK' /\ IInv' /\ Kinds
  BY <1>2, ReceiveKeeps, InsertKeeps, LookupKeeps, CommitKeeps, ReplyKeeps,
     RequestFailsKeeps DEF Serve
<1>3. ASSUME NEW o \in Orders, CreateReplays(o) \/ CreateCommits(o) \/ CreateFails(o)
      PROVE  TypeOK' /\ IInv' /\ Kinds
  BY <1>3, CreateReplaysKeeps, CreateCommitsKeeps, CreateFailsKeeps
<1>4. ASSUME NEW o \in Orders, PipelineStep(o)
      PROVE  TypeOK' /\ IInv' /\ Kinds
  BY <1>4, PipelineKeeps
<1>5. ASSUME NEW s \in Sweepers, SweepLists(s) \/ SweepReplays(s) \/ SweepFails(s)
      PROVE  TypeOK' /\ IInv' /\ Kinds
  BY <1>5, SweepKeeps, SweepReplaysKeeps
<1>6. CASE Crash
  BY <1>6, CrashKeeps
<1> QED
  BY <1>1, <1>2, <1>3, <1>4, <1>5, <1>6 DEF Next

LEMMA Invariant == Spec => [](TypeOK /\ IInv)
<1>1. TypeOK /\ IInv /\ [Next]_vars => (TypeOK /\ IInv)'
  BY InvStep
<1> QED
  BY <1>1, InvInit, PTL DEF Spec

\* Every reachable state is well typed.
THEOREM PaymentsTypeCorrect == Spec => []TypeOK
BY Invariant, PTL

\* One event of an order decides it, and status, time, ledger and job are all
\* that event's: for every number of requests served together, whatever they
\* interleave with, whoever dies and however often an event is sent again.
THEOREM OneEventDecidesAlways == Spec => []OneEventDecides
<1>1. TypeOK /\ IInv => OneEventDecides
  BY DEF IInv
<1> QED
  BY <1>1, Invariant, PTL

-----------------------------------------------------------------------------
(* The verdicts *)

\* An event that was turned away stays turned away for its reason.
LEMMA ReasonStays ==
    ASSUME TypeOK, IInv, RejectedForCause, Kinds,
           NEW e \in Events, NEW o \in Orders, o = payload[e].order_id,
           events[e] \in Rejections, events'[e] = events[e]
    PROVE  /\ events'[e] \in Rejections /\ payload[e].amount_matches =>
                 orderStatus'[o] # "created"
           /\ events'[e] = "amount_mismatch" =>
                 payload[e].status = "paid" /\ ~payload[e].amount_matches
           /\ events'[e] = "stale_event" => payload[e].occurred_at < lastEventAt'[o]
           /\ events'[e] \in {"not_applicable", "already_paid"} =>
                 orderStatus'[o] \notin {"created", "payment_failed"}
<1>1. /\ payload[e].amount_matches => orderStatus[o] # "created"
      /\ events[e] = "amount_mismatch" =>
            payload[e].status = "paid" /\ ~payload[e].amount_matches
      /\ events[e] = "stale_event" => payload[e].occurred_at < lastEventAt[o]
      /\ events[e] \in {"not_applicable", "already_paid"} =>
            orderStatus[o] \notin {"created", "payment_failed"}
  BY DEF RejectedForCause
<1>2. payload[e].occurred_at \in Nat /\ orderStatus[o] = "created" => lastEventAt[o] = 0
  BY PayloadType, WaitingOrder
<1>3. CASE UNCHANGED <<orderStatus, lastEventAt>>
  BY <1>1, <1>3
<1>4. ASSUME NEW u \in Orders, NEW list, NEW d \in Events, Takes(u, list, d)
      PROVE  \/ /\ orderStatus'[o] = orderStatus[o]
                /\ lastEventAt'[o] = lastEventAt[o]
             \/ /\ orderStatus[o] = "created"
                /\ orderStatus'[o] # "created"
  <2>1. orderStatus[u] = "created" /\ marked(d).status # "created"
    BY <1>4, OrderRowType, ApplyMeans, MarkedType DEF Takes
  <2> QED
    BY <1>4, <2>1 DEF Takes, TypeOK
<1>5. CASE OneOrderJudged
  <2>1. \/ UNCHANGED <<orderStatus, lastEventAt>>
        \/ \E u \in Orders, d \in Events : \E list : Takes(u, list, d)
    BY <1>5 DEF OneOrderJudged, Judges, TurnsAway, orderVars
  <2> QED
    BY <1>1, <1>2, <1>3, <1>4, <2>1, PayloadType
<1>6. ASSUME NEW u \in Orders, PipelineStep(u)
      PROVE  /\ lastEventAt'[o] = lastEventAt[o]
             /\ orderStatus'[o] = "created" <=> orderStatus[o] = "created"
             /\ orderStatus'[o] = "payment_failed" <=> orderStatus[o] = "payment_failed"
  BY <1>6, PipelineMoves DEF PipelineStep
<1> QED
  BY <1>1, <1>3, <1>5, <1>6 DEF Kinds, NothingJudged, orderVars

\* An event that is turned away is turned away for a reason.
LEMMA ReasonGiven ==
    ASSUME TypeOK, IInv, Kinds,
           NEW e \in Events, NEW o \in Orders, o = payload[e].order_id,
           events'[e] \in Rejections, events'[e] # events[e]
    PROVE  /\ payload[e].amount_matches => orderStatus'[o] # "created"
           /\ events'[e] = "amount_mismatch" =>
                 payload[e].status = "paid" /\ ~payload[e].amount_matches
           /\ events'[e] = "stale_event" => payload[e].occurred_at < lastEventAt'[o]
           /\ events'[e] \in {"not_applicable", "already_paid"} =>
                 orderStatus'[o] \notin {"created", "payment_failed"}
<1>1. OneOrderJudged
  BY VerdictsDecide DEF Kinds, NothingJudged, PipelineStep, Undecided
<1>0. PICK u \in Orders : \E list : Judges(u, list)
  BY <1>1 DEF OneOrderJudged
<1>2. PICK list : Judges(u, list)
  BY <1>0
<1>3. u = o
  BY <1>2 DEF Judges, OfOrder
<1>4. OrderRow(o) \in Order /\ OrderRow(o).status = orderStatus[o]
      /\ OrderRow(o).last = lastEventAt[o]
  BY OrderRowType
<1>5. orderStatus[o] = "created" => lastEventAt[o] = 0
  BY WaitingOrder
<1>6. payload[e].occurred_at \in Nat /\ "applied" \notin Rejections
  BY PayloadType, VerdictsDecide
<1>7. CASE TurnsAway(o, list)
  <2>1. events'[e] = apply(OrderRow(o), e) /\ UNCHANGED <<orderStatus, lastEventAt>>
    BY <1>7 DEF TurnsAway, orderVars
  <2> QED
    BY <1>4, <1>5, <1>6, <2>1, ApplyMeans
<1>8. ASSUME NEW d \in Events, Takes(o, list, d)
      PROVE  /\ payload[e].amount_matches => orderStatus'[o] # "created"
             /\ events'[e] = "amount_mismatch" =>
                   payload[e].status = "paid" /\ ~payload[e].amount_matches
             /\ events'[e] = "stale_event" => payload[e].occurred_at < lastEventAt'[o]
             /\ events'[e] \in {"not_applicable", "already_paid"} =>
                   orderStatus'[o] \notin {"created", "payment_failed"}
  <2>1. orderStatus[o] = "created" /\ lastEventAt[o] = 0
    BY <1>4, <1>5, <1>8, ApplyMeans DEF Takes
  <2>2. /\ orderStatus'[o] = marked(d).status
        /\ lastEventAt'[o] = marked(d).last
        /\ marked(d).status # "created"
        /\ marked(d) \in Order
    BY <1>8, MarkedType DEF Takes, TypeOK
  <2>3. e # d /\ events'[e] \in {apply(OrderRow(o), e), apply(marked(d), e)}
    BY <1>6, <1>8 DEF Takes
  <2>4. CASE events'[e] = apply(OrderRow(o), e)
    BY <1>4, <1>6, <2>1, <2>2, <2>4, ApplyMeans
  <2>5. CASE events'[e] = apply(marked(d), e)
    BY <2>2, <2>5, ApplyMeans
  <2> QED
    BY <2>3, <2>4, <2>5
<1> QED
  BY <1>2, <1>3, <1>7, <1>8 DEF Judges

\* The reason stored with an event stays the right one: whatever happens to the
\* order later, it was turned away for what the order still is.
THEOREM RejectedForCauseAlways == Spec => []RejectedForCause
<1>1. Init => RejectedForCause
  BY DEF Init, RejectedForCause, Rejections
<1>2. ASSUME TypeOK, IInv, Kinds, RejectedForCause
      PROVE  RejectedForCause'
  <2>1. ASSUME NEW e \in Events, events'[e] \in Rejections
        PROVE  LET o == payload[e].order_id
               IN  /\ payload[e].amount_matches => orderStatus'[o] # "created"
                   /\ events'[e] = "amount_mismatch" =>
                         payload[e].status = "paid" /\ ~payload[e].amount_matches
                   /\ events'[e] = "stale_event" =>
                         payload[e].occurred_at < lastEventAt'[o]
                   /\ events'[e] \in {"not_applicable", "already_paid"} =>
                         orderStatus'[o] \notin {"created", "payment_failed"}
    BY <1>2, <2>1, PayloadType, ReasonStays, ReasonGiven
  <2>2. /\ "amount_mismatch" \in Rejections /\ "stale_event" \in Rejections
        /\ "not_applicable" \in Rejections /\ "already_paid" \in Rejections
    BY DEF Rejections
  <2> QED
    BY <2>1, <2>2 DEF RejectedForCause
<1> QED
  BY <1>1, <1>2, InvStep, Invariant, PTL DEF Spec

\* Once judged an event keeps its verdict: a repeated webhook, a creation and a
\* replay never judge it a second time.
THEOREM JudgedOnceAlways == Spec => JudgedOnce
<1>1. ASSUME TypeOK, IInv, Kinds
      PROVE  \A e \in Events :
                 events[e] \notin {"absent", "orphan"} => events'[e] = events[e]
  <2>1. CASE NothingJudged
    BY <2>1 DEF NothingJudged
  <2>2. CASE OneOrderJudged
    BY <2>2 DEF OneOrderJudged, Judges, Undecided
  <2>3. ASSUME NEW o \in Orders, PipelineStep(o) PROVE UNCHANGED events
    BY <2>3 DEF PipelineStep
  <2> QED
    BY <1>1, <2>1, <2>2, <2>3 DEF Kinds
<1>2. TypeOK /\ IInv /\ [Next]_vars =>
          [\A e \in Events :
              events[e] \notin {"absent", "orphan"} => events'[e] = events[e]]_events
  BY <1>1, InvStep
<1> QED
  BY <1>2, Invariant, PTL DEF Spec, JudgedOnce

-----------------------------------------------------------------------------
(* The refinement of Settlement *)

\* Payments and the delivery pipeline together run as Settlement does: an order
\* is captured once or voided once, whichever event comes through first.
THEOREM PaymentsImplementSettlement == Spec => ImplementsSettlement
<1>1. Init => Pipeline!Init
  BY DEF Init
<1>2. ASSUME TypeOK, IInv, Kinds
      PROVE  [Pipeline!Next]_<<orderStatus, ledger, coded>>
  <2>1. CASE NothingJudged
    BY <2>1 DEF NothingJudged, orderVars
  <2>2. CASE OneOrderJudged
    <3>0. PICK o \in Orders : \E list : Judges(o, list) /\ UNCHANGED coded
      BY <2>2 DEF OneOrderJudged
    <3>1. PICK list : Judges(o, list) /\ UNCHANGED coded
      BY <3>0
    <3>2. CASE TurnsAway(o, list)
      BY <3>1, <3>2 DEF TurnsAway, orderVars
    <3>3. ASSUME NEW d \in Events, Takes(o, list, d)
          PROVE  Pipeline!Capture(o) \/ Pipeline!Void(o)
      <4>1. orderStatus[o] = "created" /\ ledger[o] = {}
        BY <1>2, <3>3, OrderRowType, ApplyMeans, WaitingOrder DEF Takes
      <4>2. orderStatus' = [orderStatus EXCEPT ![o] = marked(d).status]
        BY <3>3 DEF Takes
      <4>3. CASE payload[d].status = "paid"
        <5>1. ledger' = [ledger EXCEPT ![o] = @ \cup {"payment_captured"}]
          BY <3>3, <4>3 DEF Takes
        <5> QED
          BY <3>1, <4>1, <4>2, <4>3, <5>1, MarkedType
          DEF Pipeline!Capture, Pipeline!Moves, Pipeline!Books
      <4>4. CASE payload[d].status # "paid"
        <5>1. UNCHANGED ledger
          BY <3>3, <4>4 DEF Takes
        <5> QED
          BY <3>1, <4>1, <4>2, <4>4, <5>1, MarkedType DEF Pipeline!Void, Pipeline!Moves
      <4> QED
        BY <4>3, <4>4
    <3> QED
      BY <3>1, <3>2, <3>3 DEF Judges, Pipeline!Next
  <2>3. ASSUME NEW o \in Orders, PipelineStep(o) PROVE Pipeline!Next
    BY <2>3 DEF PipelineStep, Pipeline!Next
  <2> QED
    BY <1>2, <2>1, <2>2, <2>3 DEF Kinds
<1>3. TypeOK /\ IInv /\ [Next]_vars => [Pipeline!Next]_Pipeline!vars
  BY <1>2, InvStep DEF Pipeline!vars
<1> QED
  BY <1>1, <1>3, Invariant, PTL DEF Spec, ImplementsSettlement, Pipeline!Spec

-----------------------------------------------------------------------------
(* Answers *)

\* What an answer relies on: a request that is about to answer stands on a
\* stored event, and so does every answer given before.
AnswersStand ==
    /\ \A r \in Requests : requests[r].pc = "reply" => events[requests[r].event] # "absent"
    /\ \A e \in acked : events[e] # "absent"

\* A stored event stays stored.
LEMMA StoredStays ==
    ASSUME Kinds, NEW e \in Events, events[e] # "absent"
    PROVE  events'[e] # "absent"
<1>1. CASE NothingJudged
  BY <1>1 DEF NothingJudged
<1>2. CASE OneOrderJudged
  <2>1. PICK o \in Orders : \E list : Judges(o, list)
    BY <1>2 DEF OneOrderJudged
  <2>2. PICK list : Judges(o, list)
    BY <2>1
  <2> QED
    BY <2>2, VerdictsDecide DEF Judges, TurnsAway, Takes, Undecided
<1>3. ASSUME NEW o \in Orders, PipelineStep(o) PROVE UNCHANGED events
  BY <1>3 DEF PipelineStep
<1> QED
  BY <1>1, <1>2, <1>3 DEF Kinds

\* A commit stores the event of its request, whatever was found.
LEMMA CommitStores ==
    ASSUME TypeOK, NEW r \in Requests, Commit(r)
    PROVE  events'[requests[r].event] # "absent"
<1> DEFINE q == requests[r]
<1>1. q.event \in Events /\ events \in [Events -> EventState]
  BY RequestType DEF Commit, TypeOK
<1>2. CASE q.found = "order"
  <2>1. \A order : apply(order, q.event) # "absent"
    BY DEF apply
  <2>2. PICK i : events'[q.event] = Judgement(q.order, <<q.event>>, i) /\ i = 1
    <3>1. \A i \in DOMAIN <<q.event>> : i = 1 /\ <<q.event>>[i] = q.event
      OBVIOUS
    <3>2. (CHOOSE i \in DOMAIN <<q.event>> : <<q.event>>[i] = q.event) = 1
      BY <3>1
    <3> QED
      BY <1>1, <1>2, <3>1, <3>2 DEF Commit, Settles
  <2> QED
    BY <2>1, <2>2 DEF Judgement
<1>3. CASE q.found # "order"
  BY <1>1, <1>3 DEF Commit
<1> QED
  BY <1>2, <1>3

LEMMA AnswersStandStep ==
    ASSUME TypeOK, IInv, ~ReplyFirst, AnswersStand, [Next]_vars
    PROVE  AnswersStand'
<1>1. \A e \in Events : events[e] # "absent" => events'[e] # "absent"
  BY InvStep, StoredStays
<1>2. \A r \in Requests : requests[r].pc = "reply" => requests[r].event \in Events
  BY RequestType
<1>3. acked \subseteq Events
  BY DEF TypeOK
<1>4. ASSUME NEW r \in Requests, NEW q, Step(r, q), UNCHANGED acked,
             q.pc = "reply" => events'[q.event] # "absent"
      PROVE  AnswersStand'
  BY <1>1, <1>2, <1>3, <1>4 DEF AnswersStand, Step, TypeOK
<1>5. CASE UNCHANGED <<requests, acked>>
  BY <1>1, <1>2, <1>3, <1>5 DEF AnswersStand
<1>6. NoRequest.pc = "idle"
  BY DEF NoRequest
<1>7. ASSUME NEW r \in Requests, NEW e \in Events, Receive(r, e)
      PROVE  AnswersStand'
  <2>1. PICK q : Step(r, q) /\ q.pc = "insert"
    BY <1>7 DEF Receive
  <2> QED
    BY <1>4, <1>7, <2>1 DEF Receive
<1>8. ASSUME NEW r \in Requests, InsertIfNew(r)
      PROVE  AnswersStand'
  <2> DEFINE q == requests[r]
             next == IF events[q.event] = "absent" THEN [q EXCEPT !.pc = "lookup"]
                     ELSE [q EXCEPT !.pc = "reply", !.found = "duplicate"]
  <2>1. Step(r, next) /\ UNCHANGED acked /\ UNCHANGED events
    BY <1>8 DEF InsertIfNew
  <2>2. next.pc = "reply" => events[next.event] # "absent"
    BY <1>8, RequestType DEF InsertIfNew
  <2> QED
    BY <1>4, <2>1, <2>2
<1>9. ASSUME NEW r \in Requests, Lookup(r)
      PROVE  AnswersStand'
  <2> DEFINE q == requests[r]
             o == payload[q.event].order_id
             found == [q EXCEPT !.pc = "commit", !.found = "order", !.order = OrderRow(o)]
             missing == [q EXCEPT !.pc = "commit", !.found = "missing"]
  <2>1. Step(r, found) \/ Step(r, missing)
    BY <1>9 DEF Lookup, AfterWork, AnswersFirst
  <2>2. found.pc = "commit" /\ missing.pc = "commit"
    BY <1>9, RequestType DEF Lookup
  <2>3. UNCHANGED acked
    BY <1>9 DEF Lookup
  <2> HIDE DEF found, missing
  <2> QED
    BY <1>4, <2>1, <2>2, <2>3
<1>10. ASSUME NEW r \in Requests, Commit(r)
       PROVE  AnswersStand'
  <2> DEFINE q == requests[r]
             next == [q EXCEPT !.pc = "reply"]
  <2>1. next.pc = "reply" /\ next.event = q.event
    BY <1>10, RequestType DEF Commit
  <2>2. Step(r, next) /\ UNCHANGED acked
    BY <1>10, <2>1 DEF Commit, Ends, AnswersFirst
  <2>3. events'[q.event] # "absent"
    BY <1>10, CommitStores
  <2> QED
    BY <1>4, <2>1, <2>2, <2>3
<1>11. ASSUME NEW r \in Requests, Reply(r)
       PROVE  AnswersStand'
  <2> DEFINE q == requests[r]
  <2>1. q.pc = "reply" /\ ~Uncommitted(r) /\ q.event \in Events
    BY <1>2, <1>11 DEF Reply, Uncommitted, AnswersFirst
  <2>2. [q EXCEPT !.pc = "idle"].pc = "idle"
    BY <1>11, <2>1, RequestType
  <2>3. Step(r, NoRequest) /\ acked' = acked \cup {q.event}
    BY <1>11, <2>1, <2>2 DEF Reply, Ends
  <2>4. events'[q.event] # "absent"
    BY <1>1, <2>1 DEF AnswersStand
  <2> QED
    BY <1>1, <1>2, <1>3, <1>6, <2>3, <2>4 DEF AnswersStand, Step, TypeOK
<1>12. ASSUME NEW r \in Requests, RequestFails(r)
       PROVE  AnswersStand'
  BY <1>4, <1>6, <1>12 DEF RequestFails
<1>13. CASE Crash
  BY <1>1, <1>3, <1>6, <1>13 DEF Crash, AnswersStand
<1>14. ASSUME NEW o \in Orders,
              \/ CreateReplays(o) \/ CreateCommits(o) \/ CreateFails(o)
              \/ PipelineStep(o)
       PROVE  AnswersStand'
  BY <1>5, <1>14 DEF CreateReplays, CreateCommits, CreateFails, PipelineStep
<1>15. ASSUME NEW s \in Sweepers, SweepLists(s) \/ SweepReplays(s) \/ SweepFails(s)
       PROVE  AnswersStand'
  BY <1>5, <1>15 DEF SweepLists, SweepReplays, SweepFails
<1> QED
  BY <1>5, <1>7, <1>8, <1>9, <1>10, <1>11, <1>12, <1>13, <1>14, <1>15
  DEF Next, Serve, vars

\* Where the commit precedes the answer, a 200 means that the event is stored,
\* whoever dies and whatever fails: the order of the two is all that the
\* documented promise lacks.
THEOREM AnswerAfterCommitKeepsPromise == ~ReplyFirst => (Spec => []AckedIsStored)
<1> SUFFICES ASSUME ~ReplyFirst PROVE Spec => []AckedIsStored
  OBVIOUS
<1>1. Init => AnswersStand
  BY DEF Init, AnswersStand, NoRequest
<1>2. TypeOK /\ IInv /\ AnswersStand /\ [Next]_vars => AnswersStand'
  BY AnswersStandStep
<1>3. AnswersStand => AckedIsStored
  BY DEF AnswersStand, AckedIsStored
<1> QED
  BY <1>1, <1>2, <1>3, Invariant, PTL DEF Spec
===============================================================================
