------------------------------- MODULE Payments -------------------------------
(***************************************************************************)
(* How an order is paid: the payment system's webhooks, which come late,   *)
(* early, twice and out of order, the creation of the order, which looks   *)
(* for events that came before it, and the sweeper's replay of the events  *)
(* that missed the creation.                                               *)
(*                                                                         *)
(* A webhook request is one transaction, but not one step: it inserts the  *)
(* event, then locks and reads the order, and commits only when the        *)
(* request ends, with the answer before or after the commit.  Nobody sees  *)
(* what it wrote before that.                                              *)
(*                                                                         *)
(* The delivery pipeline appears as what module Delivery is proved to      *)
(* implement: the steps of Settlement that come after the payment.         *)
(***************************************************************************)
EXTENDS ShopDomain, FiniteSets

CONSTANTS
    Orders,      \* orders that the payment system knows of
    Events,      \* ids of payment events
    Requests,    \* webhook requests that are served at the same time
    Sweepers,    \* worker processes, each with its Sweeper
    payload,     \* what each event says: order_id, status, whether amount and
                 \* currency are the order's, and occurred_at
    OrphanLimit, \* order ids a replay pass takes at a time
    ReplyFirst,  \* the answer is sent before the request's transaction commits
    Budget       \* how often each kind of disturbance may happen

(***************************************************************************)
(*   db_error   a transaction fails and is rolled back                     *)
(*   crash      the API process dies                                       *)
(*   resend     the payment system repeats an event it has an answer for   *)
(***************************************************************************)
Disturbance == {"db_error", "crash", "resend"}

Payload == [order_id : Orders, status : {"paid", "failed"},
            amount_matches : BOOLEAN, occurred_at : Nat \ {0}]

PaymentsAssumption ==
    /\ payload \in [Events -> Payload]
    /\ IsFiniteSet(Events)
    /\ OrphanLimit \in Nat \ {0}
    /\ ReplyFirst \in BOOLEAN
    /\ Budget \in [Disturbance -> Nat]

ASSUME PaymentsAssumption

VARIABLES
    exists,      \* the orders whose creation is committed
    orderStatus, \* orders.status, "created" for an order that is not there yet
    lastEventAt, \* orders.last_payment_event_at, 0 for NULL
    ledger,      \* per order, the event types posted for it
    coded,       \* the orders with a delivered code (the pipeline's business)
    jobs,        \* the orders for which a delivery job was queued
    events,      \* payment_events: what became of each event
    requests,    \* the webhook requests being served
    creating,    \* per order, where OrderService.create_order stands
    sweeps,      \* per sweeper, the order ids its replay still has to visit
    acked,       \* the events the payment system got a 200 for
    budget       \* disturbances left

orderVars == <<orderStatus, lastEventAt, ledger, jobs>>
vars == <<exists, orderStatus, lastEventAt, ledger, coded, jobs, events,
          requests, creating, sweeps, acked, budget>>

Pipeline == INSTANCE Settlement

-----------------------------------------------------------------------------
(* Judging an event *)

Rejections == {"order_final", "stale_event", "not_applicable", "already_paid",
               "amount_mismatch"}

\* What the columns applied, orphan and rejected_reason of an event say.
EventState == {"absent", "orphan", "applied"} \cup Rejections

\* The part of an order row that a payment event reads and writes.
Order == [status : OrderStatus, last : Nat]

NewOrder == [status |-> "created", last |-> 0]

OrderRow(o) == [status |-> orderStatus[o], last |-> lastEventAt[o]]

is_stale(order, e) == order.last # 0 /\ payload[e].occurred_at < order.last

\* Mutant: the amount is compared before anything else.
apply_amount_first(order, e) ==
    IF ~payload[e].amount_matches THEN "amount_mismatch"
    ELSE IF order.status # "created" THEN "already_paid" ELSE "applied"

\* PaymentService._apply: "applied", or the reason why not.
apply(order, e) ==
    IF is_final(order.status) THEN "order_final"
    ELSE IF is_stale(order, e) THEN "stale_event"
    ELSE IF payload[e].status = "failed"
         THEN IF order.status # "created" THEN "not_applicable" ELSE "applied"
    ELSE IF order.status # "created" THEN "already_paid"
    ELSE IF ~payload[e].amount_matches THEN "amount_mismatch"
    ELSE "applied"

\* Mutant: the status of the event becomes the status of the order.
marked_event_status(e) == [status |-> payload[e].status, last |-> payload[e].occurred_at]

\* The order after _mark_paid or _mark_failed.
marked(e) == [status |-> IF payload[e].status = "paid" THEN "paid" ELSE "payment_failed",
              last |-> payload[e].occurred_at]

(***************************************************************************)
(* A list of events judged one after the other, as apply_pending_orphans   *)
(* does.  An order takes at most one event: those before it are judged by  *)
(* the order as it was, those after it by the order it left.               *)
(***************************************************************************)
Takers(order, list) == {i \in DOMAIN list : apply(order, list[i]) = "applied"}

Decisive(order, list) ==
    CHOOSE i \in Takers(order, list) : \A k \in Takers(order, list) : i <= k

OrderAfter(order, list) ==
    IF Takers(order, list) = {} THEN order ELSE marked(list[Decisive(order, list)])

Judgement(order, list, i) ==
    IF Takers(order, list) = {} \/ i <= Decisive(order, list)
    THEN apply(order, list[i])
    ELSE apply(OrderAfter(order, list), list[i])

\* What the transaction that judged the list writes when it commits.
Settles(o, order, list) ==
    LET after == OrderAfter(order, list)
    IN  /\ events' = [e \in Events |->
                         IF \E i \in DOMAIN list : list[i] = e
                         THEN Judgement(order, list, CHOOSE i \in DOMAIN list : list[i] = e)
                         ELSE events[e]]
        /\ IF after = order THEN UNCHANGED <<orderStatus, lastEventAt>>
           ELSE /\ orderStatus' = [orderStatus EXCEPT ![o] = after.status]
                /\ lastEventAt' = [lastEventAt EXCEPT ![o] = after.last]
        /\ IF after # order /\ after.status = "paid"
           THEN /\ ledger' = [ledger EXCEPT ![o] = @ \cup {"payment_captured"}]
                /\ jobs' = jobs \cup {o}
           ELSE UNCHANGED <<ledger, jobs>>

-----------------------------------------------------------------------------
(* Reading the events *)

OfOrder(o) == {e \in Events : payload[e].order_id = o}

\* Mutant: every event of the order is listed.
Pending_all(o) == {e \in OfOrder(o) : events[e] # "absent"}

Pending(o) == {e \in OfOrder(o) : events[e] = "orphan"}

\* list_pending_orphans: by occurred_at; the order of equals is left open.
PendingLists(o) ==
    {list \in [1 .. Cardinality(Pending(o)) -> Pending(o)] :
        \A i, k \in DOMAIN list :
            i < k => /\ list[i] # list[k]
                     /\ payload[list[i]].occurred_at <= payload[list[k]].occurred_at}

\* Mutant: orders that are already decided are passed over.
OrphanOrders_undecided == {o \in Orders : Pending(o) # {} /\ lastEventAt[o] = 0}

OrphanOrders == {o \in Orders : Pending(o) # {}}

-----------------------------------------------------------------------------
(* Webhook requests *)

NoRequest == [pc |-> "idle"]

\* found is what the request learnt: a known event, no order, or the order.
Request == {NoRequest} \cup
           [pc : {"insert", "lookup", "commit", "reply"}, event : Events,
            found : {"nothing", "duplicate", "missing", "order"}, order : Order]

\* The session is committed in the exit part of the dependency get_session.
AnswersFirst == ReplyFirst

AfterWork == IF AnswersFirst THEN "reply" ELSE "commit"

\* The request has written its event and not committed it.
Uncommitted(r) ==
    /\ requests[r].pc \in {"lookup", "commit", "reply"}
    /\ requests[r].pc = "reply" => AnswersFirst
    /\ requests[r].found # "duplicate"

\* Mutant: the order is read without FOR UPDATE.
Locked_never(o) == FALSE

\* The order's row is locked until the request that read it commits.
Locked(o) ==
    \E r \in Requests : /\ Uncommitted(r)
                        /\ requests[r].found = "order"
                        /\ payload[requests[r].event].order_id = o

Step(r, request) == requests' = [requests EXCEPT ![r] = request]

Ends(r, request) == Step(r, IF request.pc = "idle" THEN NoRequest ELSE request)

Spend(d) == budget[d] > 0 /\ budget' = [budget EXCEPT ![d] = @ - 1]

\* The payment system sends an event until it has a 200 for it, and sometimes
\* once more.
Receive(r, e) ==
    /\ requests[r] = NoRequest
    /\ IF e \in acked THEN Spend("resend") ELSE UNCHANGED budget
    /\ Step(r, [pc |-> "insert", event |-> e, found |-> "nothing", order |-> NewOrder])
    /\ UNCHANGED <<exists, orderVars, coded, events, creating, sweeps, acked>>

\* ON CONFLICT waits for a transaction that has inserted the same event.
InsertIfNew(r) ==
    LET q == requests[r]
    IN  /\ q.pc = "insert"
        /\ \A p \in Requests \ {r} : Uncommitted(p) => requests[p].event # q.event
        /\ Step(r, IF events[q.event] = "absent" THEN [q EXCEPT !.pc = "lookup"]
                   ELSE [q EXCEPT !.pc = "reply", !.found = "duplicate"])
        /\ UNCHANGED <<exists, orderVars, coded, events, creating, sweeps, acked, budget>>

\* OrderRepository.get_for_update, and the verdict on what it reads.
Lookup(r) ==
    LET q == requests[r]
        o == payload[q.event].order_id
    IN  /\ q.pc = "lookup"
        /\ ~Locked(o)
        /\ Step(r, IF o \in exists
                   THEN [q EXCEPT !.pc = AfterWork, !.found = "order", !.order = OrderRow(o)]
                   ELSE [q EXCEPT !.pc = AfterWork, !.found = "missing"])
        /\ UNCHANGED <<exists, orderVars, coded, events, creating, sweeps, acked, budget>>

Commit(r) ==
    LET q == requests[r]
    IN  /\ q.pc = "commit"
        /\ IF q.found = "order"
           THEN Settles(payload[q.event].order_id, q.order, <<q.event>>)
           ELSE /\ events' = [events EXCEPT ![q.event] = "orphan"]
                /\ UNCHANGED orderVars
        /\ Ends(r, [q EXCEPT !.pc = IF AnswersFirst THEN "idle" ELSE "reply"])
        /\ UNCHANGED <<exists, coded, creating, sweeps, acked, budget>>

Reply(r) ==
    LET q == requests[r]
    IN  /\ q.pc = "reply"
        /\ acked' = acked \cup {q.event}
        /\ Ends(r, [q EXCEPT !.pc = IF Uncommitted(r) THEN "commit" ELSE "idle"])
        /\ UNCHANGED <<exists, orderVars, coded, events, creating, sweeps, budget>>

\* A statement or the commit fails: rolled back, 5xx unless already answered.
RequestFails(r) ==
    /\ requests[r].pc \in {"insert", "lookup", "commit"}
    /\ Spend("db_error")
    /\ Step(r, NoRequest)
    /\ UNCHANGED <<exists, orderVars, coded, events, creating, sweeps, acked>>

-----------------------------------------------------------------------------
(* OrderService.create_order: nobody sees the order before its commit *)

Creation == [pc : {"off", "commit", "lost"}, list : Seq(Events)]

NotCreated == [pc |-> "off", list |-> <<>>]

CreateReplays(o) ==
    /\ creating[o].pc = "off"
    /\ o \notin exists
    /\ \E list \in PendingLists(o) :
          creating' = [creating EXCEPT ![o] = [pc |-> "commit", list |-> list]]
    /\ UNCHANGED <<exists, orderVars, coded, events, requests, sweeps, acked, budget>>

CreateCommits(o) ==
    /\ creating[o].pc = "commit"
    /\ exists' = exists \cup {o}
    /\ Settles(o, NewOrder, creating[o].list)
    /\ creating' = [creating EXCEPT ![o] = NotCreated]
    /\ UNCHANGED <<coded, requests, sweeps, acked, budget>>

\* Rolled back; another attempt of the client makes an order of another id.
CreateFails(o) ==
    /\ creating[o].pc = "commit"
    /\ Spend("db_error")
    /\ creating' = [creating EXCEPT ![o] = [pc |-> "lost", list |-> <<>>]]
    /\ UNCHANGED <<exists, orderVars, coded, events, requests, sweeps, acked>>

\* The API process dies with everything it was serving.
Crash ==
    /\ Spend("crash")
    /\ requests' = [r \in Requests |-> NoRequest]
    /\ creating' = [o \in Orders |-> IF creating[o].pc = "commit"
                                     THEN [pc |-> "lost", list |-> <<>>] ELSE creating[o]]
    /\ UNCHANGED <<exists, orderVars, coded, events, sweeps, acked>>

-----------------------------------------------------------------------------
(* Sweeper._replay_orphans *)

\* LIMIT without ORDER BY: any of the order ids.
SweepLists(s) ==
    /\ sweeps[s] = {}
    /\ \E ids \in SUBSET OrphanOrders :
          /\ ids # {}
          /\ ids = OrphanOrders \/ Cardinality(ids) = OrphanLimit
          /\ Cardinality(ids) <= OrphanLimit
          /\ sweeps' = [sweeps EXCEPT ![s] = ids]
    /\ UNCHANGED <<exists, orderVars, coded, events, requests, creating, acked, budget>>

\* One transaction per order id, under the order's lock.
SweepReplays(s) ==
    \E o \in sweeps[s] :
        /\ sweeps' = [sweeps EXCEPT ![s] = @ \ {o}]
        /\ IF o \in exists
           THEN /\ ~Locked(o)
                /\ \E list \in PendingLists(o) : Settles(o, OrderRow(o), list)
           ELSE UNCHANGED <<events, orderVars>>
        /\ UNCHANGED <<exists, coded, requests, creating, acked, budget>>

SweepFails(s) ==
    /\ sweeps[s] # {}
    /\ Spend("db_error")
    /\ sweeps' = [sweeps EXCEPT ![s] = {}]
    /\ UNCHANGED <<exists, orderVars, coded, events, requests, creating, acked>>

-----------------------------------------------------------------------------
\* A transaction of the delivery pipeline, which locks the order as well.
PipelineStep(o) ==
    /\ ~Locked(o)
    /\ Pipeline!Start(o) \/ Pipeline!GiveUp(o) \/ Pipeline!Deliver(o)
    /\ UNCHANGED <<exists, lastEventAt, jobs, events, requests, creating, sweeps,
                   acked, budget>>

Init ==
    /\ exists = {}
    /\ Pipeline!Init
    /\ lastEventAt = [o \in Orders |-> 0]
    /\ jobs = {}
    /\ events = [e \in Events |-> "absent"]
    /\ requests = [r \in Requests |-> NoRequest]
    /\ creating = [o \in Orders |-> NotCreated]
    /\ sweeps = [s \in Sweepers |-> {}]
    /\ acked = {}
    /\ budget = Budget

\* What the program does with a request it has received.
Serve(r) == InsertIfNew(r) \/ Lookup(r) \/ Commit(r) \/ Reply(r)

Next ==
    \/ \E r \in Requests : \/ \E e \in Events : Receive(r, e)
                           \/ Serve(r)
                           \/ RequestFails(r)
    \/ \E o \in Orders : CreateReplays(o) \/ CreateCommits(o) \/ CreateFails(o)
    \/ \E o \in Orders : PipelineStep(o)
    \/ \E s \in Sweepers : SweepLists(s) \/ SweepReplays(s) \/ SweepFails(s)
    \/ Crash

Spec == Init /\ [][Next]_vars

-----------------------------------------------------------------------------
(* Properties *)

\* Every variable has its type.
TypeOK ==
    /\ exists \subseteq Orders
    /\ orderStatus \in [Orders -> OrderStatus]
    /\ lastEventAt \in [Orders -> Nat]
    /\ ledger \in [Orders -> SUBSET {"payment_captured", "delivery_completed"}]
    /\ coded \subseteq Orders
    /\ jobs \subseteq Orders
    /\ events \in [Events -> EventState]
    /\ requests \in [Requests -> Request]
    /\ creating \in [Orders -> Creation]
    /\ sweeps \in [Sweepers -> SUBSET Orders]
    /\ acked \subseteq Events
    /\ budget \in [Disturbance -> Nat]

Applied(o) == {e \in OfOrder(o) : events[e] = "applied"}

\* However many events of an order arrive, in whatever order and on whatever
\* way (webhook, creation, sweeper), exactly one of them takes the order out of
\* "created", and everything that follows from it is that event's: the status,
\* the time later events are compared with, the ledger and the delivery job.
OneEventDecides ==
    \A o \in Orders :
        \/ /\ orderStatus[o] = "created" /\ Applied(o) = {}
           /\ lastEventAt[o] = 0 /\ o \notin jobs
        \/ \E e \in OfOrder(o) :
              /\ Applied(o) = {e}
              /\ o \in exists
              /\ lastEventAt[o] = payload[e].occurred_at
              /\ IF payload[e].status = "failed"
                 THEN orderStatus[o] = "payment_failed" /\ o \notin jobs
                 ELSE /\ payload[e].amount_matches
                      /\ orderStatus[o] \notin {"created", "payment_failed"}
                      /\ o \in jobs

\* An event is turned away for the reason that is stored with it, and a payment
\* in the right amount never while the order still waits for one.
RejectedForCause ==
    \A e \in Events :
        LET o == payload[e].order_id
        IN  /\ events[e] \in Rejections /\ payload[e].amount_matches =>
                  orderStatus[o] # "created"
            /\ events[e] = "amount_mismatch" =>
                  payload[e].status = "paid" /\ ~payload[e].amount_matches
            /\ events[e] = "stale_event" => payload[e].occurred_at < lastEventAt[o]
            /\ events[e] \in {"not_applicable", "already_paid"} =>
                  orderStatus[o] \notin {"created", "payment_failed"}

\* An event is judged once: a repeated webhook or a second replay changes
\* nothing about an event that has been applied or rejected.
JudgedOnce ==
    [][\A e \in Events :
          events[e] \notin {"absent", "orphan"} => events'[e] = events[e]]_events

\* README.md:400-402 and schemas.py:53-55: an answer 200 means that the event
\* is stored.  An event with an answer is stored, or about to be: no fault
\* makes the shop forget it.
AckedIsStored ==
    \A e \in acked :
        \/ events[e] # "absent"
        \/ \E r \in Requests : Uncommitted(r) /\ requests[r].event = e

\* Payments and pipeline together keep the promise about the money.
ImplementsSettlement == Pipeline!Spec

-----------------------------------------------------------------------------
(***************************************************************************)
(* A request that is being served ends.  The sweeper of a running worker   *)
(* makes its passes; webhooks may lock the order in front of it, though    *)
(* not for ever, so its steps are weakly fair.                             *)
(***************************************************************************)
Fairness ==
    /\ \A r \in Requests : WF_vars(Serve(r))
    /\ \A s \in Sweepers : WF_vars(SweepLists(s)) /\ WF_vars(SweepReplays(s))

FairSpec == Spec /\ Fairness

\* worker/jobs.py:35-36: an event that came before its order and missed its
\* creation is replayed, as long as a pass takes every order id there is.
OrphanIsReplayed ==
    \A e \in Events :
        events[e] = "orphan" /\ payload[e].order_id \in exists ~> events[e] # "orphan"
=============================================================================
