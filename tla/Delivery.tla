------------------------------- MODULE Delivery -------------------------------
(***************************************************************************)
(* The delivery pipeline: paid orders, the delivery rows and the job queue *)
(* of the database, worker processes that claim jobs and obtain a code     *)
(* from a chain of suppliers, the sweeper inside every worker, the         *)
(* administrator's retry and the suppliers' key stores.                    *)
(*                                                                         *)
(* One action is one database transaction, one exchange with a supplier or *)
(* one fault.  Transactions on the same order hold its row lock            *)
(* (SELECT ... FOR UPDATE), so each is atomic; nothing is locked between   *)
(* them, and that is where the interleavings are.                          *)
(***************************************************************************)
EXTENDS ShopDomain, FiniteSets

CONSTANTS
    Orders,               \* orders, all in status "created" at the start
    Workers,              \* worker processes
    JobIds,               \* row ids of delivery_jobs that are in use at a time
    Codes,                \* every code a supplier can hand out
    NoOrder, NoCode,      \* null values
    StartKeys,            \* per supplier, the sequence of keys it starts with
    RestockKeys,          \* per supplier, the set of keys it may be restocked with
    supplier_max_attempts,\* exchanges of one SupplierClient.issue
    job_max_attempts,     \* claims after which an unknown outcome buries the job
    worker_batch_size,    \* jobs a worker claims at a time
    Budget                \* how often each kind of disturbance may happen

(***************************************************************************)
(* The disturbances a run may contain.                                     *)
(*   crash          a worker process dies, with everything it was doing    *)
(*   db_error       a transaction of a task fails and is rolled back       *)
(*   connect_failed a connection to a supplier is not established          *)
(*   no_answer      an exchange ends without a usable answer               *)
(*   delayed        a request the client gave up on stays under way        *)
(*   stall          a live worker is older than stuck_order_age_s          *)
(*   retry          the administrator calls retry-delivery                 *)
(*   restock        a supplier gets one more key                           *)
(***************************************************************************)
Disturbance == {"crash", "db_error", "connect_failed", "no_answer",
                "delayed", "stall", "retry", "restock"}

DeliveryAssumption ==
    /\ NoOrder \notin Orders
    /\ NoCode \notin Codes
    /\ StartKeys \in [Suppliers -> Seq(Codes)]
    /\ RestockKeys \in [Suppliers -> SUBSET Codes]
    /\ supplier_max_attempts \in Nat \ {0}
    /\ job_max_attempts \in Nat \ {0}
    /\ worker_batch_size \in Nat \ {0}
    /\ Budget \in [Disturbance -> Nat]

ASSUME DeliveryAssumption

VARIABLES
    orderStatus,   \* orders.status
    ledger,        \* per order, the event types posted for it
    rows,          \* deliveries: per order and supplier
    jobs,          \* delivery_jobs
    tasks,         \* per worker and claimed job, the running Worker._process
    sweeps,        \* per worker, where its Sweeper.run_once stands
    retrying,      \* orders between the two transactions of retry_delivery
    free,          \* per supplier, the keys still in the pool
    issued,        \* per supplier, the code bound to the order's request_id
    late,          \* requests under way whose client no longer waits
    budget         \* disturbances left

database == <<orderStatus, ledger, rows, jobs>>
suppliers == <<free, issued, late>>
vars == <<orderStatus, ledger, rows, jobs, tasks, sweeps, retrying,
          free, issued, late, budget>>

-----------------------------------------------------------------------------
(* The records of the state *)

Reasons == {"none", "out_of_stock", "other"}

Row == [status : DeliveryStatus, code : Codes \cup {NoCode}, reason : Reasons]

NoRow == [status |-> "absent", code |-> NoCode, reason |-> "none"]

Job == [order : Orders \cup {NoOrder}, state : JobState \cup {"none"}, attempts : Nat]

NoJob == [order |-> NoOrder, state |-> "none", attempts |-> 0]

Running(job) == [order |-> job.order, state |-> "running", attempts |-> job.attempts + 1]

\* Answers of SupplierClient.issue, then values of DeliveryOutcome; "crashed"
\* is an exception that leaves DeliveryService.run.
Answers == {"none", "ok", "refused", "unknown"}
TERMINAL_OK == {"delivered", "already_delivered", "skipped",
                "out_of_stock", "chain_exhausted"}
RetryOutcomes == {"retry_fallback", "retry_same_supplier"}
Outcomes == TERMINAL_OK \cup RetryOutcomes \cup {"failed", "crashed"}

Task == [pc : {"idle", "prepare", "call", "record", "supersede", "settle"},
         order : Orders \cup {NoOrder},
         attempt : Nat,
         supplier : Suppliers \cup {NoSupplier},
         call : Nat,
         result : Answers \cup Outcomes,
         code : Codes \cup {NoCode},
         reason : Reasons]

Idle == [pc |-> "idle", order |-> NoOrder, attempt |-> 0, supplier |-> NoSupplier,
         call |-> 0, result |-> "none", code |-> NoCode, reason |-> "none"]

Claimed(order, attempt) == [Idle EXCEPT !.pc = "prepare", !.order = order,
                                        !.attempt = attempt]

Asking(task, supplier) == [task EXCEPT !.pc = "call", !.supplier = supplier,
                                       !.call = 1]

Answered(task, answer, code, reason) ==
    [task EXCEPT !.pc = "record", !.result = answer, !.code = code, !.reason = reason]

Settling(task, outcome) ==
    [Claimed(task.order, task.attempt) EXCEPT !.pc = "settle", !.result = outcome]

\* Mutant: a timeout counts as a refusal.
GivesUp_as_refused(task) == Answered(task, "refused", NoCode, "other")

\* SupplierClient.issue raises the last SupplierUnknown.
GivesUp(task) == Answered(task, "unknown", NoCode, "other")

SweepOff == [pc |-> "off", todo |-> {}, current |-> NoOrder]

Sweep == [pc : {"off", "collect", "reset", "enqueue"},
          todo : SUBSET Orders, current : Orders \cup {NoOrder}]

-----------------------------------------------------------------------------
(* Reading the database *)

statuses(o) == [s \in Suppliers |-> rows[o][s].status]

Succeeded(o) == {s \in Suppliers : rows[o][s].status = "succeeded"}

ActiveJobs(o) == {j \in JobIds : jobs[j].order = o /\ jobs[j].state \in ActiveStates}

Held(ts, j) == \E w \in Workers : ts[w][j].pc # "idle"

Busy(w) == \E j \in JobIds : tasks[w][j].pc # "idle"

\* The loop of Worker.run is at its top: no batch in hand and no sweep.
AtLoopTop(w) == ~Busy(w) /\ sweeps[w].pc = "off"

(* Writing it *)

\* Rows in state done or dead are never read again, except by the task that
\* still holds their id: without such a task they leave the model.
Retain(js, ts) ==
    [j \in JobIds |-> IF js[j].state \in ActiveStates \/ Held(ts, j)
                      THEN js[j] ELSE NoJob]

\* DeliveryJobRepository.enqueue: the possible tables after it.  An active job
\* of the order makes it a no-op (ON CONFLICT DO NOTHING).
enqueue(o) ==
    IF ActiveJobs(o) # {} THEN {jobs}
    ELSE {[jobs EXCEPT ![j] = [order |-> o, state |-> "queued", attempts |-> 0]] :
              j \in {k \in JobIds : jobs[k] = NoJob}}

\* DeliveryRepository.record_outcome
record_outcome(o, s, status, code, reason) ==
    [rows EXCEPT ![o][s] = [status |-> status, code |-> code, reason |-> reason]]

\* Mutant: every row of the order is reset.
reset_every_row(o) ==
    [rows EXCEPT ![o] = [s \in Suppliers |->
        IF rows[o][s].status # "absent"
        THEN [rows[o][s] EXCEPT !.status = "pending", !.reason = "none"]
        ELSE rows[o][s]]]

\* Mutant: superseded rows are reset along with the refusals.
reset_passed_rows(o) ==
    [rows EXCEPT ![o] = [s \in Suppliers |->
        IF rows[o][s].status \in PassedStatuses
        THEN [rows[o][s] EXCEPT !.status = "pending", !.reason = "none"]
        ELSE rows[o][s]]]

\* DeliveryRepository.reset_known_negatives
reset_known_negatives(o) ==
    [rows EXCEPT ![o] = [s \in Suppliers |->
        IF rows[o][s].status = "known_negative"
        THEN [rows[o][s] EXCEPT !.status = "pending", !.reason = "none"]
        ELSE rows[o][s]]]

\* LedgerRepository.post: a repeated event type of an order is absorbed.
post(o, event) == [ledger EXCEPT ![o] = @ \cup {event}]

\* DeliveryService._finalize_exhausted on the order's rows rs: the status the
\* order gets and the outcome of the attempt.
ExhaustedOutcome(rs) ==
    IF \E s \in Suppliers : rs[s].reason = "out_of_stock"
    THEN "out_of_stock" ELSE "chain_exhausted"

\* Mutant: the outcome of the attempt is written as the order's status.
ExhaustedStatus_outcome(rs) == ExhaustedOutcome(rs)

ExhaustedStatus(rs) ==
    IF ExhaustedOutcome(rs) = "out_of_stock" THEN "out_of_stock" ELSE "delivery_failed"

finalize_exhausted(o, rs) ==
    orderStatus' = [orderStatus EXCEPT ![o] =
                        IF @ = "delivering" THEN ExhaustedStatus(rs) ELSE @]

\* Mutant: an exhausted job fails the order whatever has happened to it.
UnknownStatus_unguarded(status, exhausted) ==
    IF exhausted THEN "delivery_failed" ELSE status

\* What _record_unknown makes of the order's status.
UnknownStatus(status, exhausted) ==
    IF exhausted /\ status = "delivering" THEN "delivery_failed" ELSE status

Spend(kinds) ==
    /\ \A d \in kinds : budget[d] > 0
    /\ budget' = [d \in Disturbance |-> IF d \in kinds THEN budget[d] - 1 ELSE budget[d]]

Become(w, j, task) == tasks' = [tasks EXCEPT ![w][j] = task]

-----------------------------------------------------------------------------
(* Payment, as the pipeline sees it: the transaction of PaymentService that *)
(* takes an order out of "created".                                         *)

Pay(o) ==
    /\ orderStatus[o] = "created"
    /\ orderStatus' = [orderStatus EXCEPT ![o] = "paid"]
    /\ ledger' = post(o, "payment_captured")
    /\ jobs' \in enqueue(o)
    /\ UNCHANGED <<rows, tasks, sweeps, retrying, suppliers, budget>>

FailPayment(o) ==
    /\ orderStatus[o] = "created"
    /\ orderStatus' = [orderStatus EXCEPT ![o] = "payment_failed"]
    /\ UNCHANGED <<ledger, rows, jobs, tasks, sweeps, retrying, suppliers, budget>>

-----------------------------------------------------------------------------
(* The worker: claim a batch *)

\* Mutant: the claim does not look at the state.
ReadyJobs_active == {j \in JobIds : jobs[j].state \in ActiveStates}

ReadyJobs == {j \in JobIds : jobs[j].state = "queued"}

\* run_after only delays a queued job; which of the queued ones are ready is
\* left open.
Claim(w) ==
    /\ AtLoopTop(w)
    /\ \E batch \in SUBSET ReadyJobs :
          /\ batch # {}
          /\ Cardinality(batch) <= worker_batch_size
          /\ jobs' = [j \in JobIds |->
                        IF j \in batch
                        THEN Running(jobs[j])
                        ELSE jobs[j]]
          /\ tasks' = [tasks EXCEPT ![w] = [j \in JobIds |->
                        IF j \in batch
                        THEN Claimed(jobs[j].order, jobs[j].attempts + 1)
                        ELSE Idle]]
    /\ UNCHANGED <<orderStatus, ledger, rows, sweeps, retrying, suppliers, budget>>

(* Phase 1, DeliveryService._prepare: one transaction under the order lock *)

PrepareSkips(w, j) ==
    LET t == tasks[w][j]
        status == orderStatus[t.order]
    IN  /\ t.pc = "prepare"
        /\ status \notin DELIVERABLE_STATUSES
        /\ Become(w, j, Settling(t, IF status = "delivered" THEN "already_delivered"
                                                            ELSE "skipped"))
        /\ UNCHANGED <<database, sweeps, retrying, suppliers, budget>>

\* Nobody to ask: either a code is already there (_finalize_delivered) or
\* every supplier is passed over.
PrepareEnds(w, j) ==
    LET t == tasks[w][j]
        o == t.order
    IN  /\ t.pc = "prepare"
        /\ orderStatus[o] \in DELIVERABLE_STATUSES
        /\ Succeeded(o) # {} \/ choose_supplier(statuses(o)) = NoSupplier
        /\ IF Succeeded(o) # {}
           THEN /\ orderStatus' = [orderStatus EXCEPT ![o] = "delivered"]
                /\ ledger' = post(o, "delivery_completed")
                /\ Become(w, j, Settling(t, "already_delivered"))
           ELSE /\ finalize_exhausted(o, rows[o])
                /\ Become(w, j, Settling(t, ExhaustedOutcome(rows[o])))
                /\ UNCHANGED ledger
        /\ UNCHANGED <<rows, jobs, sweeps, retrying, suppliers, budget>>

PrepareTargets(w, j) ==
    LET t == tasks[w][j]
        o == t.order
        s == choose_supplier(statuses(o))
    IN  /\ t.pc = "prepare"
        /\ orderStatus[o] \in DELIVERABLE_STATUSES
        /\ Succeeded(o) = {}
        /\ s # NoSupplier
        /\ orderStatus' = [orderStatus EXCEPT ![o] = "delivering"]
        /\ rows' = IF rows[o][s].status = "absent"
                   THEN record_outcome(o, s, "pending", NoCode, "none") ELSE rows
        /\ Become(w, j, Asking(t, s))
        /\ UNCHANGED <<ledger, jobs, sweeps, retrying, suppliers, budget>>

-----------------------------------------------------------------------------
(* Phase 2, SupplierClient.issue against the supplier's POST /issue: no     *)
(* transaction is open.  An exchange without a usable answer is repeated    *)
(* with the same request_id; an answer or a refusal ends the call.          *)

CodeFor(s, o) == IF issued[s][o] # NoCode THEN issued[s][o] ELSE Head(free[s])

CanIssue(s, o) == issued[s][o] # NoCode \/ free[s] # <<>>

\* Mutant: a repeated request gets the next key while there is one.
KeyStoreIssue_afresh(s, o) ==
    IF free[s] = <<>> THEN UNCHANGED <<free, issued>>
    ELSE /\ issued' = [issued EXCEPT ![s][o] = Head(free[s])]
         /\ free' = [free EXCEPT ![s] = Tail(@)]

\* KeyStore.issue: the request_id, one per order and supplier, keeps its code.
KeyStoreIssue(s, o) ==
    IF issued[s][o] # NoCode THEN UNCHANGED <<free, issued>>
    ELSE /\ issued' = [issued EXCEPT ![s][o] = Head(free[s])]
         /\ free' = [free EXCEPT ![s] = Tail(@)]

SupplierIssues(w, j) ==
    LET t == tasks[w][j]
    IN  /\ t.pc = "call"
        /\ CanIssue(t.supplier, t.order)
        /\ KeyStoreIssue(t.supplier, t.order)
        /\ Become(w, j, Answered(t, "ok", CodeFor(t.supplier, t.order), "none"))
        /\ UNCHANGED <<database, sweeps, retrying, late, budget>>

\* An empty pool or a chaos decision; a request_id that already has its code
\* is never refused.
SupplierRefuses(w, j) ==
    LET t == tasks[w][j]
    IN  /\ t.pc = "call"
        /\ issued[t.supplier][t.order] = NoCode
        /\ \E reason \in {"out_of_stock", "other"} :
              Become(w, j, Answered(t, "refused", NoCode, reason))
        /\ UNCHANGED <<database, sweeps, retrying, suppliers, budget>>

ConnectFails(w, j) ==
    LET t == tasks[w][j]
    IN  /\ t.pc = "call"
        /\ Spend({"connect_failed"})
        /\ Become(w, j, Answered(t, "refused", NoCode, "other"))
        /\ UNCHANGED <<database, sweeps, retrying, suppliers>>

\* The client learns nothing: it asks again, or gives the outcome up.
NothingLearnt(w, j) ==
    LET t == tasks[w][j]
    IN  /\ t.pc = "call"
        /\ IF t.call < supplier_max_attempts
           THEN Become(w, j, [t EXCEPT !.call = @ + 1])
           ELSE Become(w, j, GivesUp(t))
        /\ UNCHANGED <<database, sweeps, retrying>>

\* The supplier binds a code and then hangs, or its answer is lost or broken.
AnswerLost(w, j) ==
    LET t == tasks[w][j]
    IN  /\ NothingLearnt(w, j)
        /\ Spend({"no_answer"})
        /\ CanIssue(t.supplier, t.order)
        /\ KeyStoreIssue(t.supplier, t.order)
        /\ UNCHANGED late

RequestLost(w, j) ==
    /\ NothingLearnt(w, j)
    /\ Spend({"no_answer"})
    /\ UNCHANGED suppliers

\* The request itself is slow: the supplier will serve it after the client has
\* given up on it.
RequestDelayed(w, j) ==
    /\ NothingLearnt(w, j)
    /\ Spend({"delayed"})
    /\ late' = late \cup {<<tasks[w][j].order, tasks[w][j].supplier>>}
    /\ UNCHANGED <<free, issued>>

LateRequestServed ==
    \E request \in late :
        /\ late' = late \ {request}
        /\ IF CanIssue(request[2], request[1])
           THEN KeyStoreIssue(request[2], request[1]) ELSE UNCHANGED <<free, issued>>
        /\ UNCHANGED <<database, tasks, sweeps, retrying, budget>>

Restock(s) ==
    /\ Spend({"restock"})
    /\ \E key \in RestockKeys[s] :
          /\ \A i \in DOMAIN free[s] : free[s][i] # key
          /\ \A o \in Orders : issued[s][o] # key
          /\ free' = [free EXCEPT ![s] = Append(@, key)]
    /\ UNCHANGED <<database, tasks, sweeps, retrying, issued, late>>

-----------------------------------------------------------------------------
(* Phase 3: one transaction under the order lock *)

\* Mutant: without uq_deliveries_code.
BreaksUniqueIndex_no_code(o, s, code) == Succeeded(o) \ {s} # {}

\* uq_deliveries_one_success_per_order and uq_deliveries_code
BreaksUniqueIndex(o, s, code) ==
    \/ Succeeded(o) \ {s} # {}
    \/ \E p \in Orders, r \in Suppliers :
          /\ <<p, r>> # <<o, s>>
          /\ rows[p][r].status = "succeeded"
          /\ rows[p][r].code = code

\* The UPDATE breaks a unique index: everything is rolled back.
SuccessConflicts(w, j) ==
    LET t == tasks[w][j]
    IN  /\ t.pc = "record" /\ t.result = "ok"
        /\ BreaksUniqueIndex(t.order, t.supplier, t.code)
        /\ Become(w, j, [t EXCEPT !.pc = "supersede"])
        /\ UNCHANGED <<database, sweeps, retrying, suppliers, budget>>

RecordSuccess(w, j) ==
    LET t == tasks[w][j]
        o == t.order
    IN  /\ t.pc = "record" /\ t.result = "ok"
        /\ ~BreaksUniqueIndex(o, t.supplier, t.code)
        /\ IF orderStatus[o] = "delivered" \/ can_transition(orderStatus[o], "delivered")
           THEN /\ rows' = record_outcome(o, t.supplier, "succeeded", t.code, "none")
                /\ orderStatus' = [orderStatus EXCEPT ![o] = "delivered"]
                /\ ledger' = IF orderStatus[o] = "delivered" THEN ledger
                             ELSE post(o, "delivery_completed")
                /\ Become(w, j, Settling(t, "delivered"))
           ELSE \* InvalidTransition rolls the recorded code back as well.
                /\ Become(w, j, Settling(t, "crashed"))
                /\ UNCHANGED <<rows, orderStatus, ledger>>
        /\ UNCHANGED <<jobs, sweeps, retrying, suppliers, budget>>

\* The one write of a task that does not lock the order.
RecordSuperseded(w, j) ==
    LET t == tasks[w][j]
    IN  /\ t.pc = "supersede"
        /\ rows' = record_outcome(t.order, t.supplier, "superseded", t.code, "other")
        /\ Become(w, j, Settling(t, "already_delivered"))
        /\ UNCHANGED <<orderStatus, ledger, jobs, sweeps, retrying, suppliers, budget>>

RecordRefusal(w, j) ==
    LET t == tasks[w][j]
        o == t.order
        rs == record_outcome(o, t.supplier, "known_negative", NoCode, t.reason)
        next == choose_supplier([s \in Suppliers |-> rs[o][s].status])
    IN  /\ t.pc = "record" /\ t.result = "refused"
        /\ rows' = rs
        /\ IF next # NoSupplier
           THEN /\ Become(w, j, Settling(t, "retry_fallback"))
                /\ UNCHANGED orderStatus
           ELSE /\ finalize_exhausted(o, rs[o])
                /\ Become(w, j, Settling(t, ExhaustedOutcome(rs[o])))
        /\ UNCHANGED <<ledger, jobs, sweeps, retrying, suppliers, budget>>

RecordUnknown(w, j) ==
    LET t == tasks[w][j]
        o == t.order
        exhausted == t.attempt >= job_max_attempts
    IN  /\ t.pc = "record" /\ t.result = "unknown"
        /\ rows' = record_outcome(o, t.supplier, "unknown", NoCode, t.reason)
        /\ orderStatus' = [orderStatus EXCEPT ![o] = UnknownStatus(@, exhausted)]
        /\ Become(w, j, Settling(t, IF exhausted THEN "failed" ELSE "retry_same_supplier"))
        /\ UNCHANGED <<ledger, jobs, sweeps, retrying, suppliers, budget>>

\* The transaction of any phase fails: rolled back, the exception reaches
\* Worker._process.
DatabaseFails(w, j) ==
    LET t == tasks[w][j]
    IN  /\ t.pc \in {"prepare", "record", "supersede"}
        /\ Spend({"db_error"})
        /\ Become(w, j, Settling(t, "crashed"))
        /\ UNCHANGED <<database, sweeps, retrying, suppliers>>

-----------------------------------------------------------------------------
(* Worker._process settles the job.  Neither statement looks at who the job *)
(* belongs to by now.                                                       *)

\* Mutant: an exception buries the job at once.
Reschedules_not_crashed(t) == t.result \in RetryOutcomes

Reschedules(t) == \/ t.result \in RetryOutcomes
                  \/ t.result = "crashed" /\ t.attempt < job_max_attempts

FinalState(t) == IF t.result \in TERMINAL_OK THEN "done" ELSE "dead"

FinishJob(w, j) ==
    LET t == tasks[w][j]
    IN  /\ t.pc = "settle" /\ ~Reschedules(t)
        /\ Become(w, j, Idle)
        /\ jobs' = Retain([jobs EXCEPT ![j].state = FinalState(t)], tasks')
        /\ UNCHANGED <<orderStatus, ledger, rows, sweeps, retrying, suppliers, budget>>

RescheduleJob(w, j) ==
    LET t == tasks[w][j]
    IN  /\ t.pc = "settle" /\ Reschedules(t)
        /\ ActiveJobs(jobs[j].order) \subseteq {j}
        /\ Become(w, j, Idle)
        /\ jobs' = [jobs EXCEPT ![j].state = "queued"]
        /\ UNCHANGED <<orderStatus, ledger, rows, sweeps, retrying, suppliers, budget>>

Drop(w) ==
    /\ tasks' = [tasks EXCEPT ![w] = [j \in JobIds |-> Idle]]
    /\ sweeps' = [sweeps EXCEPT ![w] = SweepOff]
    /\ jobs' = Retain(jobs, tasks')
    /\ UNCHANGED <<orderStatus, ledger, rows, retrying, free, issued>>

\* Another job of the order is active: the unique index refuses the UPDATE,
\* the exception leaves asyncio.gather and ends the worker.
RescheduleBreaks(w, j) ==
    LET t == tasks[w][j]
    IN  /\ t.pc = "settle" /\ Reschedules(t)
        /\ ~(ActiveJobs(jobs[j].order) \subseteq {j})
        /\ Drop(w)
        /\ UNCHANGED <<late, budget>>

\* A worker dies anywhere and is started again.  A request it had sent may be
\* lost with it, or still be under way.
Crash(w) ==
    /\ Busy(w) \/ sweeps[w].pc # "off"
    /\ Drop(w)
    /\ \/ Spend({"crash"}) /\ UNCHANGED late
       \/ \E j \in JobIds :
             /\ tasks[w][j].pc = "call"
             /\ Spend({"crash", "delayed"})
             /\ late' = late \cup {<<tasks[w][j].order, tasks[w][j].supplier>>}

-----------------------------------------------------------------------------
(* Sweeper.run_once, between two batches of the same worker.  Ages are not  *)
(* modelled: which of the old enough jobs and orders it sees is left open.  *)

SweepRequeue(w) ==
    /\ AtLoopTop(w)
    /\ \E stale \in SUBSET {j \in JobIds : jobs[j].state = "running"} :
          /\ IF \E j \in stale : Held(tasks, j) THEN Spend({"stall"})
                                                ELSE UNCHANGED budget
          /\ jobs' = [j \in JobIds |-> IF j \in stale
                                       THEN [jobs[j] EXCEPT !.state = "queued"]
                                       ELSE jobs[j]]
    /\ sweeps' = [sweeps EXCEPT ![w].pc = "collect"]
    /\ UNCHANGED <<orderStatus, ledger, rows, tasks, retrying, suppliers>>

\* Mutant: orders whose chain is exhausted are left alone.
StuckOrders_unfailed == {o \in Orders : orderStatus[o] \in {"paid", "delivering"}
                                       /\ ActiveJobs(o) = {}}

StuckOrders == {o \in Orders : orderStatus[o] \in UNSETTLED_STATUSES /\ ActiveJobs(o) = {}}

SweepCollect(w) ==
    /\ sweeps[w].pc = "collect"
    /\ \E stuck \in SUBSET StuckOrders :
          sweeps' = [sweeps EXCEPT ![w] =
                        IF stuck = {} THEN SweepOff
                        ELSE [pc |-> "reset", todo |-> stuck, current |-> NoOrder]]
    /\ UNCHANGED <<database, tasks, retrying, suppliers, budget>>

SweepReset(w) ==
    /\ sweeps[w].pc = "reset"
    /\ \E o \in sweeps[w].todo :
          /\ rows' = reset_known_negatives(o)
          /\ sweeps' = [sweeps EXCEPT ![w] = [pc |-> "enqueue",
                                              todo |-> @.todo \ {o}, current |-> o]]
    /\ UNCHANGED <<orderStatus, ledger, jobs, tasks, retrying, suppliers, budget>>

SweepEnqueue(w) ==
    /\ sweeps[w].pc = "enqueue"
    /\ jobs' \in enqueue(sweeps[w].current)
    /\ sweeps' = [sweeps EXCEPT ![w] =
                     IF @.todo = {} THEN SweepOff
                     ELSE [@ EXCEPT !.pc = "reset", !.current = NoOrder]]
    /\ UNCHANGED <<orderStatus, ledger, rows, tasks, retrying, suppliers, budget>>

\* A failing statement ends the pass (Worker._safe); what was committed stays.
SweepFails(w) ==
    /\ sweeps[w].pc # "off"
    /\ Spend({"db_error"})
    /\ sweeps' = [sweeps EXCEPT ![w] = SweepOff]
    /\ UNCHANGED <<database, tasks, retrying, suppliers>>

(* POST /admin/orders/{id}/retry-delivery: prepare_recovery commits on its  *)
(* own, the job is committed when the request ends.                         *)

RetryResets(o) ==
    /\ o \notin retrying
    /\ Spend({"retry"})
    /\ rows' = reset_known_negatives(o)
    /\ retrying' = retrying \cup {o}
    /\ UNCHANGED <<orderStatus, ledger, jobs, tasks, sweeps, suppliers>>

RetryEnqueues(o) ==
    /\ o \in retrying
    /\ jobs' \in enqueue(o)
    /\ retrying' = retrying \ {o}
    /\ UNCHANGED <<orderStatus, ledger, rows, tasks, sweeps, suppliers, budget>>

-----------------------------------------------------------------------------
Init ==
    /\ orderStatus = [o \in Orders |-> "created"]
    /\ ledger = [o \in Orders |-> {}]
    /\ rows = [o \in Orders |-> [s \in Suppliers |-> NoRow]]
    /\ jobs = [j \in JobIds |-> NoJob]
    /\ tasks = [w \in Workers |-> [j \in JobIds |-> Idle]]
    /\ sweeps = [w \in Workers |-> SweepOff]
    /\ retrying = {}
    /\ free = StartKeys
    /\ issued = [s \in Suppliers |-> [o \in Orders |-> NoCode]]
    /\ late = {}
    /\ budget = Budget

\* What the code of one task does.
TaskStep(w, j) ==
    \/ PrepareSkips(w, j)     \/ PrepareEnds(w, j)    \/ PrepareTargets(w, j)
    \/ SuccessConflicts(w, j) \/ RecordSuccess(w, j)  \/ RecordSuperseded(w, j)
    \/ RecordRefusal(w, j)    \/ RecordUnknown(w, j)
    \/ FinishJob(w, j)        \/ RescheduleJob(w, j)  \/ RescheduleBreaks(w, j)

\* How an exchange with a supplier ends.
ExchangeStep(w, j) ==
    \/ SupplierIssues(w, j)   \/ SupplierRefuses(w, j)
    \/ ConnectFails(w, j)     \/ AnswerLost(w, j)
    \/ RequestLost(w, j)      \/ RequestDelayed(w, j)

SweepStep(w) ==
    SweepRequeue(w) \/ SweepCollect(w) \/ SweepReset(w) \/ SweepEnqueue(w)

Next ==
    \/ \E w \in Workers, j \in JobIds :
          TaskStep(w, j) \/ ExchangeStep(w, j) \/ DatabaseFails(w, j)
    \/ \E w \in Workers : Claim(w) \/ SweepStep(w) \/ SweepFails(w) \/ Crash(w)
    \/ \E o \in Orders : Pay(o) \/ FailPayment(o) \/ RetryResets(o) \/ RetryEnqueues(o)
    \/ \E s \in Suppliers : Restock(s)
    \/ LateRequestServed

Spec == Init /\ [][Next]_vars

-----------------------------------------------------------------------------
(* Properties *)

\* The null values occur only where the code has nothing to store: a job row
\* names its order, a task names an order, the one of its job, and from the call
\* on a supplier; the sweeper enqueues an order.
RecordsWhole ==
    /\ \A j \in JobIds : jobs[j] # NoJob => /\ jobs[j].order \in Orders
                                          /\ jobs[j].state # "none"
    /\ \A w \in Workers, j \in JobIds :
          /\ tasks[w][j].pc # "idle" => /\ tasks[w][j].order \in Orders
                                        /\ jobs[j].order = tasks[w][j].order
          /\ tasks[w][j].pc \in {"call", "record", "supersede"} =>
                tasks[w][j].supplier \in Suppliers
    /\ \A w \in Workers : sweeps[w].pc = "enqueue" => sweeps[w].current \in Orders

\* Every variable has its type (the columns of the tables, the fields of the
\* records the worker carries).
TypeOK ==
    /\ orderStatus \in [Orders -> OrderStatus]
    /\ ledger \in [Orders -> SUBSET {"payment_captured", "delivery_completed"}]
    /\ rows \in [Orders -> [Suppliers -> Row]]
    /\ jobs \in [JobIds -> Job]
    /\ tasks \in [Workers -> [JobIds -> Task]]
    /\ sweeps \in [Workers -> Sweep]
    /\ retrying \subseteq Orders
    /\ free \in [Suppliers -> Seq(Codes)]
    /\ issued \in [Suppliers -> [Orders -> Codes \cup {NoCode}]]
    /\ late \subseteq Orders \X Suppliers
    /\ budget \in [Disturbance -> Nat]
    /\ RecordsWhole

\* A succeeded row and the status "delivered" are committed together, so an
\* order with a code is never offered to a supplier again and the healing
\* branch of _prepare (delivery_service.py:133-144) is never taken.
SucceededImpliesDelivered ==
    \A o \in Orders : Succeeded(o) # {} => orderStatus[o] = "delivered"

\* The open liability of an order (ledger.py:open_liabilities) is exactly
\* "money taken, goods not handed over": the postings never run ahead of or
\* behind the status, whatever fails between the phases.
LiabilityMatchesStatus ==
    \A o \in Orders :
        ledger[o] = CASE orderStatus[o] \in {"created", "payment_failed"} -> {}
                      [] orderStatus[o] \in UNSETTLED_STATUSES -> {"payment_captured"}
                      [] orderStatus[o] = "delivered" ->
                             {"payment_captured", "delivery_completed"}

\* No supplier is asked for an order that is not paid for: not through a job
\* the administrator queued for an unpaid order, nor through a request that
\* arrives late.
NothingLeavesUnpaid ==
    \A o \in Orders :
        "payment_captured" \notin ledger[o] =>
            /\ \A s \in Suppliers :
                  /\ rows[o][s].status = "absent"
                  /\ issued[s][o] = NoCode
                  /\ <<o, s>> \notin late
            /\ \A w \in Workers, j \in JobIds :
                  tasks[w][j].order = o =>
                      tasks[w][j].pc \in {"prepare", "settle"}

\* A status only ever changes along ALLOWED_TRANSITIONS, and a final status
\* not at all, although three services and three processes write it.
LawfulTransitions ==
    [][\A o \in Orders :
          orderStatus'[o] # orderStatus[o] =>
              can_transition(orderStatus[o], orderStatus'[o])]_orderStatus

\* The queue hands an order to one task at a time (unique active job, claim
\* under SKIP LOCKED, requeue only of dead workers' jobs).
OneRunPerOrder ==
    \A w, v \in Workers : \A j, k \in JobIds :
        /\ tasks[w][j].pc # "idle"
        /\ tasks[v][k].pc # "idle"
        /\ tasks[w][j].order = tasks[v][k].order
        => w = v /\ j = k

\* A delivered order has exactly one succeeded row, and the row holds the code
\* that its supplier bound to the request: nothing overwrites it later.
DeliveredKeepsCode ==
    \A o \in Orders :
        orderStatus[o] = "delivered" =>
            \E s \in Suppliers :
                /\ Succeeded(o) = {s}
                /\ rows[o][s].code # NoCode
                /\ rows[o][s].code = issued[s][o]

\* A code some supplier has bound to an order is the order's code or will be:
\* as long as it is not recorded, the next attempt asks that very supplier.
\* Hence at most one supplier ever spends a key on an order.
IssuedCodeStaysReachable ==
    \A o \in Orders, s \in Suppliers :
        issued[s][o] # NoCode =>
            \/ /\ orderStatus[o] \in UNSETTLED_STATUSES
               /\ choose_supplier(statuses(o)) = s
            \/ rows[o][s] = [status |-> "succeeded", code |-> issued[s][o],
                             reason |-> "none"]

\* Two orders are never delivered the same code, also when the pools overlap.
CodeGivenOnce ==
    \A o, p \in Orders : \A s, r \in Suppliers :
        /\ rows[o][s].status = "succeeded"
        /\ rows[p][r].status = "succeeded"
        /\ rows[o][s].code = rows[p][r].code
        => o = p /\ s = r

\* A code that could not be used stays on record for the reconciliation
\* report: recovery never clears or re-asks a superseded row.
SupersededIsKept ==
    [][\A o \in Orders, s \in Suppliers :
          rows[o][s].status = "superseded" => rows'[o][s] = rows[o][s]]_rows

\* models/delivery.py:65-67: the job is queued in the transaction that marks
\* the order paid, "so it cannot be lost".
PaidHasJob ==
    \A o \in Orders : orderStatus[o] = "paid" => ActiveJobs(o) # {}

\* exceptions.py:72 and deliveries.py:83-84: a known negative row means that
\* the supplier has issued no code for the request.
KnownNegativeIsProof ==
    \A o \in Orders, s \in Suppliers :
        rows[o][s].status = "known_negative" => issued[s][o] = NoCode

\* domain/fallback.py:7-10: from an unknown outcome the only way on is the same
\* supplier; nobody else is asked while a row is unknown.
UnknownIsSticky ==
    \A w \in Workers, j \in JobIds :
        tasks[w][j].pc = "call" =>
            \A s \in Suppliers \ {tasks[w][j].supplier} :
                rows[tasks[w][j].order][s].status # "unknown"

-----------------------------------------------------------------------------
(* Liveness; module Exchange states the fairness it needs *)

\* Every paid order is delivered in the end, whatever finite number of crashes,
\* failed transactions, lost answers and refusals it meets.
PaidIsDelivered ==
    \A o \in Orders : orderStatus[o] = "paid" ~> orderStatus[o] = "delivered"

-----------------------------------------------------------------------------
(* What the pipeline promises, as a refinement *)

WithCode == {o \in Orders : Succeeded(o) # {}}

Money == INSTANCE Settlement WITH coded <- WithCode

\* Whatever happens the pipeline implements Settlement.
ImplementsSettlement == Money!Spec

Phase == [o \in Orders |->
            CASE orderStatus[o] = "created" -> "open"
              [] orderStatus[o] = "payment_failed" -> "void"
              [] orderStatus[o] \in UNSETTLED_STATUSES -> "owed"
              [] orderStatus[o] = "delivered" -> "settled"]

BoundCodes == [o \in Orders |-> {issued[s][o] : s \in Suppliers} \ {NoCode}]

HandedCode == [o \in Orders |->
                 IF Succeeded(o) = {} THEN NoCode
                 ELSE rows[o][CHOOSE s \in Succeeded(o) : TRUE].code]

Promise == INSTANCE ExactlyOnce
               WITH phase <- Phase, bound <- BoundCodes, handed <- HandedCode

\* Under one worker process, with established connections and fewer unknown
\* outcomes than a job has attempts, the pipeline implements ExactlyOnce.
ImplementsExactlyOnce == Promise!Spec
=============================================================================
