------------------------------ MODULE Sessions ------------------------------
(***************************************************************************)
(* The transactions of the shop, statement by statement: which row locks   *)
(* and which entries of unique indexes each kind of transaction takes and  *)
(* in which order, how many connections it holds, whom it waits for, and   *)
(* what it has read by then.  Delivery and Payments take a transaction     *)
(* that works under the order lock for one step; here the steps are its    *)
(* statements, READ COMMITTED as PostgreSQL runs them: what a session      *)
(* wrote is seen by others at its commit, and an INSERT that meets an      *)
(* uncommitted entry of a unique index waits for the end of its writer.    *)
(***************************************************************************)
EXTENDS Reports

CONSTANTS
    Sessions,    \* the sessions of the run; one that creates an order names it
    Events,      \* event ids of payments
    NoOrder,     \* no order under the idempotency key
    Plans,       \* who may do what: sets of functions from Sessions to tasks
    StartStatus, \* the statuses that the orders may have at the beginning
    ApiPool,     \* db_pool_size + db_max_overflow of the API process
    MaxErrors    \* bound: statements that fail by themselves

Kinds == {"create", "webhook", "retry", "sweep", "replay", "deliver", "report",
          "view"}

SessionTask == [kind : Kinds, order : Orders, event : Events]

SessionsAssumption ==
    /\ IsFiniteSet(Sessions)
    /\ Plans \subseteq [Sessions -> SessionTask]
    /\ StartStatus \subseteq [Orders -> {"created", "out_of_stock"}]
    /\ NoOrder \notin Sessions
    /\ ApiPool \in Nat \ {0}
    /\ MaxErrors \in Nat

ASSUME SessionsAssumption

\* Reports only read, so that one of them stands for all: report and watch are
\* its.
OneReport == \A p \in Plans : \A s, t \in Sessions :
                p[s].kind = "report" /\ p[t].kind = "report" => s = t

ASSUME OneReport

VARIABLES
    plan,          \* what each session does
    at,            \* the statement each session comes to next
    conns,         \* connections of the pool each session holds
    locks,         \* row locks each session holds
    wrote,         \* uncommitted writes of each session
    answer,        \* the order a creation answers with
    owner,         \* the committed order under the idempotency key
    received,      \* committed payment events
    orderStatus, paid_at, ledger, coded, jobs,  \* committed, per order
    superseded,    \* committed rows with a code that is delivered elsewhere
    report,        \* what a report has read so far
    view,          \* what a GET of an order has read so far
    watch,         \* what happened to the orders while a report was read
    errors         \* failures left

control == <<plan, at, conns, locks, wrote>>
orderTables == <<orderStatus, paid_at, ledger, coded, superseded>>
tables  == <<owner, received, orderTables, jobs>>
results == <<answer, report, view, watch>>
vars    == <<control, tables, results, errors>>

\* How a session ends; "lost" if its client had the answer before the failure.
Ended == {"done", "failed", "lost"}

\* The statements of a report, in their order.
Lists == <<"paid_not_delivered", "delivered_not_paid", "superseded_codes", "total_balance",
           "open_liabilities">>

ReportPlaces == {Lists[i] : i \in DOMAIN Lists}

\* Mutant: the order is read after its code.
ViewParts_code_first == <<"code", "status", "attempts">>

\* The statements of GET /orders/{id}, in their order: the row of the order, the
\* code of its succeeded delivery, the list of its deliveries.
ViewParts == <<"status", "code", "attempts">>

ViewPlaces == {ViewParts[i] : i \in DOMAIN ViewParts}

Places == {"begin", "lookup", "insert", "reread", "event", "order", "enqueue", "reference",
           "read", "recover", "claim", "prepare", "rows", "supersede", "finish", "requeue", "reply",
           "commit"} \cup ReportPlaces \cup ViewPlaces \cup Ended

Start(kind) == CASE kind = "create"  -> "lookup"
                 [] kind = "webhook" -> "event"
                 [] kind = "retry"   -> "read"
                 [] kind = "sweep"   -> "begin"
                 [] kind = "replay"  -> "order"
                 [] kind = "deliver" -> "claim"
                 [] kind = "report"  -> "begin"
                 [] kind = "view"    -> ViewParts[1]

NoReport == [paid_not_delivered |-> {}, delivered_not_paid |-> {}, superseded_codes |-> {},
             total_balance |-> 0, open_liabilities |-> {}]

\* Does it say delivered, does it show the code, is a succeeded delivery listed.
NoView == [part \in ViewPlaces |-> FALSE]

NoWatch == [recent |-> {}, owed |-> {}, moved |-> {}, superseded |-> {}]

-----------------------------------------------------------------------------
(* Connections.  A session holds one from its first statement to the end of *)
(* its transaction; retry_delivery needs a second one, for prepare_recovery *)
(* works in a session of its own.  The worker process has its own pool and  *)
(* asks for one connection at a time, holding none: it never waits there.   *)

ApiKinds == {"create", "webhook", "retry", "report", "view"}

IsApi(s) == plan[s].kind \in ApiKinds

Needed(s) == IF at[s] = "recover" THEN 2 ELSE 1

\* Mutant: a pool without a limit.
CanConnect_always(s) == TRUE

\* The connections that are checked out.
InUse == {c \in Sessions \X (1 .. 2) : c[2] <= conns[c[1]]}

CanConnect(s) == Cardinality(InUse) < ApiPool

WantsConnection(s) == /\ IsApi(s)
                      /\ at[s] \notin Ended \cup {"begin", "reply", "commit"}
                      /\ conns[s] < Needed(s)

-----------------------------------------------------------------------------
(* Locks.  "update" is SELECT ... FOR UPDATE of an order, "share" the       *)
(* FOR KEY SHARE of a foreign key check on it; "rows" are the delivery rows *)
(* of an order.  "key", "event" and "job" are entries of unique indexes,    *)
(* held by an uncommitted insert.                                           *)

Lock(kind, row) == <<kind, row>>

Held(s) == locks[s] \cup wrote[s]

Conflicts(held, wanted) ==
    \/ held = wanted /\ wanted[1] \in {"update", "rows", "key", "event", "job"}
    \/ held[2] = wanted[2] /\ {held[1], wanted[1]} = {"update", "share"}

\* Mutant: the webhook reads its order without a lock.
Wanted_unlocked(s) ==
    LET o == plan[s].order
    IN  CASE at[s] = "insert"    -> {Lock("key", "key")}
          [] at[s] = "event"     -> {Lock("event", plan[s].event)}
          [] at[s] = "prepare"   -> {Lock("update", o)}
          [] at[s] = "order" /\ plan[s].kind = "deliver" -> {Lock("update", o)}
          [] at[s] \in {"rows", "supersede", "recover"} -> {Lock("rows", o)}
          [] at[s] = "enqueue"   -> {Lock("job", o)}
          [] at[s] = "reference" -> {Lock("share", o)}
          [] OTHER -> {}

\* Mutant: two creations with one key do not meet in the index.
Wanted_no_key(s) ==
    LET o == plan[s].order
    IN  CASE at[s] = "event"     -> {Lock("event", plan[s].event)}
          [] at[s] \in {"order", "prepare"} -> {Lock("update", o)}
          [] at[s] \in {"rows", "supersede", "recover"} -> {Lock("rows", o)}
          [] at[s] = "enqueue"   -> {Lock("job", o)}
          [] at[s] = "reference" -> {Lock("share", o)}
          [] OTHER -> {}

\* What the statement a session has come to must lock or insert.
Wanted(s) ==
    LET o == plan[s].order
    IN  CASE at[s] = "insert"    -> {Lock("key", "key")}
          [] at[s] = "event"     -> {Lock("event", plan[s].event)}
          [] at[s] \in {"order", "prepare"} -> {Lock("update", o)}
          [] at[s] \in {"rows", "supersede", "recover"} -> {Lock("rows", o)}
          [] at[s] = "enqueue"   -> {Lock("job", o)}
          [] at[s] = "reference" -> {Lock("share", o)}
          [] OTHER -> {}

Blockers(s) == {t \in Sessions \ {s} :
                  \E held \in Held(t), wanted \in Wanted(s) : Conflicts(held, wanted)}

-----------------------------------------------------------------------------
(* Parts of statements *)

\* Session s, connected and waiting for nobody, executes the statement place.
Executes(s, place) == /\ at[s] = place
                      /\ ~WantsConnection(s)
                      /\ Blockers(s) = {}

Goes(s, place) == at' = [at EXCEPT ![s] = place]

Takes(s) == locks' = [locks EXCEPT ![s] = @ \cup Wanted(s)]

Writes(s, write) == wrote' = [wrote EXCEPT ![s] = @ \cup {write}]

\* Mutant: the scope ends without a rollback.
Releases_nothing(s) == /\ conns' = [conns EXCEPT ![s] = 0]
                       /\ UNCHANGED <<locks, wrote>>

\* The end of a transaction: nothing stays behind.
Releases(s) == /\ conns' = [conns EXCEPT ![s] = 0]
               /\ locks' = [locks EXCEPT ![s] = {}]
               /\ wrote' = [wrote EXCEPT ![s] = {}]

-----------------------------------------------------------------------------
(* What a transaction does to the tables when it ends *)

Capture(o) == <<"capture", o>>   \* _mark_paid and its posting
Success(o) == <<"success", o>>   \* _record_success and its posting

\* A report is under way: what happens to the orders meanwhile is watched.
Reading == \E s \in Sessions : at[s] \in ReportPlaces

Watches(changed) ==
    watch' = IF Reading
             THEN [watch EXCEPT !.moved = @ \cup changed,
                                !.owed = @ \cap Owed(orderStatus', paid_at')]
             ELSE watch

Publishes(s) ==
    LET captured == {o \in Orders : Capture(o) \in wrote[s]}
        handed   == {o \in Orders : Success(o) \in wrote[s]}
    IN  /\ owner' = IF Lock("key", "key") \in wrote[s] THEN s ELSE owner
        /\ received' = received \cup {e \in Events : Lock("event", e) \in wrote[s]}
        /\ orderStatus' = [o \in Orders |-> IF o \in captured THEN "paid"
                                            ELSE IF o \in handed THEN "delivered"
                                            ELSE orderStatus[o]]
        /\ paid_at' = [o \in Orders |-> paid_at[o] \/ o \in captured]
        /\ ledger' = [o \in Orders |->
                         ledger[o] \cup (IF o \in captured THEN {"payment_captured"} ELSE {})
                                   \cup (IF o \in handed THEN {"delivery_completed"} ELSE {})]
        /\ coded' = coded \cup handed
        /\ UNCHANGED superseded
        /\ jobs' = [o \in Orders |->
                       IF Lock("job", o) \in wrote[s] THEN "queued" ELSE jobs[o]]
        /\ Watches(captured \cup handed)

-----------------------------------------------------------------------------
(* Every request *)

\* A checkout from the pool.
Connect(s) == /\ WantsConnection(s)
              /\ CanConnect(s)
              /\ conns' = [conns EXCEPT ![s] = @ + 1]
              /\ UNCHANGED <<plan, at, locks, wrote, tables, results, errors>>

\* The answer is sent before the transaction is committed (see Payments).
Reply(s) == /\ Executes(s, "reply")
            /\ Goes(s, "commit")
            /\ UNCHANGED <<plan, conns, locks, wrote, tables, results, errors>>

Commit(s) == /\ Executes(s, "commit")
             /\ Publishes(s)
             /\ Releases(s)
             /\ Goes(s, IF plan[s].kind = "deliver" THEN "finish" ELSE "done")
             /\ UNCHANGED <<plan, answer, report, view, errors>>

-----------------------------------------------------------------------------
(* OrderService.create_order under an idempotency key; what it does with    *)
(* early payments is in Payments.                                           *)

Lookup(s) == /\ Executes(s, "lookup")
             /\ \/ /\ owner = NoOrder
                   /\ Goes(s, "insert")
                   /\ UNCHANGED answer
                \/ /\ owner # NoOrder
                   /\ answer' = [answer EXCEPT ![s] = owner]
                   /\ Goes(s, "reply")
             /\ UNCHANGED <<plan, conns, locks, wrote, tables, report, view, watch, errors>>

\* The flush: it inserts, or meets the key of a committed order.
Insert(s) == /\ Executes(s, "insert")
             /\ \/ /\ owner = NoOrder
                   /\ Writes(s, Lock("key", "key"))
                   /\ answer' = [answer EXCEPT ![s] = s]
                   /\ Goes(s, "reply")
                   /\ UNCHANGED <<conns, locks>>
                \/ /\ owner # NoOrder
                   /\ Releases(s)
                   /\ Goes(s, "reread")
                   /\ UNCHANGED answer
             /\ UNCHANGED <<plan, tables, report, view, watch, errors>>

\* After IntegrityError and rollback.  Without an order under the key the code
\* would raise; OneOrderPerKey shows that it does not come to that.
Reread(s) == /\ Executes(s, "reread")
             /\ answer' = [answer EXCEPT ![s] = owner]
             /\ Goes(s, "reply")
             /\ UNCHANGED <<plan, conns, locks, wrote, tables, report, view, watch, errors>>

-----------------------------------------------------------------------------
(* PaymentService.handle_webhook for a payment of the full amount *)

InsertIfNew(s) == /\ Executes(s, "event")
                  /\ \/ /\ plan[s].event \in received
                        /\ Goes(s, "reply")
                        /\ UNCHANGED wrote
                     \/ /\ plan[s].event \notin received
                        /\ Writes(s, Lock("event", plan[s].event))
                        /\ Goes(s, "order")
                  /\ UNCHANGED <<plan, conns, locks, tables, results, errors>>

\* Under the order lock; so does the sweeper with an event that came before its
\* order (_replay_orphans), in a transaction for each order.
Judge(s) == LET o == plan[s].order
            IN  /\ plan[s].kind \in {"webhook", "replay"}
                /\ Executes(s, "order")
                /\ Takes(s)
                /\ \/ /\ orderStatus[o] = "created"
                      /\ Writes(s, Capture(o))
                      /\ Goes(s, "enqueue")
                   \/ /\ orderStatus[o] # "created"
                      /\ Goes(s, IF IsApi(s) THEN "reply" ELSE "commit")
                      /\ UNCHANGED wrote
                /\ UNCHANGED <<plan, conns, tables, results, errors>>

-----------------------------------------------------------------------------
(* DeliveryJobRepository.enqueue, for the webhook, the administrator's      *)
(* retry and the sweeper.  ON CONFLICT DO NOTHING meets committed jobs only *)
(* after having waited for uncommitted ones.  The foreign key is checked    *)
(* when the row is in the index; webhook and replay hold their order already. *)

AfterEnqueue(s) == Goes(s, IF IsApi(s) THEN "reply" ELSE "commit")

Enqueue(s) == LET o == plan[s].order
              IN  /\ Executes(s, "enqueue")
                  /\ \/ /\ jobs[o] \in ActiveStates
                        /\ AfterEnqueue(s)
                        /\ UNCHANGED wrote
                     \/ /\ jobs[o] \notin ActiveStates
                        /\ Writes(s, Lock("job", o))
                        /\ IF Lock("update", o) \in locks[s] THEN AfterEnqueue(s)
                           ELSE Goes(s, "reference")
                  /\ UNCHANGED <<plan, conns, locks, tables, results, errors>>

Reference(s) == /\ Executes(s, "reference")
                /\ Takes(s)
                /\ AfterEnqueue(s)
                /\ UNCHANGED <<plan, conns, wrote, tables, results, errors>>

-----------------------------------------------------------------------------
(* retry_delivery and Sweeper.run_once: both reset, then enqueue *)

\* get_order: no lock, but a transaction and its connection stay open.
ReadOrder(s) == /\ Executes(s, "read")
                /\ Goes(s, "recover")
                /\ UNCHANGED <<plan, conns, locks, wrote, tables, results, errors>>

\* Mutant: the sweeper collects every order that is not final.
StuckStatuses_open == {"created"} \cup UNSETTLED_STATUSES

StuckStatuses == UNSETTLED_STATUSES

\* _collect_stuck_orders; an order long enough in its status.
Collect(s) == LET o == plan[s].order
              IN  /\ plan[s].kind = "sweep"
                  /\ at[s] = "begin"
                  /\ Goes(s, IF orderStatus[o] \in StuckStatuses /\ jobs[o] \notin ActiveStates
                             THEN "recover" ELSE "done")
                  /\ UNCHANGED <<plan, conns, locks, wrote, tables, results, errors>>

\* prepare_recovery, a transaction of one statement: it waits for the rows.
Recover(s) == /\ Executes(s, "recover")
              /\ conns' = [conns EXCEPT ![s] = IF IsApi(s) THEN 1 ELSE 0]
              /\ Goes(s, "enqueue")
              /\ UNCHANGED <<plan, locks, wrote, tables, results, errors>>

-----------------------------------------------------------------------------
(* A worker's run of one job that gets its code (Delivery has the others) *)

Claim(s) == LET o == plan[s].order
            IN  /\ Executes(s, "claim")
                /\ jobs[o] = "queued"
                /\ jobs' = [jobs EXCEPT ![o] = "running"]
                /\ Goes(s, "prepare")
                /\ UNCHANGED <<plan, conns, locks, wrote, owner, received, orderTables, results,
                               errors>>

\* _prepare, under the order lock from its first statement to its commit.
Prepare(s) == LET o == plan[s].order
              IN  /\ Executes(s, "prepare")
                  /\ UNCHANGED paid_at
                  /\ \/ /\ orderStatus[o] \in DELIVERABLE_STATUSES
                        /\ orderStatus' = [orderStatus EXCEPT ![o] = "delivering"]
                        /\ Watches({o} \ {p \in Orders : orderStatus[p] = "delivering"})
                        /\ Goes(s, "order")
                     \/ /\ orderStatus[o] \notin DELIVERABLE_STATUSES
                        /\ Goes(s, "finish")
                        /\ UNCHANGED <<orderStatus, watch>>
                  /\ UNCHANGED <<plan, conns, locks, wrote, owner, received, ledger, coded, superseded, jobs,
                                 answer, report, view, errors>>

\* _record_success: the order lock, ...
LockOrder(s) == /\ plan[s].kind = "deliver"
                /\ Executes(s, "order")
                /\ Takes(s)
                /\ Goes(s, "rows")
                /\ UNCHANGED <<plan, conns, wrote, tables, results, errors>>

\* ... then the delivery's row, the status and the posting.
WriteRows(s) == /\ Executes(s, "rows")
                /\ Takes(s)
                /\ Writes(s, Success(plan[s].order))
                /\ Goes(s, "commit")
                /\ UNCHANGED <<plan, conns, tables, results, errors>>

\* The code is on record for another delivery (IntegrityError): a rollback, ...
CodeTaken(s) == /\ Executes(s, "rows")
                /\ Releases(s)
                /\ Goes(s, "supersede")
                /\ UNCHANGED <<plan, tables, results, errors>>

\* ... and _record_superseded in a transaction of its own, without the order lock.
Supersede(s) == /\ Executes(s, "supersede")
                /\ \E supplier \in Suppliers :
                      superseded' = superseded \cup {<<plan[s].order, supplier>>}
                /\ Goes(s, "finish")
                /\ UNCHANGED <<plan, conns, locks, wrote, owner, received, orderStatus, paid_at,
                               ledger, coded, jobs, results, errors>>

Finish(s) == /\ Executes(s, "finish")
             /\ jobs' = [jobs EXCEPT ![plan[s].order] = "done"]
             /\ Goes(s, "done")
             /\ UNCHANGED <<plan, conns, locks, wrote, owner, received, orderTables, results,
                            errors>>

\* An exception left the run: reschedule.
Requeue(s) == /\ Executes(s, "requeue")
              /\ jobs' = [jobs EXCEPT ![plan[s].order] = "queued"]
              /\ Goes(s, "failed")
              /\ UNCHANGED <<plan, conns, locks, wrote, owner, received, orderTables, results,
                             errors>>

-----------------------------------------------------------------------------
(* ReconciliationService.build_report: one transaction, but every statement *)
(* sees what is committed by then.                                          *)

\* now() is taken: the orders that changed since then or within the grace
\* period are young.
BeginReport(s) == /\ plan[s].kind = "report"
                  /\ at[s] = "begin"
                  /\ \E recent \in SUBSET Orders :
                        watch' = [recent |-> recent, owed |-> Owed(orderStatus, paid_at),
                                  moved |-> {}, superseded |-> superseded]
                  /\ Goes(s, Lists[1])
                  /\ UNCHANGED <<plan, conns, locks, wrote, tables, answer, report, view, errors>>

\* updated_at is the start of the transaction that wrote the row, so a row that
\* moved meanwhile may look younger or older than the threshold.
Young == {(watch.recent \ watch.moved) \cup touched : touched \in SUBSET watch.moved}

ReadsList(list) ==
    CASE list = "paid_not_delivered" ->
            UNION {paid_not_delivered(paid_at, orderStatus, young) : young \in Young}
      [] list = "delivered_not_paid" -> delivered_not_paid(paid_at, coded)
      [] list = "superseded_codes"   -> superseded_codes(superseded)
      [] list = "total_balance"      -> {total_balance(ledger)}
      [] list = "open_liabilities"   -> open_liabilities(ledger)

ReadList(s) == \E i \in DOMAIN Lists :
                  /\ Executes(s, Lists[i])
                  /\ \E found \in ReadsList(Lists[i]) :
                        report' = [report EXCEPT ![Lists[i]] = found]
                  /\ Goes(s, IF i = Len(Lists) THEN "reply" ELSE Lists[i + 1])
                  /\ UNCHANGED <<plan, conns, locks, wrote, tables, answer, view, watch, errors>>

-----------------------------------------------------------------------------
(* GET /orders/{order_id} *)

ReadView(s) == \E i \in DOMAIN ViewParts :
                  LET o == plan[s].order
                  IN  /\ Executes(s, ViewParts[i])
                      /\ view' = [view EXCEPT ![s][ViewParts[i]] =
                                     IF ViewParts[i] = "status" THEN orderStatus[o] = "delivered"
                                                                ELSE o \in coded]
                      /\ Goes(s, IF i = Len(ViewParts) THEN "reply" ELSE ViewParts[i + 1])
                      /\ UNCHANGED <<plan, conns, locks, wrote, tables, answer, report, watch,
                                     errors>>

-----------------------------------------------------------------------------
(* Failures: session_scope rolls back.  A worker then reschedules its job;  *)
(* if it fails over that, its process ends and the job stays as it is.      *)

RollsBack(s) == /\ Releases(s)
                /\ Goes(s, IF plan[s].kind = "deliver" /\ at[s] \notin {"finish", "requeue"}
                           THEN "requeue"
                           ELSE IF IsApi(s) /\ at[s] = "commit" THEN "lost"
                           ELSE "failed")
                /\ UNCHANGED <<plan, tables, results>>

\* A statement fails by itself: the connection breaks, a timeout of the server.
StatementFails(s) == /\ errors > 0
                     /\ at[s] \notin Ended \cup {"begin", "claim", "reply"}
                     /\ RollsBack(s)
                     /\ errors' = errors - 1

\* Session s waits for a connection that none is free for, or for a lock.
WantsInVain(s) == WantsConnection(s) /\ ~CanConnect(s)

\* In a stuck set everybody waits for members of the set only to move on.
Stuck(set) ==
    /\ set # {}
    /\ \A s \in set : IF WantsConnection(s)
                      THEN WantsInVain(s) /\ {t \in Sessions : conns[t] > 0} \subseteq set
                      ELSE Blockers(s) \cap set # {}

\* Locks alone: what PostgreSQL's deadlock detector can see.
LockCycle(set) == /\ set # {}
                  /\ \A s \in set : ~WantsConnection(s) /\ Blockers(s) \cap set # {}

\* The detector ends one of the sessions of a cycle.
DeadlockDetected(s) == /\ Blockers(s) # {}
                       /\ \E set \in SUBSET Sessions :
                             /\ s \in set
                             /\ LockCycle(set)
                             /\ \A part \in SUBSET (set \ {s}) : ~LockCycle(part)
                       /\ RollsBack(s)
                       /\ UNCHANGED errors

\* pool_timeout, 30 seconds by default.
PoolTimesOut(s) == /\ WantsInVain(s)
                   /\ RollsBack(s)
                   /\ UNCHANGED errors

-----------------------------------------------------------------------------

Init ==
    /\ plan \in Plans
    /\ at = [s \in Sessions |-> Start(plan[s].kind)]
    /\ conns = [s \in Sessions |-> 0]
    /\ locks = [s \in Sessions |-> {}]
    /\ wrote = [s \in Sessions |-> {}]
    /\ answer = [s \in Sessions |-> NoOrder]
    /\ owner = NoOrder
    /\ received = {}
    /\ orderStatus \in StartStatus
    /\ paid_at = [o \in Orders |-> orderStatus[o] # "created"]
    /\ ledger = [o \in Orders |-> IF paid_at[o] THEN {"payment_captured"} ELSE {}]
    /\ coded = {}
    /\ superseded = {}
    /\ jobs = [o \in Orders |-> "none"]
    /\ report = NoReport
    /\ view = [s \in Sessions |-> NoView]
    /\ watch = NoWatch
    /\ errors = MaxErrors

\* The statements of session s.
Statement(s) ==
    \/ Reply(s)    \/ Commit(s)
    \/ Lookup(s)   \/ Insert(s)    \/ Reread(s)
    \/ InsertIfNew(s) \/ Judge(s)  \/ Enqueue(s) \/ Reference(s)
    \/ ReadOrder(s)   \/ Collect(s) \/ Recover(s)
    \/ Claim(s)    \/ Prepare(s)   \/ LockOrder(s) \/ WriteRows(s)
    \/ CodeTaken(s) \/ Supersede(s) \/ Finish(s) \/ Requeue(s)
    \/ BeginReport(s) \/ ReadList(s) \/ ReadView(s)

Next == \E s \in Sessions : \/ Connect(s)          \/ Statement(s) \/ StatementFails(s)
                            \/ DeadlockDetected(s) \/ PoolTimesOut(s)

Spec == Init /\ [][Next]_vars

\* A session that can go on does so: its process runs, it gets a connection or
\* its timer fires, and the detector ends what stands still.
FairSpec == /\ Spec
            /\ \A s \in Sessions : WF_vars(\/ Connect(s) \/ Statement(s)
                                           \/ DeadlockDetected(s) \/ PoolTimesOut(s))

-----------------------------------------------------------------------------
(* Properties *)

RowLocks == {"update", "share", "rows"} \X Orders

Writings == {Lock("key", "key")} \cup ({"event"} \X Events)
               \cup ({"job", "capture", "success"} \X Orders)

\* Types; and no more connections of the API process than its pool has.
TypeOK ==
    /\ plan \in [Sessions -> SessionTask]
    /\ at \in [Sessions -> Places]
    /\ conns \in [Sessions -> 0 .. 2]
    /\ Cardinality(InUse) <= ApiPool
    /\ locks \in [Sessions -> SUBSET RowLocks]
    /\ wrote \in [Sessions -> SUBSET Writings]
    /\ \A s \in Sessions : at[s] \in Ended => Held(s) = {} /\ conns[s] = 0
    /\ answer \in [Sessions -> Sessions \cup {NoOrder}]
    /\ owner \in Sessions \cup {NoOrder}
    /\ received \subseteq Events
    /\ orderStatus \in [Orders -> OrderStatus]
    /\ paid_at \in [Orders -> BOOLEAN]
    /\ ledger \in [Orders -> SUBSET LedgerEventType]
    /\ coded \subseteq Orders
    /\ superseded \subseteq Orders \X Suppliers
    /\ jobs \in [Orders -> JobState \cup {"none"}]
    /\ DOMAIN report = ReportPlaces
    /\ view \in [Sessions -> [ViewPlaces -> BOOLEAN]]
    /\ watch \in [recent : SUBSET Orders, owed : SUBSET Orders, moved : SUBSET Orders,
                  superseded : SUBSET (Orders \X Suppliers)]
    /\ errors \in 0 .. MaxErrors

\* Creations under one idempotency key: every answer but a creation's own names
\* a committed order, so that two clients hold different orders only if the
\* commit behind one of the answers failed (order_service.py:69-76).
OneOrderPerKey ==
    \A s \in Sessions : plan[s].kind = "create" =>
        /\ at[s] = "reread" => owner # NoOrder
        /\ at[s] = "done" => answer[s] = owner /\ owner # NoOrder
        /\ at[s] \in {"reply", "commit", "lost"} =>
              answer[s] \in {s, owner} \ {NoOrder}

\* Sessions stand still together only with a retry among them that holds its
\* own transaction open: it waits for a second connection, or it has its job in
\* the index and waits for the order of a payment, a webhook's or a replay's,
\* that waits for the index (admin.py:44-46).  The sweeper, which resets and
\* enqueues like a retry, closes no such cycle: its orders are paid already.
OnlyRetriesDeadlock ==
    \A set \in SUBSET Sessions : Stuck(set) =>
        \E s \in set : /\ plan[s].kind = "retry"
                       /\ \/ at[s] = "recover" /\ WantsInVain(s)
                          \/ /\ at[s] = "reference"
                             /\ \E t \in set : /\ plan[t].kind \in {"webhook", "replay"}
                                            /\ at[t] = "enqueue"

\* A report has read its last list.
Read(s) == plan[s].kind = "report" /\ at[s] \in {"reply", "commit", "done", "lost"}

\* A list shows the orders, unless it is as long as its limit.
Shows(list, orders, limit) == orders \subseteq list \/ Cardinality(list) = limit

\* The orders whose liability tells that they are owed: an order for nothing has
\* none.
Priced == {o \in Orders : amount_minor[o] # 0}

\* The orders that neither were young nor have moved while a report was read.
Settled == Orders \ (watch.recent \cup watch.moved)

\* What a report may be relied on for, although its lists are read one after
\* the other while transactions commit and each has a limit.  It is healthy if no
\* code was superseded when it ends, and not if one was when it began.  A list
\* that is not full shows every order that is owed its goods all the while, and
\* two lists that are not full differ by orders for nothing, by young ones and by
\* those that moved between the statements only (reconciliation_service.py:50-84).
ReportIsSound ==
    (\E s \in Sessions : Read(s)) =>
        /\ superseded = {} => healthy(report)
        /\ watch.superseded # {} => ~healthy(report)
        /\ Shows(report.open_liabilities, watch.owed \cap Priced, LiabilityLimit)
        /\ Shows(report.paid_not_delivered, watch.owed \cap Settled, ListLimit)
        /\ Shows(report.open_liabilities, report.paid_not_delivered \cap Settled \cap Priced,
                 LiabilityLimit)
        /\ Shows(report.paid_not_delivered, report.open_liabilities \cap Settled, ListLimit)

\* A customer who is told that the order is delivered is shown its code, and one
\* who is shown a code finds its delivery in the list, although the three are
\* read one after the other (orders.py:28-34).
ViewShowsCode ==
    \A s \in Sessions : plan[s].kind = "view" /\ at[s] \in {"reply", "commit", "done", "lost"} =>
        /\ view[s].status => view[s].code
        /\ view[s].code => view[s].attempts

Money == INSTANCE Settlement

\* What the row locks are for: whatever the statements' order, the committed
\* tables change as if each transaction were one step (core/db.py:48-62).
StepsOfSettlement == [][Money!Next]_Money!vars

\* In the end every request has ended, and so has every run of a job that was
\* claimed: what stands still is resolved by the detector or by the pool's timeout
\* (core/db.py:60-62).
EverySessionEnds == <>[](\A s \in Sessions : at[s] \in Ended \cup {"claim"})
=============================================================================
