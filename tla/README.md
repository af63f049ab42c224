# A TLA+ model of the shop

The repository sells digital keys: an order is created, a payment system
reports the payment by webhook, worker processes obtain a key from one of two
suppliers, and the customer gets the code. Money, keys and codes must agree
although webhooks come twice and out of order, suppliers hang with the answer
half given, and processes die anywhere. This directory holds the model of that
behaviour in TLA+, its runs with TLC and its proofs with TLAPS. Paths below are
relative to `src/src/shop/` unless they start with `supplier_stub/`.

## 1. Inventory

| Component | State | Operations | Hard behaviour |
|---|---|---|---|
| Order status machine, fallback rule (`domain/`) | none (pure) | `can_transition`, `choose_supplier` | an unknown outcome must not be passed over |
| Payment events (`services/payment_service.py`, `repositories/payment_events.py`) | `payment_events`, order status and `last_payment_event_at` | `handle_webhook`, `apply_pending_orphans` | duplicates, any order, events before their order, parallel requests |
| Order creation (`services/order_service.py`) | `orders` | `create_order`, `get_order` | races with early events and with the same idempotency key |
| Ledger (`services/ledger_service.py`) | `ledger_entries` | `record_payment`, `record_delivery` | posted once, with the status |
| Job queue (`repositories/jobs.py`) | `delivery_jobs` | enqueue, claim, finish, reschedule, requeue | one active job per order; requeue by age |
| Delivery service (`services/delivery_service.py`) | `deliveries`, order status | `_prepare`, supplier call, `_record_*`, `prepare_recovery` | three phases with nothing locked between them |
| Worker and sweeper (`worker/`) | the batch in hand | claim, process, sweep | crashes, slow workers, sweeps that fail midway |
| Supplier client (`integrations/supplier/client.py`) | none | `issue` with retries | refusal against unknown outcome |
| Supplier (`supplier_stub/`) | key pool, code per `request_id` | `POST /issue`, restock | answers lost after the key is spent, late requests |
| Administrator's retry (`api/routers/admin.py`) | none | `retry_delivery` | two transactions, any order status |
| Stock sync (`services/stock_sync_service.py`) | `products.available_count` | `sync` on every worker | partial totals, late writes |
| Catalogue (`services/catalog_service.py`, `repositories/products.py`) | `products` | pages by cursor, loading | the shelf changes between two pages |
| Reconciliation (`services/reconciliation_service.py`, `repositories/reconciliation.py`) | none, reads only | `build_report` | ten statements without a snapshot |
| Transactions (`core/db.py`, `api/deps.py`) | locks and connections of a session | `session_scope` | who waits for whom, what a statement sees, a pool with a limit |

The parts meet in the database only (rows, partial unique indexes, row locks)
and in the calls of a worker to a supplier. A transaction that works on an order
locks its row, so transactions on one order do not overlap; everything between
two transactions does.

What makes the parts correct: a status moves along the table of transitions
only; the ledger says what the status says; one event decides an order's
payment; an order costs at most one key; a delivered order keeps its code; a
code that a supplier has bound is found again; what is paid is delivered in the
end; a request or a job run never hangs for good; what is read in several
statements may be relied on; a walk through the shelf misses and repeats nothing that stayed in place, and
the cached stock catches up. `PROJECT.json` lists the hazards, each at its line with the properties that
would catch it.

## 2. Modules

| Module | What it is |
|---|---|
| `ShopDomain` | the pure rules: statuses, transitions, `choose_supplier` |
| `Delivery` | the pipeline: queue, workers, delivery rows, suppliers, sweeper, administrator's retry |
| `Settlement` | abstract: the money of an order, whatever happens |
| `ExactlyOnce` | abstract: the keys of an order, while the design's assumptions hold |
| `Payments` | webhooks, creation, replay of orphans; the pipeline appears as steps of `Settlement` |
| `Exchange` | `Delivery` with the conversation between client and supplier; shown to implement it |
| `Reports` | the postings and the queries of the reconciliation report, as functions of the tables |
| `Sessions` | transactions statement by statement: locks, connections, visibility; creation by key, reports, views |
| `Storefront` | the shelf: stock synchronisation, catalogue loads, a walk by cursor |
| `MCDelivery`, `MCExchange`, `MCPayments`, `MCSessions`, `MCStorefront` | constants for TLC; the replay against its loop |
| `DeliverySafety`, `DeliveryRuns`, `DeliveryCalm` | theorems about `Delivery`: types and money; runs and codes; exactly once |
| `ExchangeProofs`, `PaymentsProofs`, `ReportsProofs`, `SessionsProofs`, `StorefrontProofs` | theorems about these components |

### Delivery

One action is one transaction, one exchange with a supplier, or one fault.
`orderStatus`, `ledger`, `rows` and `jobs` are tables; `tasks[w][j]` is a running
`Worker._process` of worker `w` for job `j`, with the phase of
`DeliveryService.run` it stands in; `sweeps[w]` is the place of its
`Sweeper.run_once`; `retrying` holds the orders between the two transactions of
`retry_delivery`. `free`, `issued` and `late` are the suppliers: their pools, the
code bound to the order's `request_id`, and requests that arrive after their
client has given up.

* `Claim` is `claim_batch`; the batch is processed to its end before the loop of
  `Worker.run` comes back to the claim or the sweep (`AtLoopTop`).
* `PrepareSkips`, `PrepareEnds`, `PrepareTargets` are the three ends of `_prepare`.
* `SupplierIssues`, `SupplierRefuses`, `ConnectFails`, `AnswerLost`,
  `RequestLost`, `RequestDelayed` are how one exchange ends; `call` counts the
  exchanges of one `issue()`.
* `RecordSuccess`, `SuccessConflicts` then `RecordSuperseded`, `RecordRefusal`,
  `RecordUnknown` are phase three; a broken unique index or an `InvalidTransition`
  rolls back all of it.
* `FinishJob` and `RescheduleJob` settle the job without asking whose it is, as the
  code does; `RescheduleBreaks` is the reschedule that meets another active job.
* `SweepRequeue` to `SweepEnqueue` are the transactions of a sweep. Ages are left
  open: any running job may look stale. Requeueing the job of a live worker is
  the disturbance `stall`.
* `Crash` drops everything a worker was doing; it covers an exception that
  leaves the settling of a job as well. A restart is the worker at its loop top.

The counters `attempts` and `reason` texts that nothing reads, the audit log,
timestamps and backoff lengths are left out. Finished jobs leave the table
(`Retain`), for nothing reads them except a task that still holds their id.

A `RescheduleBreaks` ends the worker with the other exchanges of its batch; that their
requests may be served later still is left to `Crash`. A worker that is asked to stop
finishes its batch and takes no more steps at its loop top.

### Exchange

`Exchange` extends `Delivery` and takes the exchange apart that is one step there.
`wire[w][j]` says where the request of a task stands: sent, served with an answer under
way, or silent. `Serve` is the handler of `POST /issue` for a behaviour that
`Chaos.decide` may choose (the mode may change between any two requests); `issue` says what
it answers and the key store what it binds. `LoseRequest` and `DelayRequest` are the network,
`Receive` reads an answer with `_parse`, `TimesOut` is the client's timeout. `_parse` maps
a body to a refusal, a code, or an unknown outcome; a broken body is none of the contract's.
Whether an answer arrives, arrives broken or does not arrive is settled when it is
served, a moment before the client notices: nothing looks at it in between, and the
refinement needs no prophecy variable.

`ImplementsDelivery` is the refinement mapping: a task whose answer is under way counts
as having heard it (`Outcome`). So the choice of `Delivery`, to let a request be sent, served
and answered within one step, is justified and not assumed, and so is what follows from
`Delivery`'s invariants.

### Payments

A webhook is a transaction of several steps: `InsertIfNew` (waits for an
uncommitted insert of the same event), `Lookup` (locks the order, or finds none),
`Commit`, `Reply`. What it wrote is visible at `Commit` only. `ReplyFirst` says
whether the answer precedes the commit (`TRUE` in the runs): the session is a dependency with `yield`
(`api/deps.py`), whose exit part runs after the answer with the FastAPI version
that the image installs, and before it with others that `pyproject.toml` admits.
`CreateReplays` and `CreateCommits` are `create_order`, invisible to others up to
its commit. `SweepLists` and `SweepReplays` are `_replay_orphans`.
`PipelineStep` stands for `Delivery`, as the steps of `Settlement` it is proved to
implement.

`apply` is `_apply` in the order of its returns. The loop of
`apply_pending_orphans` is given in closed form (`OrderAfter`, `Judgement`), which a
proof can use; `MCPayments` compares it with the loop, written as a fold, for
every list of up to three events and every order row (`ReplayIsTheLoop`), and
`LoopInClosedForm` proves it for lists of any length.

### Sessions and Reports

`Delivery` and `Payments` take a transaction for one step, or for a few. `Sessions` takes the
transactions apart into their statements. `at[s]` is the statement session `s` comes
to next, `Wanted(s)` the row lock or the entry of a unique index that the statement needs,
`locks` and `wrote` what the session holds until its commit, `conns` its connections.
`Blockers` are the sessions a statement waits for: an order row `FOR UPDATE` against another one or
against the `FOR KEY SHARE` of a foreign key, delivery rows, and uncommitted entries of
the index on the idempotency key, the event id and the active job. A committed write is
visible to the next statement of everybody (READ COMMITTED). `Plans` says which sessions
there are: creations under one idempotency key, webhooks, the administrator's retry,
recovery and replay by a sweeper, job runs, reports, views of an order; `StartStatus` in which
statuses the orders begin.

* `Lookup`, `Insert`, `Reread` are `create_order` with its `IntegrityError`.
* `ReadOrder`, `Recover`, `Enqueue`, `Reference` are `retry_delivery`: its own transaction is open from
  the first to the last, and `Recover` needs a second connection (`Needed`).
* `DeadlockDetected` is PostgreSQL's detector, `PoolTimesOut` the pool's timeout;
  `RollsBack` is what they and any failing statement lead to.
* `WriteRows` is a success that is written under the order lock. `CodeTaken` and `Supersede` are the
  other end of it: the code is on record for another delivery, the transaction is rolled back, and
  `_record_superseded` writes the row in a transaction of its own without the order lock. The wait
  for an uncommitted entry of the index on the codes is left out: its holder waits for
  nobody.
* `BeginReport` and `ReadList` read the lists about money and the superseded codes one after the
  other, the statements that `healthy` and `ReportIsSound` are about. A query with a LIMIT returns
  any of its possible results (`Limited`): all the rows that meet its condition, or as many as the
  limit allows. `ReadView` reads the
  order, its code and its deliveries. `watch` records what happened to the orders while a report was
  read; only a property looks at it.

`StepsOfSettlement` says that with the row locks the statements add up to the steps that `Settlement`
allows: the link between this level and the others.

A creation whose commit fails after its answer has been sent (the order of answer and
commit of section 4) has given its client the number of an order that does not exist;
`OneOrderPerKey` says that this is the only way to such an answer (`lost`).

### Storefront

`catalog` and `available` are the columns of `products`; `sync[w]` holds the sums of the
`StockSyncService.sync` that worker `w` is in, one step for each supplier asked
(`FetchStock`, `FetchFails`) and one for the write (`SyncWrites`, or `SyncSkips` when
nobody answered). `walk` is a customer who follows `next_cursor`: each `GetPage` is one
query, with a page size of its own. A page is the set of rows with fewer than `n` rows
before them, the LIMIT of the code's ORDER BY; `shown` keeps the prices a product was
shown at. `steady` records which products have stayed on the shelf at their price since
the walk began, and is read by a property only. `LoadCatalog` is a run of
`scripts/seed_catalog.py`. The suppliers' pools appear as numbers (`Trade`), for
the sync reads no more of them.

## 3. Runs

| Run | Shows | States (about) |
|---|---|---|
| `faults` | types, no key for an unpaid order, one run per order, a delivered order keeps its code: every fault once, two workers, except a stalled worker | 1.1 M |
| `stall` | statuses, ledger, rows and `Settlement` with overlapping runs of one order | 0.8 M |
| `calm` | `ExactlyOnce` and its parts under the assumptions of the design | 14 k |
| `stock` | overlapping pools, two orders in a batch | 75 k |
| `live` | `Exchange` implements `Delivery`; one key per request; a paid order is delivered | 0.2 M |
| `webhooks` | one event decides, each is judged once and for cause; payments and pipeline together keep `Settlement`; an orphan of an existing order is replayed | 0.2 M |
| `sessions` | transactions are steps; one order per key; who may stand still with whom, and that nobody does for good; what views may be relied on for, and reports with lists that are short, full and cut off | 0.3 M |
| `shelf` | a walk shows what stays in place once, the rest again only dearer; the cached stock catches up | 0.7 M |
| `refusal_after_unknown`, `reset_over_unknown`, `late_outcome`, `ack_before_commit` | four statements of the documentation that the code does not keep | small |

**Bounds.** Two suppliers, as in `SUPPLIER_CHAIN`. One order where runs of the same
order are the subject (orders share nothing but key pools and batches), two where
those are. Two workers are enough for two overlapping runs of one order, and two
job ids for a job that its old worker still holds next to a new one.
`supplier_max_attempts` and `job_max_attempts` are small (1 and 2, or more where the
question needs it) so that limits are reached. `Budget` bounds each kind of
disturbance; one of each lets them meet in any order. In `webhooks` three events of
one order contradict each other: a payment, a failure before it and a wrong amount at the
same instant, with two requests at a time; two payments of the right amount race in
`sessions`. There every choice of three of the kinds but reports
meets, a webhook also with a repetition of itself, on one order; three sessions are
enough for each cycle of waits the locks admit, and a pool of two connections for two
retries to exhaust it. A report, which like a view holds a connection and
no lock, meets two retries, or two sessions that move the orders `o1` and `o2`. Three of its four orders have a
price, one is for nothing, and `o1` may be unpaid: with limits of three rows, and two for the open liabilities, each
list can have fewer rows than its limit, just as many, and too many. In `live` supplier A has a second key, so that a request served
twice could take it, and a job has two exchanges and two attempts. In `shelf` three products tie in price, trade places and change their type; two workers are enough for an old total that is written after a new one.
`OrphanLimit` is the LIMIT 100 of the query. The runs of
`MCPayments` do not check for deadlock: when every event is answered and no
disturbance is left the payment system has nothing more to send. `sessions` does not
either, for its sessions come to their ends; `EverySessionEnds` says that they do.

**Where the runs differ in their faults.** `faults` has no `stall`, for with it a
delivered order can lose its code (`late_outcome`). `calm` satisfies `Calm` of `DeliveryCalm`: no
`connect_failed`, no `delayed`, no `stall` and no `retry`, one worker, pools that share no key, and for a
job at least as many attempts as there are crashes, failed transactions, lost answers and suppliers together. Each of these
is needed: `refusal_after_unknown` and `reset_over_unknown` show two, section 5 says what breaks without the
others. `live` has all but `restock` and `stall`. `stall` has no such restriction; a theorem names in its
statement the faults it excludes.

**Fairness.** A live worker runs its tasks (weak fairness: nothing disables a step
but itself or the task's loss) and an exchange ends within the client's
timeouts. Claim and sweep are each enabled again and again, because the loop of
`Worker.run` comes back to both, and are strongly fair. `RequeueDead` and
`CollectAll` say that a pass sees what is older than `stuck_order_age_s`: sooner or
later everything is. What is sent gets somewhere or fails, an answer is read, a silence ends with
the client's timeout (weak fairness). A supplier that can issue and is asked again and
again does so sometime (strong fairness of `ServesWell`); without it no program could
deliver. In `Payments` the requests being served and the sweeper are weakly fair;
nothing is assumed of the payment system or of customers. In `Sessions` each session is weakly fair as
a whole: if it can go on, get a connection, be chosen by the detector or run into the pool's timeout all the
while, one of these happens; detector and timer work, as their defaults are (`deadlock_timeout`,
`pool_timeout`). In `Storefront` the sync
of each worker is weakly fair: the loop comes back to it and its requests end.

## 4. Where code and documentation differ

1. *Refusal after unknown* (`client.py:138`). In one `issue()` an unknown exchange
   followed by a failed connection is reported as a refusal. The supplier may have
   bound a code; the chain goes on and may spend a second key.
2. *Reset over unknown* (`delivery_service.py:412`). Recovery resets supplier A's
   refusal while B is unknown; the next attempt asks A although "fallback is
   blocked" while an unknown row lives.
3. *Late outcome* (`delivery_service.py:315`, `repositories/jobs.py:107`). The job of a
   slow but live worker is requeued; its late unknown outcome overwrites the row,
   and the code, of an order that is delivered by then.
4. *Answer before commit* (`deps.py:17`). A failing commit loses an event the
   payment system has a 200 for.

A retry before the payment (`admin.py:46`) leaves an active job that swallows the
payment's own and ends as skipped; the order then waits for a sweep. `calm` checks
`PaidHasJob` without such a retry, and `live` shows that the sweep makes up for it.

`PROJECT.json` quotes the lines the code disagrees with. `AckedIsStored` holds with
`ReplyFirst = FALSE`, the order the documentation describes (proved, section 5). A limit of the replay
that no document mentions: events of orders that never come into being stay orphans
for ever and may fill every pass (LIMIT 100 without ORDER BY); `webhooks` assumes no more
orphaned order ids than `OrphanLimit`.

`retry_delivery` (`admin.py:44`) is the only transaction that can stand still with others: with
its own kind for the pool's connections (every request then waits for up to `pool_timeout`), and
with a payment (a webhook's or a replayed one) for the order row and the job index.
`OnlyRetriesDeadlock` says that there is no other
cycle, `EverySessionEnds` that both are resolved; a webhook that is chosen to end gets a
5xx and is sent again, a replay is repeated by the next sweep.

The lists of the report end at their limits (200 rows, open liabilities 500) and nothing in the
report says that one was cut off. `ReportIsSound` says what is left then: a list that is shorter than its limit
misses no order that is owed its goods, `healthy` does not depend on the length of its lists. And an
order for nothing, which the schema admits, is owed its goods without being an open liability.

A comment says that an event with a wrong amount gets into the reconciliation report
(`payment_service.py:240`). No list of the report shows it; it is found by its `rejected_reason` and in the audit
log only. This was read, not checked by a run.

## 5. What is proved

Every theorem holds for any value of the constants that satisfies the named assumptions of its
module (`ChainAssumption` and `DeliveryAssumption`, `PaymentsAssumption`, `ReportsAssumption`,
`SessionsAssumption`, `OneReport`, `StorefrontAssumption`): any numbers of orders, workers, jobs, suppliers, events, sessions, products and
faults. A theorem of the form `H => (Spec => P)` excludes the faults that `H` names, and the run
that shows why is given below. Each proof has the same layout: an inductive invariant whose conjuncts are named, one lemma
for each action that says it is kept, and, where several theorems follow, a lemma that classifies what a step does.

**Delivery.**

* `DeliverySafety` proves `TypeOK` first, which includes `RecordsWhole`: a task carries the order of its job, a
  job in use names an order. Without it a step could write the row of the null order.
  The rest stands on `MoneyInv`: per order, status, ledger, succeeded rows and the
  places a task may stand in agree. A task beyond `prepare` means a captured payment, so phase three never meets an unpaid order;
  this makes `CodeOnlyWhenDelivered`, `LedgerFollowsStatus` and `UnpaidStaysUntouched` inductive.
  `EveryStep` classifies what a step does to one order (captures, fails, starts, heals, gives up, delivers,
  idles, or nothing); from it follow `StatusIsLawful` and `PipelineImplementsSettlement`.
* `DeliveryRuns`, without any hypothesis: no code is recorded as delivered twice and no order has two
  succeeded rows (`CodesAreGivenOnce`, from the unique indexes and what a task may hold).
  Under `NoStall` (no job of a live worker is requeued): one run per order, a delivered order keeps
  one succeeded row with the code its supplier has bound, a superseded row is final. The argument is `QueueInv`: a
  held job is running and held by one task, a job is active once per order; so a task with an answer in hand finds
  the order in delivery and the supplier's row open (`CallIsCurrent`). `late_outcome` is
  what happens with a stall. Under `NoLateIssue` as well (connections are established, no request is served after its
  client has left) a refusal proves that nothing is bound; `refusal_after_unknown` shows a failed connection.
* `DeliveryCalm`: under `Calm` the pipeline implements `ExactlyOnce`, a paid order has a job, an
  unknown outcome is asked again, a bound code stays reachable. The centre of the invariant is `AskedIsNext`: the supplier of an
  unknown or bound but unrecorded outcome is the next of the chain, and the order has an active job.
  It survives because jobs are never exhausted while somebody is next (`EnoughTries`): an attempt that ends without a
  result has cost a disturbance or moved the chain on, so attempts and the disturbances left never exceed all
  disturbances and the position in the chain. `SweptRests` says that a sweep acts on orders that are at rest.
  `StocksApart` and `KeysDistinct` give `KeysInStock`, so no unique index is ever hit. In the refinement
  `Bind` is the step in which the first code is bound; the changes of the status are the other steps, the rest stutters.
* `ChoiceIsTheLoop` (in `DeliveryCalm`): the definition of `choose_supplier` by positions is the loop of the code, for every
  chain and every state of its rows. The loop is given by what it returns once it has come to a position.

The clauses of `Calm` were tried one by one with TLC: with two workers the reset of one sweep, decided on an old list,
undoes a refusal while the other supplier's code is bound; with fewer attempts than `PatientJobs` asks for (at
`supplier_max_attempts = 1`, where the bound is tight) the job dies with a code bound; with pools that share a key
the second of two orders runs into the unique index; retries, failed connections and late requests are findings 1 and 2 and their
like. `NoStall` follows from one worker; the lemmas of `DeliveryRuns` need it as a hypothesis.

**Exchange.** `ExchangeIsOneStep` is the refinement `ImplementsDelivery`: `Follows` gives each step of the
conversation the step of `Delivery` it is, under the mapping `Outcome`; serving a request is the exchange, `Receive` and
`TimesOut` are stutters. `EveryAnswerIsBound`: if no key is stocked twice, every answer under way, every code in
hand and on record is the one bound to the request, for however often and late a request is served (`KeysInv`).
What is proved about `Delivery` holds of the conversation as well: the proof modules of `Delivery` are instantiated under the
mapping (`Proved`), and `ConversationIsProved` says that the conversation is a behaviour of that instance. The theorems
`ConversationKeepsBooks`, `ConversationKeepsCodes`, `ConversationSettles` and `ConversationIsExactlyOnce` then speak of
`WireSpec`, under the hypotheses of their originals and no others. `OneRunPerOrder` and what else mentions `tasks` would speak of the
mapped tasks and is left where it is.

**Payments.** `IInv` says what a transaction relies on between its steps: what it inserted is its own and
absent from the table (`Inserted`), the row it read under the lock is current (`ReadIsCurrent`), the orphans a
creation has listed are still orphans (`ListIsPending`). Together with `OneEventDecides` it is inductive.
`SettlesJudges` is the lemma about the closed form of the replay: of a list of undecided events at most one
takes the order, whatever the list; `LoopInClosedForm` says that the loop, given by the row after each event, ends with that
closed form for a list of any length. Each step judges nothing, judges the events of one order, or is a step of the pipeline (`Kinds`). From
these follow `OneEventDecidesAlways`, `RejectedForCauseAlways`, `JudgedOnceAlways` and `PaymentsImplementSettlement`.
`AnswerAfterCommitKeepsPromise` is the other side of finding 4: with `ReplyFirst = FALSE` a 200 means a stored event.

**Reports.** `JournalBalances`: the entries of any journal sum up to nothing. `OpenLiabilities`: every order that the
query returns has a price that is not zero and one of the two postings and not the other, and
the query returns all of these or as many as its LIMIT. Both are about sums over sets
(`MapThenSumSet`). That such a sum exists, is unique and is additive is proved by counting the set and taking the
least number for which a claim fails (`CountingUp`, from `WFMin`), so that no induction theorem with an operator parameter is needed.
`ReportsAssumption` takes a finite set of orders, as a table is, any integer for a price, as the schema does, and
any limits above zero.

**Sessions.** The invariant says where a session of each kind can be (`Placed`), what it holds there (`Holds`), that no
two hold what conflicts (`Apart`), and what follows of what was read (`StatusInv`, `JobsInv`, `BooksInv`, `KeyInv`,
`ViewInv`). `LocksMakeSteps`: the statements add up to the steps of `Settlement` (`OrdersMove`).
`DeadlocksTakeARetry` follows the chain of waits (`WaitsFor`): an event is held by a session that comes to its order or
to its enqueue; an order by a payment at its enqueue; the job index by a session at `reference`; and that one waits for
a payment of the same order, which is unpaid until then. A sweep works on paid orders only (`StatusInv`), so the session
is a retry. Who has something others wait for never waits for a connection (`BlockersAreConnected`); who has a
connection and waits for a second one stands at `recover` of a retry.
`ReportsAreSound` is stated for lists with limits and any superseded codes. It needs one more invariant, `ReportInv`: at each
list a report comes to, what it has read so far holds of the orders that have neither moved meanwhile nor are young (`Settled`)
only those that are owed their goods, and all of them unless it is full (of the liabilities, all that have a price); an order
that has been owed its goods all the while still is; an anomaly was found only if there was one, and a code
that was superseded before the report began has been found. `OpenLiabilities` and `JournalBalances` turn the queries into facts about
the postings, and `StatusInv` and `BooksInv` these into facts about statuses. `OneReport` (one report at a time in `Plans`) is no restriction: a report only reads, so
another one changes nothing for it, and `report` and `watch` belong to one. TLC checked `ReportInv` on the instance of `sessions` before.
The number of open connections is a sum; it is bounded by counting the connections in use as a set (`InUse`).

**Storefront.** `WalkInv` says where the cursor stands: everything shown lies at
it or before it (`ShownUpToCursor`), and of the steady products exactly those up to it
have been shown (`SteadyAtCursor`); the properties alone are not inductive, for they
do not mention the cursor. The one fact about pages is `PageIsBeginning`: a page is
closed downwards in the order of the shelf, and it is all of the rows when it is
not full. That a page has a last item follows from the well-foundedness of strict
inclusion on finite sets.

**Only model-checked.** `ReplayIsTheLoop` compares the closed form with the loop written as a fold over a list. What a fold computes
needs induction over data, which the provers here cannot apply to the community modules' folds; `LoopInClosedForm` states the
same of a loop given row by row. `PaidIsDelivered`, `OrphanIsReplayed`, `EverySessionEnds` and `StockCatchesUp` are
liveness: fairness and `ENABLED` are beyond the proof system. The four findings are counterexamples, which TLC finds.
Every other property of the passing runs, each invariant and each action property and refinement, is a theorem.

## 6. Not modelled

* The other statements of the report (unresolved deliveries, counts by status and
  by account, dead jobs): each reads one table and none decides whether a report is healthy.
* Which rows a list that is cut off shows: `updated_at`, by which the code orders two of the lists, is not
  kept, so any choice of as many rows as the limit is possible.
* Drain and reset of the suppliers' stubs, for tests only; a reset forgets what was issued, which
  no supplier may do. The stock they change is in `Storefront`.
* The product an order is made from (its price is copied, inactive ones are refused), malformed
  cursors, the clamp of the page size, the conversion between roubles and kopecks.
* The audit log, which nothing reads; configuration, logging, error pages, schemas of requests.
* Migrations (they agree with the models, from which the schema is taken) and scripts.

## 7. State and what could follow

1. Done: all modules above, their runs, and the theorems of section 5, among them every safety property of the
   passing runs.
2. Could follow: `OneRunPerOrder` for `Exchange`, restated for its own tasks; the product an order is made from; the statements of the
   report that read one table each.
