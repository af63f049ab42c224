---------------------------- MODULE DeliverySafety ----------------------------
(***************************************************************************)
(* Theorems about Delivery, for every set of orders, workers and job ids,  *)
(* every supplier chain and every budget of disturbances: first its types, *)
(* then its safety, whatever disturbances happen.  Every step of the       *)
(* pipeline is, for the money, one of seven kinds of step of one order     *)
(* (EveryStep), and from these the invariants and the refinement of        *)
(* Settlement follow.                                                      *)
(***************************************************************************)
EXTENDS Delivery, SequenceTheorems, TLAPS

-----------------------------------------------------------------------------
(* The operators the actions are built from *)

\* choose_supplier answers a supplier of the chain or NoSupplier.
LEMMA ChooseSupplierType ==
    ASSUME NEW f
    PROVE  choose_supplier(f) \in Suppliers \cup {NoSupplier}
BY DEF choose_supplier, Suppliers

\* NoSupplier is not in the chain.
LEMMA NoSupplierIsNone == NoSupplier \notin Suppliers
BY ChainAssumption DEF ChainAssumption, Suppliers

\* The records a task goes through.
LEMMA IdleType == Idle \in Task
BY DEF Idle, Task, Answers, Reasons

LEMMA ClaimedType ==
    ASSUME NEW o \in Orders \cup {NoOrder}, NEW n \in Nat
    PROVE  /\ Claimed(o, n) \in Task
           /\ Claimed(o, n).pc = "prepare"
           /\ Claimed(o, n).order = o
BY DEF Claimed, Idle, Task, Answers, Reasons

LEMMA SettlingType ==
    ASSUME NEW t \in Task, NEW outcome \in Outcomes
    PROVE  /\ Settling(t, outcome) \in Task
           /\ Settling(t, outcome).pc = "settle"
           /\ Settling(t, outcome).order = t.order
BY DEF Settling, Claimed, Idle, Task, Answers, Reasons

LEMMA AskingType ==
    ASSUME NEW t \in Task, NEW s \in Suppliers
    PROVE  /\ Asking(t, s) \in Task
           /\ Asking(t, s).pc = "call"
           /\ Asking(t, s).order = t.order
           /\ Asking(t, s).supplier = s
BY DEF Asking, Task

LEMMA AnsweredType ==
    ASSUME NEW t \in Task, NEW a \in Answers, NEW c \in Codes \cup {NoCode},
           NEW r \in Reasons
    PROVE  /\ Answered(t, a, c, r) \in Task
           /\ Answered(t, a, c, r).pc = "record"
           /\ Answered(t, a, c, r).order = t.order
           /\ Answered(t, a, c, r).supplier = t.supplier
BY DEF Answered, Task

\* What _finalize_exhausted writes.
LEMMA ExhaustedType ==
    ASSUME NEW rs
    PROVE  /\ ExhaustedOutcome(rs) \in Outcomes
           /\ ExhaustedStatus(rs) \in {"out_of_stock", "delivery_failed"}
BY DEF ExhaustedOutcome, ExhaustedStatus, Outcomes, TERMINAL_OK

\* Become changes one task and no other.
LEMMA BecomeType ==
    ASSUME tasks \in [Workers -> [JobIds -> Task]],
           NEW w \in Workers, NEW j \in JobIds, NEW t \in Task,
           Become(w, j, t)
    PROVE  /\ tasks' \in [Workers -> [JobIds -> Task]]
           /\ tasks'[w][j] = t
           /\ \A v \in Workers, k \in JobIds :
                 v # w \/ k # j => tasks'[v][k] = tasks[v][k]
BY DEF Become

\* record_outcome writes one row and no other.
LEMMA RecordOutcomeType ==
    ASSUME rows \in [Orders -> [Suppliers -> Row]],
           NEW o \in Orders, NEW s \in Suppliers, NEW status \in DeliveryStatus,
           NEW c \in Codes \cup {NoCode}, NEW r \in Reasons
    PROVE  /\ record_outcome(o, s, status, c, r) \in [Orders -> [Suppliers -> Row]]
           /\ record_outcome(o, s, status, c, r)[o][s].status = status
           /\ \A p \in Orders, q \in Suppliers :
                 p # o \/ q # s =>
                     record_outcome(o, s, status, c, r)[p][q] = rows[p][q]
BY DEF record_outcome, Row

\* A reset row was a known negative; no other row changes.
LEMMA ResetType ==
    ASSUME rows \in [Orders -> [Suppliers -> Row]], NEW o \in Orders
    PROVE  /\ reset_known_negatives(o) \in [Orders -> [Suppliers -> Row]]
           /\ \A p \in Orders, q \in Suppliers :
                 \/ reset_known_negatives(o)[p][q] = rows[p][q]
                 \/ /\ rows[p][q].status = "known_negative"
                    /\ reset_known_negatives(o)[p][q].status = "pending"
                    /\ reset_known_negatives(o)[p][q].code = rows[p][q].code
<1> DEFINE reset(r) == IF r.status = "known_negative"
                       THEN [r EXCEPT !.status = "pending", !.reason = "none"]
                       ELSE r
<1>1. \A r \in Row : reset(r) \in Row
  BY DEF Row, DeliveryStatus, Reasons
<1>2. \A r \in Row : r.status = "known_negative" => /\ reset(r).status = "pending"
                                                    /\ reset(r).code = r.code
  BY DEF Row
<1>3. reset_known_negatives(o) =
          [rows EXCEPT ![o] = [s \in Suppliers |-> reset(rows[o][s])]]
  BY DEF reset_known_negatives
<1> HIDE DEF reset
<1>4. \A q \in Suppliers : rows[o][q] \in Row
  OBVIOUS
<1>5. reset_known_negatives(o) \in [Orders -> [Suppliers -> Row]]
  BY <1>1, <1>3, <1>4
<1>6. \A p \in Orders, q \in Suppliers :
          reset_known_negatives(o)[p][q] =
              IF p = o THEN reset(rows[o][q]) ELSE rows[p][q]
  BY <1>3
<1>7. \A q \in Suppliers :
          rows[o][q].status # "known_negative" => reset(rows[o][q]) = rows[o][q]
  BY DEF reset
<1> QED
  BY <1>2, <1>4, <1>5, <1>6, <1>7

\* enqueue leaves the rows in use alone and adds at most a job of its order.
LEMMA EnqueueType ==
    ASSUME jobs \in [JobIds -> Job], NEW o \in Orders, NEW js \in enqueue(o)
    PROVE  /\ js \in [JobIds -> Job]
           /\ \A k \in JobIds :
                 \/ js[k] = jobs[k]
                 \/ /\ jobs[k] = NoJob
                    /\ js[k].order = o
                    /\ js[k].state = "queued"
BY DEF enqueue, Job, JobState

\* A posting is one of the two event types.
LEMMA PostType ==
    ASSUME ledger \in [Orders -> SUBSET {"payment_captured", "delivery_completed"}],
           NEW o \in Orders, NEW event \in {"payment_captured", "delivery_completed"}
    PROVE  post(o, event) \in [Orders -> SUBSET {"payment_captured", "delivery_completed"}]
BY DEF post

\* Retain keeps every active or held row.
LEMMA RetainType ==
    ASSUME NEW js \in [JobIds -> Job], NEW ts
    PROVE  /\ Retain(js, ts) \in [JobIds -> Job]
           /\ \A k \in JobIds : Retain(js, ts)[k] \in {js[k], NoJob}
           /\ \A k \in JobIds : Held(ts, k) => Retain(js, ts)[k] = js[k]
BY DEF Retain, NoJob, Job, JobState

LEMMA SpendType ==
    ASSUME budget \in [Disturbance -> Nat], NEW kinds \in SUBSET Disturbance, Spend(kinds)
    PROVE  budget' \in [Disturbance -> Nat]
BY DEF Spend

-----------------------------------------------------------------------------
(* Type correctness *)

\* A task that goes on with its own order keeps the records whole.
LEMMA BecomeWhole ==
    ASSUME TypeOK, NEW w \in Workers, NEW j \in JobIds, NEW t \in Task,
           Become(w, j, t), UNCHANGED <<jobs, sweeps>>,
           tasks[w][j].pc # "idle", t.order = tasks[w][j].order,
           t.pc \in {"call", "record", "supersede"} => t.supplier \in Suppliers
    PROVE  /\ tasks' \in [Workers -> [JobIds -> Task]]
           /\ RecordsWhole'
<1>1. /\ tasks' \in [Workers -> [JobIds -> Task]]
      /\ tasks'[w][j] = t
      /\ \A v \in Workers, k \in JobIds :
            v # w \/ k # j => tasks'[v][k] = tasks[v][k]
  BY BecomeType DEF TypeOK
<1>2. tasks[w][j].order \in Orders /\ jobs[j].order = tasks[w][j].order
  BY DEF TypeOK, RecordsWhole
<1>3. \A v \in Workers, k \in JobIds :
          /\ tasks'[v][k].pc # "idle" => /\ tasks'[v][k].order \in Orders
                                         /\ jobs[k].order = tasks'[v][k].order
          /\ tasks'[v][k].pc \in {"call", "record", "supersede"} =>
                tasks'[v][k].supplier \in Suppliers
  <2> TAKE v \in Workers, k \in JobIds
  <2>1. CASE v = w /\ k = j
    BY <1>1, <1>2, <2>1
  <2>2. CASE v # w \/ k # j
    BY <1>1, <2>2 DEF TypeOK, RecordsWhole
  <2> QED
    BY <2>1, <2>2
<1> QED
  BY <1>1, <1>3 DEF TypeOK, RecordsWhole

\* Writing the job table: rows in use keep their order.
LEMMA JobsWhole ==
    ASSUME TypeOK, jobs' \in [JobIds -> Job],
           \A v \in Workers : sweeps'[v].pc = "enqueue" => sweeps'[v].current \in Orders,
           tasks' \in [Workers -> [JobIds -> Task]],
           \A v \in Workers, k \in JobIds :
               tasks'[v][k] = tasks[v][k] \/ tasks'[v][k].pc = "idle",
           \A k \in JobIds :
               \/ jobs'[k] = NoJob /\ ~Held(tasks', k)
               \/ jobs'[k].order = jobs[k].order /\ jobs[k] # NoJob /\ jobs'[k].state # "none"
               \/ jobs'[k] = jobs[k]
               \/ jobs[k] = NoJob /\ jobs'[k].order \in Orders /\ jobs'[k].state # "none"
    PROVE  RecordsWhole'
<1>1. \A k \in JobIds : jobs'[k] # NoJob => /\ jobs'[k].order \in Orders
                                            /\ jobs'[k].state # "none"
  BY DEF TypeOK, RecordsWhole
<1>2. ASSUME NEW v \in Workers, NEW k \in JobIds, tasks'[v][k].pc # "idle"
      PROVE  /\ tasks'[v][k].order \in Orders
             /\ jobs'[k].order = tasks'[v][k].order
             /\ tasks'[v][k].pc \in {"call", "record", "supersede"} =>
                    tasks'[v][k].supplier \in Suppliers
  <2>1. tasks'[v][k] = tasks[v][k] /\ Held(tasks', k)
    BY <1>2 DEF Held
  <2>2. jobs[k].order \in Orders /\ jobs[k] # NoJob
    <3>1. tasks[v][k].pc # "idle"
      BY <1>2, <2>1
    <3>2. jobs[k].order \in Orders
      BY <3>1 DEF TypeOK, RecordsWhole
    <3>3. NoJob.order \notin Orders
      BY DeliveryAssumption DEF NoJob, DeliveryAssumption
    <3> QED
      BY <3>2, <3>3
  <2>3. jobs'[k].order = jobs[k].order
    BY <2>1, <2>2
  <2> QED
    BY <1>2, <2>1, <2>3 DEF TypeOK, RecordsWhole
<1> QED
  BY <1>1, <1>2 DEF TypeOK, RecordsWhole

LEMMA TypePay ==
    ASSUME TypeOK, NEW o \in Orders, Pay(o)
    PROVE  TypeOK'
<1>1. jobs' \in [JobIds -> Job] /\ RecordsWhole'
  <2>1. /\ jobs' \in [JobIds -> Job]
        /\ \A k \in JobIds :
              \/ jobs'[k] = jobs[k]
              \/ /\ jobs[k] = NoJob
                 /\ jobs'[k].order = o
                 /\ jobs'[k].state = "queued"
    BY EnqueueType DEF Pay, TypeOK
  <2> QED
    BY <2>1, JobsWhole DEF Pay, TypeOK, RecordsWhole
<1>2. orderStatus' \in [Orders -> OrderStatus]
  BY DEF Pay, TypeOK, OrderStatus
<1>3. ledger' \in [Orders -> SUBSET {"payment_captured", "delivery_completed"}]
  BY DEF Pay, TypeOK, post
<1> QED
  BY <1>1, <1>2, <1>3 DEF Pay, TypeOK, suppliers

LEMMA TypeFailPayment ==
    ASSUME TypeOK, NEW o \in Orders, FailPayment(o)
    PROVE  TypeOK'
<1>1. RecordsWhole'
  BY DEF FailPayment, TypeOK, RecordsWhole
<1> QED
  BY <1>1 DEF FailPayment, TypeOK, OrderStatus, suppliers

LEMMA TypePrepare ==
    ASSUME TypeOK, NEW w \in Workers, NEW j \in JobIds,
           PrepareSkips(w, j) \/ PrepareEnds(w, j) \/ PrepareTargets(w, j)
    PROVE  TypeOK'
<1> DEFINE t == tasks[w][j]
           o == t.order
<1>1. t \in Task /\ t.pc = "prepare" /\ o \in Orders
  BY DEF TypeOK, RecordsWhole, PrepareSkips, PrepareEnds, PrepareTargets
<1>2. CASE PrepareSkips(w, j)
  <2>1. PICK r \in {"already_delivered", "skipped"} : Become(w, j, Settling(t, r))
    BY <1>2 DEF PrepareSkips
  <2>2. r \in Outcomes
    BY DEF Outcomes, TERMINAL_OK
  <2>3. tasks' \in [Workers -> [JobIds -> Task]] /\ RecordsWhole'
    BY <1>1, <1>2, <2>1, <2>2, SettlingType, BecomeWhole DEF PrepareSkips, database
  <2> QED
    BY <1>2, <2>3 DEF PrepareSkips, TypeOK, database, suppliers
<1>3. CASE PrepareEnds(w, j)
  <2>1. PICK r \in Outcomes : Become(w, j, Settling(t, r))
    BY <1>3, ExhaustedType DEF PrepareEnds, Outcomes, TERMINAL_OK
  <2>2. tasks' \in [Workers -> [JobIds -> Task]] /\ RecordsWhole'
    BY <1>1, <1>3, <2>1, SettlingType, BecomeWhole DEF PrepareEnds
  <2>3. orderStatus' \in [Orders -> OrderStatus]
    BY <1>1, <1>3, ExhaustedType
    DEF PrepareEnds, TypeOK, OrderStatus, finalize_exhausted
  <2>4. ledger' \in [Orders -> SUBSET {"payment_captured", "delivery_completed"}]
    <3>1. ledger' = post(o, "delivery_completed") \/ ledger' = ledger
      BY <1>3 DEF PrepareEnds
    <3> QED
      BY <1>1, <3>1, PostType DEF TypeOK
  <2> QED
    BY <1>3, <2>2, <2>3, <2>4 DEF PrepareEnds, TypeOK, suppliers
<1>4. CASE PrepareTargets(w, j)
  <2> DEFINE s == choose_supplier(statuses(o))
  <2>1. s \in Suppliers
    BY <1>4, ChooseSupplierType DEF PrepareTargets
  <2>2. Become(w, j, Asking(t, s))
    BY <1>4 DEF PrepareTargets
  <2> HIDE DEF s
  <2>3. tasks' \in [Workers -> [JobIds -> Task]] /\ RecordsWhole'
    BY <1>1, <1>4, <2>1, <2>2, AskingType, BecomeWhole DEF PrepareTargets
  <2>4. rows' \in [Orders -> [Suppliers -> Row]]
    <3>1. record_outcome(o, s, "pending", NoCode, "none") \in [Orders -> [Suppliers -> Row]]
      BY <1>1, <2>1, RecordOutcomeType DEF TypeOK, DeliveryStatus, Reasons
    <3> QED
      BY <1>4, <3>1 DEF PrepareTargets, TypeOK, s
  <2> QED
    BY <1>4, <2>3, <2>4 DEF PrepareTargets, TypeOK, OrderStatus, suppliers
<1> QED
  BY <1>2, <1>3, <1>4

LEMMA TypeKeyStoreIssue ==
    ASSUME TypeOK, NEW s \in Suppliers, NEW o \in Orders,
           CanIssue(s, o), KeyStoreIssue(s, o)
    PROVE  /\ free' \in [Suppliers -> Seq(Codes)]
           /\ issued' \in [Suppliers -> [Orders -> Codes \cup {NoCode}]]
           /\ CodeFor(s, o) \in Codes
<1>1. free[s] # <<>> => Head(free[s]) \in Codes /\ Tail(free[s]) \in Seq(Codes)
  BY HeadTailProperties DEF TypeOK
<1>2. CodeFor(s, o) \in Codes
  BY <1>1 DEF CanIssue, CodeFor, TypeOK
<1>3. CASE issued[s][o] # NoCode
  BY <1>2, <1>3 DEF KeyStoreIssue, TypeOK
<1>4. CASE issued[s][o] = NoCode
  <2>1. Head(free[s]) \in Codes /\ Tail(free[s]) \in Seq(Codes)
    BY <1>1, <1>4 DEF CanIssue
  <2>2. /\ issued' = [issued EXCEPT ![s][o] = Head(free[s])]
        /\ free' = [free EXCEPT ![s] = Tail(free[s])]
    BY <1>4 DEF KeyStoreIssue
  <2> QED
    BY <1>2, <2>1, <2>2 DEF TypeOK
<1> QED
  BY <1>3, <1>4

LEMMA TypeExchange ==
    ASSUME TypeOK, NEW w \in Workers, NEW j \in JobIds, ExchangeStep(w, j)
    PROVE  TypeOK'
<1> DEFINE t == tasks[w][j]
<1>1. t \in Task /\ t.pc = "call" /\ t.order \in Orders /\ t.supplier \in Suppliers
  BY DEF TypeOK, RecordsWhole, ExchangeStep, SupplierIssues, SupplierRefuses,
         ConnectFails, AnswerLost, RequestLost, RequestDelayed, NothingLearnt
<1>2. UNCHANGED <<orderStatus, ledger, rows, jobs, sweeps, retrying>>
  BY DEF ExchangeStep, SupplierIssues, SupplierRefuses, ConnectFails, AnswerLost,
         RequestLost, RequestDelayed, NothingLearnt, database
<1>3. PICK u \in Task : /\ Become(w, j, u)
                        /\ u.order = t.order
                        /\ u.pc \in {"call", "record"}
                        /\ u.supplier = t.supplier
  <2>1. CASE SupplierIssues(w, j)
    <3>1. CodeFor(t.supplier, t.order) \in Codes
      BY <1>1, <2>1, TypeKeyStoreIssue DEF SupplierIssues
    <3>2. PICK c \in Codes \cup {NoCode} : Become(w, j, Answered(t, "ok", c, "none"))
      BY <2>1, <3>1 DEF SupplierIssues
    <3>3. "ok" \in Answers /\ "none" \in Reasons
      BY DEF Answers, Reasons
    <3> QED
      BY <1>1, <3>2, <3>3, AnsweredType
  <2>2. CASE SupplierRefuses(w, j)
    BY <1>1, <2>2, AnsweredType DEF SupplierRefuses, Answers, Reasons
  <2>3. CASE ConnectFails(w, j)
    BY <1>1, <2>3, AnsweredType DEF ConnectFails, Answers, Reasons
  <2>4. CASE NothingLearnt(w, j)
    <3>1. GivesUp(t) \in Task /\ GivesUp(t).order = t.order
          /\ GivesUp(t).pc = "record" /\ GivesUp(t).supplier = t.supplier
      BY <1>1, AnsweredType DEF GivesUp, Answers, Reasons
    <3>2. [t EXCEPT !.call = @ + 1] \in Task
      BY <1>1 DEF Task
    <3>3. /\ [t EXCEPT !.call = @ + 1].order = t.order
          /\ [t EXCEPT !.call = @ + 1].pc = "call"
          /\ [t EXCEPT !.call = @ + 1].supplier = t.supplier
      BY <1>1 DEF Task
    <3>4. Become(w, j, GivesUp(t)) \/ Become(w, j, [t EXCEPT !.call = @ + 1])
      BY <2>4 DEF NothingLearnt
    <3> QED
      BY <3>1, <3>2, <3>3, <3>4
  <2> QED
    BY <2>1, <2>2, <2>3, <2>4 DEF ExchangeStep, AnswerLost, RequestLost, RequestDelayed
<1>4. tasks' \in [Workers -> [JobIds -> Task]] /\ RecordsWhole'
  BY <1>1, <1>2, <1>3, BecomeWhole
<1>5. /\ free' \in [Suppliers -> Seq(Codes)]
      /\ issued' \in [Suppliers -> [Orders -> Codes \cup {NoCode}]]
  BY <1>1, TypeKeyStoreIssue
  DEF TypeOK, ExchangeStep, SupplierIssues, SupplierRefuses, ConnectFails, AnswerLost,
      RequestLost, RequestDelayed, suppliers
<1>6. late' \subseteq Orders \X Suppliers
  BY <1>1
  DEF TypeOK, ExchangeStep, SupplierIssues, SupplierRefuses, ConnectFails, AnswerLost,
      RequestLost, RequestDelayed, suppliers
<1>7. budget' \in [Disturbance -> Nat]
  BY SpendType
  DEF TypeOK, ExchangeStep, SupplierIssues, SupplierRefuses, ConnectFails, AnswerLost,
      RequestLost, RequestDelayed, Disturbance
<1> QED
  BY <1>2, <1>4, <1>5, <1>6, <1>7 DEF TypeOK

\* The outcomes an attempt can be settled with.
LEMMA OutcomesType ==
    /\ {"already_delivered", "skipped", "delivered", "crashed", "failed",
        "retry_fallback", "retry_same_supplier"} \subseteq Outcomes
    /\ \A rs : ExhaustedOutcome(rs) \in Outcomes
BY ExhaustedType DEF Outcomes, TERMINAL_OK, RetryOutcomes

LEMMA TypeRecord ==
    ASSUME TypeOK, NEW w \in Workers, NEW j \in JobIds,
           \/ SuccessConflicts(w, j) \/ RecordSuccess(w, j) \/ RecordSuperseded(w, j)
           \/ RecordRefusal(w, j) \/ RecordUnknown(w, j) \/ DatabaseFails(w, j)
    PROVE  TypeOK'
<1> DEFINE t == tasks[w][j]
           o == t.order
<1>1. t \in Task /\ t.pc # "idle" /\ o \in Orders
  BY DEF TypeOK, RecordsWhole, SuccessConflicts, RecordSuccess, RecordSuperseded,
         RecordRefusal, RecordUnknown, DatabaseFails
<1>2. UNCHANGED <<jobs, sweeps, retrying, suppliers>>
  BY DEF SuccessConflicts, RecordSuccess, RecordSuperseded, RecordRefusal,
         RecordUnknown, DatabaseFails, database
<1>3. \/ DatabaseFails(w, j)
      \/ t.pc \in {"record", "supersede"} /\ t.supplier \in Suppliers
  BY DEF TypeOK, RecordsWhole, SuccessConflicts, RecordSuccess, RecordSuperseded,
         RecordRefusal, RecordUnknown
<1>4. t.code \in Codes \cup {NoCode} /\ t.reason \in Reasons /\ "none" \in Reasons
      /\ "other" \in Reasons
  BY <1>1 DEF Task, Reasons
<1>5. budget' \in [Disturbance -> Nat]
  BY SpendType DEF TypeOK, SuccessConflicts, RecordSuccess, RecordSuperseded,
     RecordRefusal, RecordUnknown, DatabaseFails, Disturbance
<1>6. CASE SuccessConflicts(w, j)
  <2> DEFINE u == [t EXCEPT !.pc = "supersede"]
  <2>1. u \in Task /\ u.order = o /\ u.supplier = t.supplier /\ u.pc = "supersede"
    BY <1>1 DEF Task
  <2>2. Become(w, j, u) /\ t.supplier \in Suppliers
    BY <1>6 DEF SuccessConflicts, TypeOK, RecordsWhole
  <2> HIDE DEF u
  <2>3. tasks' \in [Workers -> [JobIds -> Task]] /\ RecordsWhole'
    BY <1>1, <1>2, <2>1, <2>2, BecomeWhole
  <2> QED
    BY <1>2, <1>5, <1>6, <2>3 DEF SuccessConflicts, TypeOK, database, suppliers
<1>7. ASSUME NEW r \in Outcomes, Become(w, j, Settling(t, r))
      PROVE  tasks' \in [Workers -> [JobIds -> Task]] /\ RecordsWhole'
  BY <1>1, <1>2, <1>7, SettlingType, BecomeWhole
<1>8. ASSUME NEW status \in DeliveryStatus, NEW c \in Codes \cup {NoCode},
             NEW r \in Reasons, t.supplier \in Suppliers
      PROVE  record_outcome(o, t.supplier, status, c, r) \in [Orders -> [Suppliers -> Row]]
  BY <1>1, <1>8, RecordOutcomeType DEF TypeOK
<1>9. CASE RecordSuccess(w, j)
  <2>1. tasks' \in [Workers -> [JobIds -> Task]] /\ RecordsWhole'
    <3>1. Become(w, j, Settling(t, "delivered")) \/ Become(w, j, Settling(t, "crashed"))
      BY <1>9 DEF RecordSuccess
    <3> QED
      BY <1>7, <3>1, OutcomesType
  <2>2. rows' \in [Orders -> [Suppliers -> Row]]
    <3>1. t.supplier \in Suppliers
      BY <1>9 DEF RecordSuccess, TypeOK, RecordsWhole
    <3>2. \/ rows' = record_outcome(o, t.supplier, "succeeded", t.code, "none")
          \/ rows' = rows
      BY <1>9 DEF RecordSuccess
    <3>3. "succeeded" \in DeliveryStatus
      BY DEF DeliveryStatus
    <3> QED
      BY <1>4, <1>8, <3>1, <3>2, <3>3 DEF TypeOK
  <2>3. orderStatus' \in [Orders -> OrderStatus]
    BY <1>1, <1>9 DEF RecordSuccess, TypeOK, OrderStatus
  <2>4. ledger' \in [Orders -> SUBSET {"payment_captured", "delivery_completed"}]
    <3>1. ledger' = post(o, "delivery_completed") \/ ledger' = ledger
      BY <1>9 DEF RecordSuccess
    <3> QED
      BY <1>1, <3>1, PostType DEF TypeOK
  <2> QED
    BY <1>2, <1>5, <2>1, <2>2, <2>3, <2>4 DEF TypeOK, suppliers
<1>10. CASE RecordSuperseded(w, j)
  <2>1. tasks' \in [Workers -> [JobIds -> Task]] /\ RecordsWhole'
    BY <1>7, <1>10, OutcomesType DEF RecordSuperseded
  <2>2. rows' \in [Orders -> [Suppliers -> Row]]
    BY <1>4, <1>8, <1>10 DEF RecordSuperseded, TypeOK, RecordsWhole, DeliveryStatus
  <2> QED
    BY <1>2, <1>5, <1>10, <2>1, <2>2 DEF RecordSuperseded, TypeOK, suppliers
<1>11. CASE RecordRefusal(w, j)
  <2> DEFINE rs == record_outcome(o, t.supplier, "known_negative", NoCode, t.reason)
  <2>1. tasks' \in [Workers -> [JobIds -> Task]] /\ RecordsWhole'
    <3>1. \/ Become(w, j, Settling(t, "retry_fallback"))
          \/ Become(w, j, Settling(t, ExhaustedOutcome(rs[o])))
      BY <1>11 DEF RecordRefusal
    <3> QED
      BY <1>7, <3>1, OutcomesType
  <2>2. rows' \in [Orders -> [Suppliers -> Row]]
    BY <1>4, <1>8, <1>11 DEF RecordRefusal, TypeOK, RecordsWhole, DeliveryStatus
  <2>3. orderStatus' \in [Orders -> OrderStatus]
    <3>1. orderStatus' = orderStatus \/ finalize_exhausted(o, rs[o])
      BY <1>11 DEF RecordRefusal
    <3>2. ASSUME finalize_exhausted(o, rs[o])
          PROVE  orderStatus' \in [Orders -> OrderStatus]
      <4>1. ExhaustedStatus(rs[o]) \in OrderStatus
        BY ExhaustedType DEF OrderStatus
      <4> QED
        BY <1>1, <3>2, <4>1 DEF finalize_exhausted, TypeOK
    <3> QED
      BY <3>1, <3>2 DEF TypeOK
  <2> QED
    BY <1>2, <1>5, <1>11, <2>1, <2>2, <2>3 DEF RecordRefusal, TypeOK, suppliers
<1>12. CASE RecordUnknown(w, j)
  <2>1. tasks' \in [Workers -> [JobIds -> Task]] /\ RecordsWhole'
    <3>1. \/ Become(w, j, Settling(t, "failed"))
          \/ Become(w, j, Settling(t, "retry_same_supplier"))
      BY <1>12 DEF RecordUnknown
    <3> QED
      BY <1>7, <3>1, OutcomesType
  <2>2. rows' \in [Orders -> [Suppliers -> Row]]
    BY <1>4, <1>8, <1>12 DEF RecordUnknown, TypeOK, RecordsWhole, DeliveryStatus
  <2>3. orderStatus' \in [Orders -> OrderStatus]
    BY <1>1, <1>12 DEF RecordUnknown, UnknownStatus, TypeOK, OrderStatus
  <2> QED
    BY <1>2, <1>5, <1>12, <2>1, <2>2, <2>3 DEF RecordUnknown, TypeOK, suppliers
<1>13. CASE DatabaseFails(w, j)
  <2>1. tasks' \in [Workers -> [JobIds -> Task]] /\ RecordsWhole'
    BY <1>7, <1>13, OutcomesType DEF DatabaseFails
  <2> QED
    BY <1>2, <1>5, <1>13, <2>1 DEF DatabaseFails, TypeOK, database, suppliers
<1> QED
  BY <1>6, <1>9, <1>10, <1>11, <1>12, <1>13

LEMMA TypeSettle ==
    ASSUME TypeOK, NEW w \in Workers, NEW j \in JobIds,
           FinishJob(w, j) \/ RescheduleJob(w, j)
    PROVE  TypeOK'
<1> DEFINE t == tasks[w][j]
<1>1. /\ UNCHANGED <<orderStatus, ledger, rows, sweeps, retrying, suppliers, budget>>
      /\ Become(w, j, Idle)
  BY DEF FinishJob, RescheduleJob
<1>2. /\ tasks' \in [Workers -> [JobIds -> Task]]
      /\ tasks'[w][j] = Idle
      /\ \A v \in Workers, k \in JobIds :
            v # w \/ k # j => tasks'[v][k] = tasks[v][k]
  BY <1>1, IdleType, BecomeType DEF TypeOK
<1>3. \A v \in Workers, k \in JobIds :
          tasks'[v][k] = tasks[v][k] \/ tasks'[v][k].pc = "idle"
  BY <1>2 DEF Idle
<1>4. jobs[j] # NoJob
  <2>1. t.order \in Orders /\ jobs[j].order = t.order
    BY DEF FinishJob, RescheduleJob, TypeOK, RecordsWhole
  <2> QED
    BY <2>1, DeliveryAssumption DEF DeliveryAssumption, NoJob
<1>5. ASSUME NEW state \in {"queued", "done", "dead"}
      PROVE  /\ [jobs EXCEPT ![j].state = state] \in [JobIds -> Job]
             /\ [jobs EXCEPT ![j].state = state][j].order = jobs[j].order
             /\ [jobs EXCEPT ![j].state = state][j].state = state
             /\ \A k \in JobIds : k # j => [jobs EXCEPT ![j].state = state][k] = jobs[k]
  BY DEF TypeOK, Job, JobState
<1>6. CASE FinishJob(w, j)
  <2>1. PICK state \in {"done", "dead"} :
            jobs' = Retain([jobs EXCEPT ![j].state = state], tasks')
    BY <1>6 DEF FinishJob, FinalState
  <2> DEFINE js == [jobs EXCEPT ![j].state = state]
  <2>2. /\ js \in [JobIds -> Job]
        /\ js[j].order = jobs[j].order
        /\ js[j].state = state
        /\ \A k \in JobIds : k # j => js[k] = jobs[k]
    BY <1>5
  <2> HIDE DEF js
  <2>3. /\ jobs' \in [JobIds -> Job]
        /\ \A k \in JobIds : jobs'[k] \in {js[k], NoJob}
        /\ \A k \in JobIds : Held(tasks', k) => jobs'[k] = js[k]
    BY <2>1, <2>2, RetainType DEF js
  <2>4. \A k \in JobIds :
            \/ jobs'[k] = NoJob /\ ~Held(tasks', k)
            \/ /\ jobs'[k].order = jobs[k].order
               /\ jobs[k] # NoJob
               /\ jobs'[k].state # "none"
            \/ jobs'[k] = jobs[k]
    BY <1>4, <2>2, <2>3
  <2>5. RecordsWhole'
    BY <1>1, <1>2, <1>3, <2>3, <2>4, JobsWhole DEF TypeOK, RecordsWhole
  <2> QED
    BY <1>1, <1>2, <2>3, <2>5 DEF TypeOK, suppliers
<1>7. CASE RescheduleJob(w, j)
  <2>1. jobs' = [jobs EXCEPT ![j].state = "queued"]
    BY <1>7 DEF RescheduleJob
  <2>2. /\ jobs' \in [JobIds -> Job]
        /\ \A k \in JobIds :
              \/ /\ jobs'[k].order = jobs[k].order
                 /\ jobs[k] # NoJob
                 /\ jobs'[k].state # "none"
              \/ jobs'[k] = jobs[k]
    BY <1>4, <1>5, <2>1
  <2>3. RecordsWhole'
    BY <1>1, <1>2, <1>3, <2>2, JobsWhole DEF TypeOK, RecordsWhole
  <2> QED
    BY <1>1, <1>2, <2>2, <2>3 DEF TypeOK, suppliers
<1> QED
  BY <1>6, <1>7

\* A worker that dies leaves the tables as they are.
LEMMA DropType ==
    ASSUME TypeOK, NEW w \in Workers, Drop(w)
    PROVE  /\ tasks' \in [Workers -> [JobIds -> Task]]
           /\ sweeps' \in [Workers -> Sweep]
           /\ jobs' \in [JobIds -> Job]
           /\ RecordsWhole'
<1>1. /\ tasks' \in [Workers -> [JobIds -> Task]]
      /\ \A v \in Workers, k \in JobIds :
            tasks'[v][k] = IF v = w THEN Idle ELSE tasks[v][k]
  BY IdleType DEF Drop, TypeOK
<1>2. /\ sweeps' \in [Workers -> Sweep]
      /\ \A v \in Workers : sweeps'[v] = IF v = w THEN SweepOff ELSE sweeps[v]
  BY DEF Drop, TypeOK, SweepOff, Sweep
<1>3. /\ jobs' \in [JobIds -> Job]
      /\ \A k \in JobIds : jobs'[k] \in {jobs[k], NoJob}
      /\ \A k \in JobIds : Held(tasks', k) => jobs'[k] = jobs[k]
  BY RetainType DEF Drop, TypeOK
<1>4. ASSUME NEW v \in Workers, NEW k \in JobIds, tasks'[v][k].pc # "idle"
      PROVE  /\ tasks'[v][k].order \in Orders
             /\ jobs'[k].order = tasks'[v][k].order
             /\ tasks'[v][k].pc \in {"call", "record", "supersede"} =>
                    tasks'[v][k].supplier \in Suppliers
  <2>1. tasks'[v][k] = tasks[v][k] /\ Held(tasks', k)
    BY <1>1, <1>4 DEF Idle, Held
  <2> QED
    BY <1>3, <1>4, <2>1 DEF TypeOK, RecordsWhole
<1>5. \A v \in Workers : sweeps'[v].pc = "enqueue" => sweeps'[v].current \in Orders
  <2>1. SweepOff.pc = "off"
    BY DEF SweepOff
  <2> QED
    BY <1>2, <2>1 DEF TypeOK, RecordsWhole
<1>6. \A k \in JobIds : jobs'[k] # NoJob => /\ jobs'[k].order \in Orders
                                            /\ jobs'[k].state # "none"
  BY <1>3 DEF TypeOK, RecordsWhole
<1> QED
  BY <1>1, <1>2, <1>3, <1>4, <1>5, <1>6 DEF RecordsWhole

LEMMA TypeDeath ==
    ASSUME TypeOK, NEW w \in Workers,
           Crash(w) \/ \E j \in JobIds : RescheduleBreaks(w, j)
    PROVE  TypeOK'
<1>1. Drop(w)
  BY DEF Crash, RescheduleBreaks
<1>2. /\ late' \subseteq Orders \X Suppliers
      /\ budget' \in [Disturbance -> Nat]
  <2>1. CASE Crash(w)
    <3>1. CASE Spend({"crash"}) /\ UNCHANGED late
      BY <3>1, SpendType DEF TypeOK, Disturbance
    <3>2. CASE \E j \in JobIds :
                  /\ tasks[w][j].pc = "call"
                  /\ Spend({"crash", "delayed"})
                  /\ late' = late \cup {<<tasks[w][j].order, tasks[w][j].supplier>>}
      <4>1. budget' \in [Disturbance -> Nat]
        BY <3>2, SpendType DEF TypeOK, Disturbance
      <4> QED
        BY <3>2, <4>1 DEF TypeOK, RecordsWhole
    <3> QED
      BY <2>1, <3>1, <3>2 DEF Crash
  <2>2. CASE \E j \in JobIds : RescheduleBreaks(w, j)
    BY <2>2 DEF RescheduleBreaks, TypeOK
  <2> QED
    BY <2>1, <2>2
<1> QED
  BY <1>1, <1>2, DropType DEF Drop, TypeOK

LEMMA TypeClaim ==
    ASSUME TypeOK, NEW w \in Workers, Claim(w)
    PROVE  TypeOK'
<1>1. PICK batch \in SUBSET ReadyJobs :
          /\ jobs' = [j \in JobIds |->
                        IF j \in batch
                        THEN Running(jobs[j])
                        ELSE jobs[j]]
          /\ tasks' = [tasks EXCEPT ![w] = [j \in JobIds |->
                        IF j \in batch
                        THEN Claimed(jobs[j].order, jobs[j].attempts + 1)
                        ELSE Idle]]
  BY DEF Claim
<1>2. \A j \in batch : j \in JobIds /\ jobs[j].state = "queued" /\ jobs[j].order \in Orders
  <2>1. \A j \in batch : j \in JobIds /\ jobs[j].state = "queued"
    BY <1>1 DEF ReadyJobs
  <2>2. NoJob.state = "none"
    BY DEF NoJob
  <2> QED
    BY <2>1, <2>2 DEF TypeOK, RecordsWhole
<1>3. \A j \in JobIds : jobs[j].order \in Orders \cup {NoOrder} /\ jobs[j].attempts + 1 \in Nat
  BY DEF TypeOK, Job
<1>4. /\ jobs' \in [JobIds -> Job]
      /\ \A j \in JobIds :
            /\ jobs'[j].order = jobs[j].order
            /\ j \in batch => jobs'[j].state = "running"
            /\ j \notin batch => jobs'[j] = jobs[j]
  <2>1. ASSUME NEW job \in Job
        PROVE  /\ Running(job) \in Job
               /\ Running(job).order = job.order
               /\ Running(job).state = "running"
    BY DEF Running, Job, JobState
  <2> QED
    BY <1>1, <2>1 DEF TypeOK
<1>5. /\ tasks' \in [Workers -> [JobIds -> Task]]
      /\ \A v \in Workers \ {w}, j \in JobIds : tasks'[v][j] = tasks[v][j]
      /\ \A j \in batch : tasks'[w][j] = Claimed(jobs[j].order, jobs[j].attempts + 1)
      /\ \A j \in JobIds \ batch : tasks'[w][j] = Idle
  <2> DEFINE mine == [j \in JobIds |-> IF j \in batch
                                       THEN Claimed(jobs[j].order, jobs[j].attempts + 1)
                                       ELSE Idle]
  <2>1. \A j \in JobIds : Claimed(jobs[j].order, jobs[j].attempts + 1) \in Task
    BY <1>3, ClaimedType
  <2>2. /\ mine \in [JobIds -> Task]
        /\ \A j \in batch : mine[j] = Claimed(jobs[j].order, jobs[j].attempts + 1)
        /\ \A j \in JobIds \ batch : mine[j] = Idle
    BY <1>2, <2>1, IdleType
  <2>3. tasks' = [tasks EXCEPT ![w] = mine]
    BY <1>1
  <2> HIDE DEF mine
  <2> QED
    BY <2>2, <2>3 DEF TypeOK
<1>6. \A v \in Workers, j \in JobIds :
          /\ tasks'[v][j].pc # "idle" => /\ tasks'[v][j].order \in Orders
                                         /\ jobs'[j].order = tasks'[v][j].order
          /\ tasks'[v][j].pc \in {"call", "record", "supersede"} =>
                tasks'[v][j].supplier \in Suppliers
  <2> TAKE v \in Workers, j \in JobIds
  <2>1. CASE v # w
    BY <1>4, <1>5, <2>1 DEF TypeOK, RecordsWhole
  <2>2. CASE v = w /\ j \in batch
    BY <1>2, <1>3, <1>4, <1>5, <2>2, ClaimedType
  <2>3. CASE v = w /\ j \notin batch
    BY <1>5, <2>3 DEF Idle
  <2> QED
    BY <2>1, <2>2, <2>3
<1>7. \A j \in JobIds : jobs'[j] # NoJob => /\ jobs'[j].order \in Orders
                                          /\ jobs'[j].state # "none"
  <2> TAKE j \in JobIds
  <2>1. CASE j \in batch
    BY <1>2, <1>4, <2>1
  <2>2. CASE j \notin batch
    BY <1>4, <2>2 DEF TypeOK, RecordsWhole
  <2> QED
    BY <2>1, <2>2
<1>8. UNCHANGED <<orderStatus, ledger, rows, sweeps, retrying, free, issued, late, budget>>
  BY DEF Claim, suppliers
<1>9. RecordsWhole'
  BY <1>6, <1>7, <1>8 DEF TypeOK, RecordsWhole
<1> QED
  BY <1>4, <1>5, <1>8, <1>9 DEF TypeOK

LEMMA TypeSupplier ==
    ASSUME TypeOK, LateRequestServed \/ \E s \in Suppliers : Restock(s)
    PROVE  TypeOK'
<1>1. UNCHANGED <<orderStatus, ledger, rows, jobs, tasks, sweeps, retrying>>
  BY DEF LateRequestServed, Restock, database
<1>2. RecordsWhole'
  BY <1>1 DEF TypeOK, RecordsWhole
<1>3. CASE LateRequestServed
  <2>1. PICK request \in late :
            /\ late' = late \ {request}
            /\ IF CanIssue(request[2], request[1])
               THEN KeyStoreIssue(request[2], request[1])
               ELSE UNCHANGED <<free, issued>>
    BY <1>3 DEF LateRequestServed
  <2>2. request[1] \in Orders /\ request[2] \in Suppliers
    BY DEF TypeOK
  <2>3. /\ free' \in [Suppliers -> Seq(Codes)]
        /\ issued' \in [Suppliers -> [Orders -> Codes \cup {NoCode}]]
    BY <2>1, <2>2, TypeKeyStoreIssue DEF TypeOK
  <2> QED
    BY <1>1, <1>2, <1>3, <2>1, <2>3 DEF TypeOK, LateRequestServed
<1>4. CASE \E s \in Suppliers : Restock(s)
  <2>1. PICK s \in Suppliers, key \in Codes : free' = [free EXCEPT ![s] = Append(@, key)]
    BY <1>4, DeliveryAssumption DEF Restock, DeliveryAssumption
  <2>2. Append(free[s], key) \in Seq(Codes)
    BY <2>1, AppendProperties DEF TypeOK
  <2>3. free' \in [Suppliers -> Seq(Codes)]
    BY <2>1, <2>2 DEF TypeOK
  <2>4. budget' \in [Disturbance -> Nat]
    BY <1>4, SpendType DEF Restock, TypeOK, Disturbance
  <2> QED
    BY <1>1, <1>2, <1>4, <2>3, <2>4 DEF TypeOK, Restock
<1> QED
  BY <1>3, <1>4

LEMMA TypeSweep ==
    ASSUME TypeOK, NEW w \in Workers, SweepStep(w) \/ SweepFails(w)
    PROVE  TypeOK'
<1>1. UNCHANGED <<orderStatus, ledger, tasks, retrying, suppliers>>
  BY DEF SweepStep, SweepRequeue, SweepCollect, SweepReset, SweepEnqueue, SweepFails, database
<1>2. ASSUME UNCHANGED jobs, sweeps' \in [Workers -> Sweep],
             \A v \in Workers : sweeps'[v].pc = "enqueue" => sweeps'[v].current \in Orders
      PROVE  RecordsWhole'
  BY <1>1, <1>2 DEF TypeOK, RecordsWhole
<1>3. SweepOff \in Sweep /\ SweepOff.pc = "off"
  BY DEF SweepOff, Sweep
<1>4. CASE SweepRequeue(w)
  <2>1. PICK stale \in SUBSET {j \in JobIds : jobs[j].state = "running"} :
            /\ Spend({"stall"}) \/ UNCHANGED budget
            /\ jobs' = [j \in JobIds |-> IF j \in stale
                                         THEN [jobs[j] EXCEPT !.state = "queued"]
                                         ELSE jobs[j]]
    BY <1>4 DEF SweepRequeue
  <2>2. \A k \in stale : k \in JobIds /\ jobs[k] # NoJob
    BY <2>1 DEF NoJob
  <2>3. ASSUME NEW job \in Job
        PROVE  /\ [job EXCEPT !.state = "queued"] \in Job
               /\ [job EXCEPT !.state = "queued"].order = job.order
               /\ [job EXCEPT !.state = "queued"].state = "queued"
    BY DEF Job, JobState
  <2>4. /\ jobs' \in [JobIds -> Job]
        /\ \A k \in JobIds :
              \/ /\ jobs'[k].order = jobs[k].order
                 /\ jobs[k] # NoJob
                 /\ jobs'[k].state # "none"
              \/ jobs'[k] = jobs[k]
    BY <2>1, <2>2, <2>3 DEF TypeOK
  <2>5. sweeps' \in [Workers -> Sweep]
        /\ \A v \in Workers : sweeps'[v].pc = "enqueue" => sweeps'[v].current \in Orders
    <3>1. sweeps' = [sweeps EXCEPT ![w].pc = "collect"]
      BY <1>4 DEF SweepRequeue
    <3>2. /\ [sweeps[w] EXCEPT !.pc = "collect"] \in Sweep
          /\ [sweeps[w] EXCEPT !.pc = "collect"].pc = "collect"
      BY DEF TypeOK, Sweep
    <3>3. sweeps' = [sweeps EXCEPT ![w] = [sweeps[w] EXCEPT !.pc = "collect"]]
      BY <3>1
    <3> QED
      BY <3>2, <3>3 DEF TypeOK, RecordsWhole
  <2>6. RecordsWhole'
    BY <1>1, <2>4, <2>5, JobsWhole DEF TypeOK
  <2>7. budget' \in [Disturbance -> Nat]
    BY <2>1, SpendType DEF TypeOK, Disturbance
  <2> QED
    BY <1>1, <1>4, <2>4, <2>5, <2>6, <2>7 DEF SweepRequeue, TypeOK, suppliers
<1>5. CASE SweepCollect(w)
  <2>1. PICK s \in Sweep : s.pc # "enqueue" /\ sweeps' = [sweeps EXCEPT ![w] = s]
    BY <1>3, <1>5 DEF SweepCollect, StuckOrders, Sweep
  <2>2. sweeps' \in [Workers -> Sweep]
        /\ \A v \in Workers : sweeps'[v].pc = "enqueue" => sweeps'[v].current \in Orders
    BY <2>1 DEF TypeOK, RecordsWhole
  <2> QED
    BY <1>1, <1>2, <1>5, <2>2 DEF SweepCollect, TypeOK, database, suppliers
<1>6. CASE SweepReset(w)
  <2>1. PICK o \in Orders :
            /\ o \in sweeps[w].todo
            /\ rows' = reset_known_negatives(o)
            /\ sweeps' = [sweeps EXCEPT ![w] = [pc |-> "enqueue",
                                               todo |-> @.todo \ {o}, current |-> o]]
    BY <1>6 DEF SweepReset, TypeOK, Sweep
  <2>2. sweeps' \in [Workers -> Sweep]
        /\ \A v \in Workers : sweeps'[v].pc = "enqueue" => sweeps'[v].current \in Orders
    BY <2>1 DEF TypeOK, RecordsWhole, Sweep
  <2>3. rows' \in [Orders -> [Suppliers -> Row]]
    BY <2>1, ResetType DEF TypeOK
  <2> QED
    BY <1>1, <1>2, <1>6, <2>2, <2>3 DEF SweepReset, TypeOK, suppliers
<1>7. CASE SweepEnqueue(w)
  <2> DEFINE o == sweeps[w].current
  <2>1. o \in Orders /\ jobs' \in enqueue(o)
    BY <1>7 DEF SweepEnqueue, TypeOK, RecordsWhole
  <2>2. PICK s \in Sweep : s.pc # "enqueue" /\ sweeps' = [sweeps EXCEPT ![w] = s]
    BY <1>3, <1>7 DEF SweepEnqueue, TypeOK, Sweep
  <2>3. sweeps' \in [Workers -> Sweep]
        /\ \A v \in Workers : sweeps'[v].pc = "enqueue" => sweeps'[v].current \in Orders
    BY <2>2 DEF TypeOK, RecordsWhole
  <2>4. /\ jobs' \in [JobIds -> Job]
        /\ \A k \in JobIds : \/ jobs'[k] = jobs[k]
                             \/ /\ jobs[k] = NoJob
                                /\ jobs'[k].order = o
                                /\ jobs'[k].state = "queued"
    BY <2>1, EnqueueType DEF TypeOK
  <2>5. RecordsWhole'
    BY <1>1, <2>1, <2>3, <2>4, JobsWhole DEF TypeOK
  <2> QED
    BY <1>1, <1>7, <2>3, <2>4, <2>5 DEF SweepEnqueue, TypeOK, suppliers
<1>8. CASE SweepFails(w)
  <2>1. sweeps' \in [Workers -> Sweep]
        /\ \A v \in Workers : sweeps'[v].pc = "enqueue" => sweeps'[v].current \in Orders
    BY <1>3, <1>8 DEF SweepFails, TypeOK, RecordsWhole
  <2>2. budget' \in [Disturbance -> Nat]
    BY <1>8, SpendType DEF SweepFails, TypeOK, Disturbance
  <2> QED
    BY <1>1, <1>2, <1>8, <2>1, <2>2 DEF SweepFails, TypeOK, database, suppliers
<1> QED
  BY <1>4, <1>5, <1>6, <1>7, <1>8 DEF SweepStep

LEMMA TypeRetry ==
    ASSUME TypeOK, NEW o \in Orders, RetryResets(o) \/ RetryEnqueues(o)
    PROVE  TypeOK'
<1>1. CASE RetryResets(o)
  <2>1. rows' \in [Orders -> [Suppliers -> Row]]
    BY <1>1, ResetType DEF RetryResets, TypeOK
  <2>2. RecordsWhole'
    BY <1>1 DEF RetryResets, TypeOK, RecordsWhole
  <2>3. budget' \in [Disturbance -> Nat]
    BY <1>1, SpendType DEF RetryResets, TypeOK, Disturbance
  <2> QED
    BY <1>1, <2>1, <2>2, <2>3 DEF RetryResets, TypeOK, suppliers
<1>2. CASE RetryEnqueues(o)
  <2>1. /\ jobs' \in [JobIds -> Job]
        /\ \A k \in JobIds : \/ jobs'[k] = jobs[k]
                             \/ /\ jobs[k] = NoJob
                                /\ jobs'[k].order = o
                                /\ jobs'[k].state = "queued"
    BY <1>2, EnqueueType DEF RetryEnqueues, TypeOK
  <2>2. RecordsWhole'
    BY <1>2, <2>1, JobsWhole DEF RetryEnqueues, TypeOK, RecordsWhole
  <2> QED
    BY <1>2, <2>1, <2>2 DEF RetryEnqueues, TypeOK, suppliers
<1> QED
  BY <1>1, <1>2

LEMMA TypeInit == Init => TypeOK
<1> SUFFICES ASSUME Init PROVE TypeOK
  OBVIOUS
<1>1. NoRow \in Row /\ NoJob \in Job /\ SweepOff \in Sweep
  BY DEF NoRow, Row, DeliveryStatus, Reasons, NoJob, Job, SweepOff, Sweep
<1>2. /\ orderStatus \in [Orders -> OrderStatus]
      /\ ledger \in [Orders -> SUBSET {"payment_captured", "delivery_completed"}]
  BY DEF Init, OrderStatus
<1>3. /\ rows \in [Orders -> [Suppliers -> Row]]
      /\ jobs \in [JobIds -> Job]
      /\ tasks \in [Workers -> [JobIds -> Task]]
      /\ sweeps \in [Workers -> Sweep]
  BY <1>1, IdleType DEF Init
<1>4. /\ free \in [Suppliers -> Seq(Codes)]
      /\ issued \in [Suppliers -> [Orders -> Codes \cup {NoCode}]]
      /\ budget \in [Disturbance -> Nat]
      /\ retrying \subseteq Orders
      /\ late \subseteq Orders \X Suppliers
  BY DeliveryAssumption DEF Init, DeliveryAssumption
<1>5. RecordsWhole
  BY DEF Init, RecordsWhole, Idle, SweepOff
<1> QED
  BY <1>2, <1>3, <1>4, <1>5 DEF TypeOK

LEMMA TypeStep == TypeOK /\ [Next]_vars => TypeOK'
<1> SUFFICES ASSUME TypeOK, [Next]_vars PROVE TypeOK'
  OBVIOUS
<1>1. CASE UNCHANGED vars
  BY <1>1 DEF TypeOK, RecordsWhole, vars
<1>2. ASSUME NEW w \in Workers, NEW j \in JobIds,
             TaskStep(w, j) \/ ExchangeStep(w, j) \/ DatabaseFails(w, j)
      PROVE  TypeOK'
  BY <1>2, TypePrepare, TypeRecord, TypeSettle, TypeDeath, TypeExchange DEF TaskStep
<1>3. ASSUME NEW w \in Workers, Claim(w) \/ SweepStep(w) \/ SweepFails(w) \/ Crash(w)
      PROVE  TypeOK'
  BY <1>3, TypeClaim, TypeSweep, TypeDeath
<1>4. ASSUME NEW o \in Orders,
             Pay(o) \/ FailPayment(o) \/ RetryResets(o) \/ RetryEnqueues(o)
      PROVE  TypeOK'
  BY <1>4, TypePay, TypeFailPayment, TypeRetry
<1>5. CASE LateRequestServed \/ \E s \in Suppliers : Restock(s)
  BY <1>5, TypeSupplier
<1> QED
  BY <1>1, <1>2, <1>3, <1>4, <1>5 DEF Next

\* Every reachable state is well typed, and its records are whole: no task, job
\* or sweep ever names a null order, a job keeps the order of the task that runs
\* it, and a task that calls or records has a supplier to do it with.
THEOREM TypeCorrect == Spec => []TypeOK
BY TypeInit, TypeStep, PTL DEF Spec

-----------------------------------------------------------------------------
(* The kinds of step *)

\* The bookkeeping stands still; the order has no more codes than before, or
\* is delivered anyway.
LeavesAlone(o) ==
    /\ UNCHANGED <<orderStatus, ledger>>
    /\ orderStatus[o] = "delivered" \/ Succeeded(o)' \subseteq Succeeded(o)

Captures(o) == /\ orderStatus[o] = "created"
               /\ orderStatus' = [orderStatus EXCEPT ![o] = "paid"]
               /\ ledger' = post(o, "payment_captured")
               /\ Succeeded(o)' = Succeeded(o)

Fails(o) == /\ orderStatus[o] = "created"
            /\ orderStatus' = [orderStatus EXCEPT ![o] = "payment_failed"]
            /\ ledger' = ledger
            /\ Succeeded(o)' = Succeeded(o)

Starts(o) == /\ orderStatus[o] \in DELIVERABLE_STATUSES
             /\ Succeeded(o) = {}
             /\ orderStatus' = [orderStatus EXCEPT ![o] = "delivering"]
             /\ ledger' = ledger
             /\ Succeeded(o)' = {}

Heals(o) == /\ orderStatus[o] \in DELIVERABLE_STATUSES
            /\ Succeeded(o) # {}
            /\ orderStatus' = [orderStatus EXCEPT ![o] = "delivered"]
            /\ ledger' = post(o, "delivery_completed")

GivesItUp(o) == /\ orderStatus[o] = "delivering"
                /\ \E status \in {"out_of_stock", "delivery_failed"} :
                      orderStatus' = [orderStatus EXCEPT ![o] = status]
                /\ ledger' = ledger
                /\ Succeeded(o)' \subseteq Succeeded(o)

Delivers(o) == /\ orderStatus[o] = "delivering"
               /\ orderStatus' = [orderStatus EXCEPT ![o] = "delivered"]
               /\ ledger' = post(o, "delivery_completed")
               /\ Succeeded(o)' # {}

SameCodes(o) == Succeeded(o)' = Succeeded(o)

Idles == /\ UNCHANGED <<orderStatus, ledger>>
         /\ \A o \in Orders : SameCodes(o)

OrderStep(o) ==
    /\ \A p \in Orders \ {o} : SameCodes(p)
    /\ \/ LeavesAlone(o)  \/ Captures(o) \/ Fails(o) \/ Starts(o)
       \/ Heals(o)  \/ GivesItUp(o) \/ Delivers(o)

-----------------------------------------------------------------------------
(* How rows are written *)

\* record_outcome touches the codes of one order only, and adds one only with
\* the status "succeeded".
LEMMA RowWrite ==
    ASSUME TypeOK, NEW o \in Orders, NEW s \in Suppliers, NEW status \in DeliveryStatus,
           NEW c \in Codes \cup {NoCode}, NEW r \in Reasons,
           rows' = record_outcome(o, s, status, c, r)
    PROVE  /\ \A p \in Orders \ {o} : SameCodes(p)
           /\ status # "succeeded" => Succeeded(o)' \subseteq Succeeded(o)
           /\ status = "succeeded" => Succeeded(o)' # {}
<1>1. /\ rows'[o][s].status = status
      /\ \A p \in Orders, q \in Suppliers :
            p # o \/ q # s => rows'[p][q] = rows[p][q]
  BY RecordOutcomeType DEF TypeOK
<1>2. \A p \in Orders \ {o} : SameCodes(p)
  BY <1>1 DEF SameCodes, Succeeded
<1> QED
  BY <1>1, <1>2 DEF Succeeded

\* reset_known_negatives touches no code.
LEMMA RowReset ==
    ASSUME TypeOK, NEW o \in Orders, rows' = reset_known_negatives(o)
    PROVE  \A p \in Orders : SameCodes(p)
<1>1. \A p \in Orders, q \in Suppliers :
          \/ rows'[p][q] = rows[p][q]
          \/ rows[p][q].status = "known_negative" /\ rows'[p][q].status = "pending"
  BY ResetType DEF TypeOK
<1> QED
  BY <1>1 DEF SameCodes, Succeeded

LEMMA RowsKept == UNCHANGED rows => \A o \in Orders : SameCodes(o)
BY DEF SameCodes, Succeeded

\* Only "delivering" leads to "delivered".
LEMMA DeliveredFrom ==
    ASSUME NEW status \in OrderStatus, can_transition(status, "delivered")
    PROVE  status = "delivering"
BY DEF can_transition, ALLOWED_TRANSITIONS, OrderStatus

-----------------------------------------------------------------------------
(* Every step is one of the kinds *)

LEMMA EveryTaskStep ==
    ASSUME TypeOK, NEW w \in Workers, NEW j \in JobIds, TaskStep(w, j)
    PROVE  Idles \/ \E o \in Orders : OrderStep(o)
<1> DEFINE t == tasks[w][j]
<1>1. PICK o \in Orders : o = t.order /\ t \in Task
  BY DEF TypeOK, RecordsWhole, TaskStep, PrepareSkips, PrepareEnds, PrepareTargets,
         SuccessConflicts, RecordSuccess, RecordSuperseded, RecordRefusal,
         RecordUnknown, FinishJob, RescheduleJob, RescheduleBreaks
<1>2. CASE \/ PrepareSkips(w, j) \/ SuccessConflicts(w, j) \/ FinishJob(w, j)
           \/ RescheduleJob(w, j) \/ RescheduleBreaks(w, j)
  <2>1. UNCHANGED <<orderStatus, ledger, rows>>
    BY <1>2 DEF PrepareSkips, SuccessConflicts, FinishJob, RescheduleJob,
       RescheduleBreaks, Drop, database
  <2> QED
    BY <2>1, RowsKept DEF Idles
<1>3. CASE PrepareEnds(w, j)
  <2>1. orderStatus[o] \in DELIVERABLE_STATUSES /\ \A p \in Orders : SameCodes(p)
    BY <1>1, <1>3, RowsKept DEF PrepareEnds
  <2>2. CASE Succeeded(o) # {}
    <3>1. Heals(o)
      BY <1>1, <1>3, <2>1, <2>2 DEF PrepareEnds, Heals
    <3> QED
      BY <1>1, <2>1, <3>1 DEF OrderStep
  <2>3. CASE Succeeded(o) = {}
    <3>1. finalize_exhausted(o, rows[o]) /\ UNCHANGED ledger
      BY <1>1, <1>3, <2>3 DEF PrepareEnds
    <3>2. CASE orderStatus[o] = "delivering"
      <4>1. GivesItUp(o)
        <5>1. orderStatus' = [orderStatus EXCEPT ![o] = ExhaustedStatus(rows[o])]
          BY <3>1, <3>2 DEF finalize_exhausted
        <5> QED
          BY <2>1, <3>1, <3>2, <5>1, ExhaustedType DEF GivesItUp, SameCodes
      <4> QED
        BY <1>1, <2>1, <4>1 DEF OrderStep
    <3>3. CASE orderStatus[o] # "delivering"
      <4>1. UNCHANGED orderStatus
        BY <1>1, <3>1, <3>3 DEF finalize_exhausted, TypeOK
      <4> QED
        BY <2>1, <3>1, <4>1 DEF Idles
    <3> QED
      BY <3>2, <3>3
  <2> QED
    BY <2>2, <2>3
<1>4. CASE PrepareTargets(w, j)
  <2> DEFINE s == choose_supplier(statuses(o))
  <2>1. s \in Suppliers
    BY <1>1, <1>4, ChooseSupplierType DEF PrepareTargets
  <2>2. rows' = rows \/ rows' = record_outcome(o, s, "pending", NoCode, "none")
    BY <1>1, <1>4 DEF PrepareTargets
  <2> HIDE DEF s
  <2>3. /\ \A p \in Orders \ {o} : SameCodes(p)
        /\ Succeeded(o)' \subseteq Succeeded(o)
    <3>1. "pending" \in DeliveryStatus /\ "none" \in Reasons
      BY DEF DeliveryStatus, Reasons
    <3>2. CASE rows' = rows
      BY <1>1, <3>2, RowsKept DEF SameCodes
    <3> QED
      BY <1>1, <2>1, <2>2, <3>1, <3>2, RowWrite
  <2>4. Starts(o)
    BY <1>1, <1>4, <2>3 DEF PrepareTargets, Starts
  <2> QED
    BY <1>1, <2>3, <2>4 DEF OrderStep
<1>5. CASE RecordSuccess(w, j)
  <2>1. /\ t.supplier \in Suppliers /\ t.code \in Codes \cup {NoCode}
        /\ "none" \in Reasons /\ "succeeded" \in DeliveryStatus
    BY <1>1, <1>5 DEF RecordSuccess, TypeOK, RecordsWhole, Task, Reasons, DeliveryStatus
  <2>2. CASE ~(orderStatus[o] = "delivered" \/ can_transition(orderStatus[o], "delivered"))
    <3>1. UNCHANGED <<orderStatus, ledger, rows>>
      BY <1>1, <1>5, <2>2 DEF RecordSuccess
    <3> QED
      BY <3>1, RowsKept DEF Idles
  <2>3. CASE orderStatus[o] = "delivered" \/ can_transition(orderStatus[o], "delivered")
    <3>1. /\ rows' = record_outcome(o, t.supplier, "succeeded", t.code, "none")
          /\ orderStatus' = [orderStatus EXCEPT ![o] = "delivered"]
          /\ ledger' = IF orderStatus[o] = "delivered" THEN ledger
                       ELSE post(o, "delivery_completed")
      BY <1>1, <1>5, <2>3 DEF RecordSuccess
    <3>2. /\ \A p \in Orders \ {o} : SameCodes(p)
          /\ Succeeded(o)' # {}
      BY <1>1, <2>1, <3>1, RowWrite
    <3>3. CASE orderStatus[o] = "delivered"
      <4>1. UNCHANGED <<orderStatus, ledger>>
        BY <1>1, <3>1, <3>3 DEF TypeOK
      <4> QED
        BY <1>1, <3>2, <3>3, <4>1 DEF OrderStep, LeavesAlone
    <3>4. CASE orderStatus[o] # "delivered"
      <4>1. orderStatus[o] = "delivering"
        BY <1>1, <2>3, <3>4, DeliveredFrom DEF TypeOK
      <4>2. Delivers(o)
        BY <3>1, <3>2, <4>1 DEF Delivers
      <4> QED
        BY <1>1, <3>2, <4>2 DEF OrderStep
    <3> QED
      BY <3>3, <3>4
  <2> QED
    BY <2>2, <2>3
<1>6. ASSUME NEW status \in {"superseded", "known_negative", "unknown"},
             NEW c \in Codes \cup {NoCode}, NEW r \in Reasons,
             t.supplier \in Suppliers, rows' = record_outcome(o, t.supplier, status, c, r)
      PROVE  /\ \A p \in Orders \ {o} : SameCodes(p)
             /\ Succeeded(o)' \subseteq Succeeded(o)
  BY <1>1, <1>6, RowWrite DEF DeliveryStatus
<1>7. CASE RecordSuperseded(w, j)
  <2>1. /\ \A p \in Orders \ {o} : SameCodes(p)
        /\ Succeeded(o)' \subseteq Succeeded(o)
    BY <1>1, <1>6, <1>7 DEF RecordSuperseded, TypeOK, RecordsWhole, Task, Reasons
  <2> QED
    BY <1>1, <1>7, <2>1 DEF RecordSuperseded, OrderStep, LeavesAlone
<1>8. CASE RecordRefusal(w, j)
  <2> DEFINE rs == record_outcome(o, t.supplier, "known_negative", NoCode, t.reason)
  <2>1. /\ \A p \in Orders \ {o} : SameCodes(p)
        /\ Succeeded(o)' \subseteq Succeeded(o)
    BY <1>1, <1>6, <1>8 DEF RecordRefusal, TypeOK, RecordsWhole, Task
  <2>2. (UNCHANGED orderStatus \/ finalize_exhausted(o, rs[o])) /\ UNCHANGED ledger
    BY <1>1, <1>8 DEF RecordRefusal
  <2>3. CASE UNCHANGED orderStatus
    BY <1>1, <2>1, <2>2, <2>3 DEF OrderStep, LeavesAlone
  <2>4. CASE finalize_exhausted(o, rs[o]) /\ orderStatus[o] = "delivering"
    <3>1. orderStatus' = [orderStatus EXCEPT ![o] = ExhaustedStatus(rs[o])]
      BY <2>4 DEF finalize_exhausted
    <3>2. GivesItUp(o)
      BY <2>1, <2>2, <2>4, <3>1, ExhaustedType DEF GivesItUp
    <3> QED
      BY <1>1, <2>1, <3>2 DEF OrderStep
  <2>5. CASE finalize_exhausted(o, rs[o]) /\ orderStatus[o] # "delivering"
    <3>1. UNCHANGED orderStatus
      BY <1>1, <2>5 DEF finalize_exhausted, TypeOK
    <3> QED
      BY <2>3, <3>1
  <2> QED
    BY <2>2, <2>3, <2>4, <2>5
<1>9. CASE RecordUnknown(w, j)
  <2>1. /\ \A p \in Orders \ {o} : SameCodes(p)
        /\ Succeeded(o)' \subseteq Succeeded(o)
    BY <1>1, <1>6, <1>9 DEF RecordUnknown, TypeOK, RecordsWhole, Task
  <2>2. /\ UNCHANGED ledger
        /\ orderStatus' = [orderStatus EXCEPT ![o] =
                              UnknownStatus(@, t.attempt >= job_max_attempts)]
    BY <1>1, <1>9 DEF RecordUnknown
  <2>3. CASE t.attempt >= job_max_attempts /\ orderStatus[o] = "delivering"
    <3>1. orderStatus' = [orderStatus EXCEPT ![o] = "delivery_failed"]
      BY <2>2, <2>3 DEF UnknownStatus
    <3>2. GivesItUp(o)
      BY <2>1, <2>2, <2>3, <3>1 DEF GivesItUp
    <3> QED
      BY <1>1, <2>1, <3>2 DEF OrderStep
  <2>4. CASE ~(t.attempt >= job_max_attempts /\ orderStatus[o] = "delivering")
    <3>1. UNCHANGED orderStatus
      BY <1>1, <2>2, <2>4 DEF UnknownStatus, TypeOK
    <3> QED
      BY <1>1, <2>1, <2>2, <3>1 DEF OrderStep, LeavesAlone
  <2> QED
    BY <2>3, <2>4
<1> QED
  BY <1>2, <1>3, <1>4, <1>5, <1>7, <1>8, <1>9 DEF TaskStep

LEMMA EveryStep ==
    ASSUME TypeOK, [Next]_vars
    PROVE  Idles \/ \E o \in Orders : OrderStep(o)
<1>1. CASE UNCHANGED vars
  BY <1>1, RowsKept DEF vars, Idles
<1>2. ASSUME NEW w \in Workers, NEW j \in JobIds, TaskStep(w, j)
      PROVE  Idles \/ \E o \in Orders : OrderStep(o)
  BY <1>2, EveryTaskStep
<1>3. ASSUME NEW w \in Workers, NEW j \in JobIds, ExchangeStep(w, j) \/ DatabaseFails(w, j)
      PROVE  Idles
  <2>1. UNCHANGED <<orderStatus, ledger, rows>>
    BY <1>3 DEF ExchangeStep, SupplierIssues, SupplierRefuses, ConnectFails, AnswerLost,
       RequestLost, RequestDelayed, NothingLearnt, DatabaseFails, database
  <2> QED
    BY <2>1, RowsKept DEF Idles
<1>4. ASSUME NEW w \in Workers, Claim(w) \/ SweepStep(w) \/ SweepFails(w) \/ Crash(w)
      PROVE  Idles
  <2>1. UNCHANGED <<orderStatus, ledger>>
    BY <1>4 DEF Claim, SweepStep, SweepRequeue, SweepCollect, SweepReset, SweepEnqueue,
       SweepFails, Crash, Drop, database
  <2>2. CASE SweepReset(w)
    <3>1. PICK o \in Orders : rows' = reset_known_negatives(o)
      BY <2>2 DEF SweepReset, TypeOK, Sweep
    <3> QED
      BY <2>1, <3>1, RowReset DEF Idles
  <2>3. CASE ~SweepReset(w)
    <3>1. UNCHANGED rows
      BY <1>4, <2>3 DEF Claim, SweepStep, SweepRequeue, SweepCollect, SweepEnqueue,
         SweepFails, Crash, Drop, database
    <3> QED
      BY <2>1, <3>1, RowsKept DEF Idles
  <2> QED
    BY <2>2, <2>3
<1>5. ASSUME NEW o \in Orders, Pay(o) \/ FailPayment(o)
      PROVE  OrderStep(o)
  <2>1. \A p \in Orders : SameCodes(p)
    BY <1>5, RowsKept DEF Pay, FailPayment
  <2>2. Captures(o) \/ Fails(o)
    BY <1>5, <2>1 DEF Pay, FailPayment, Captures, Fails, SameCodes
  <2> QED
    BY <2>1, <2>2 DEF OrderStep
<1>6. ASSUME NEW o \in Orders, RetryResets(o) \/ RetryEnqueues(o)
      PROVE  Idles
  <2>1. CASE RetryResets(o)
    BY <2>1, RowReset DEF RetryResets, Idles
  <2>2. CASE RetryEnqueues(o)
    BY <2>2, RowsKept DEF RetryEnqueues, Idles
  <2> QED
    BY <1>6, <2>1, <2>2
<1>7. CASE LateRequestServed \/ \E s \in Suppliers : Restock(s)
  BY <1>7, RowsKept DEF LateRequestServed, Restock, database, Idles
<1> QED
  BY <1>1, <1>2, <1>3, <1>4, <1>5, <1>6, <1>7 DEF Next

-----------------------------------------------------------------------------
(* The invariants *)

MoneyInv == /\ SucceededImpliesDelivered
            /\ LiabilityMatchesStatus

LEMMA MoneyInit == Init => MoneyInv
<1> SUFFICES ASSUME Init PROVE MoneyInv
  OBVIOUS
<1>1. \A o \in Orders : Succeeded(o) = {}
  BY DEF Init, Succeeded, NoRow
<1> QED
  BY <1>1 DEF Init, MoneyInv, SucceededImpliesDelivered, LiabilityMatchesStatus,
     UNSETTLED_STATUSES, RECOVERABLE_STATUSES

\* What one kind of step does to the order it is about.
LEMMA MoneyOfOrder ==
    ASSUME TypeOK, MoneyInv, NEW o \in Orders, OrderStep(o)
    PROVE  /\ Succeeded(o)' # {} => orderStatus'[o] = "delivered"
           /\ ledger'[o] =
                 CASE orderStatus'[o] \in {"created", "payment_failed"} -> {}
                   [] orderStatus'[o] \in UNSETTLED_STATUSES -> {"payment_captured"}
                   [] orderStatus'[o] = "delivered" ->
                          {"payment_captured", "delivery_completed"}
           /\ \A p \in Orders \ {o} : /\ orderStatus'[p] = orderStatus[p]
                                       /\ ledger'[p] = ledger[p]
           /\ orderStatus'[o] # orderStatus[o] =>
                 can_transition(orderStatus[o], orderStatus'[o])
<1>1. /\ orderStatus \in [Orders -> OrderStatus]
      /\ ledger \in [Orders -> SUBSET {"payment_captured", "delivery_completed"}]
      /\ Succeeded(o) # {} => orderStatus[o] = "delivered"
      /\ ledger[o] =
            CASE orderStatus[o] \in {"created", "payment_failed"} -> {}
              [] orderStatus[o] \in UNSETTLED_STATUSES -> {"payment_captured"}
              [] orderStatus[o] = "delivered" ->
                     {"payment_captured", "delivery_completed"}
  BY DEF TypeOK, MoneyInv, SucceededImpliesDelivered, LiabilityMatchesStatus
<1>2. CASE LeavesAlone(o)
  BY <1>1, <1>2 DEF LeavesAlone
<1>3. CASE Captures(o)
  BY <1>1, <1>3 DEF Captures, post, UNSETTLED_STATUSES, RECOVERABLE_STATUSES,
     can_transition, ALLOWED_TRANSITIONS
<1>4. CASE Fails(o)
  BY <1>1, <1>4 DEF Fails, UNSETTLED_STATUSES, RECOVERABLE_STATUSES,
     can_transition, ALLOWED_TRANSITIONS
<1>5. CASE Starts(o)
  BY <1>1, <1>5 DEF Starts, DELIVERABLE_STATUSES, UNSETTLED_STATUSES,
     RECOVERABLE_STATUSES, can_transition, ALLOWED_TRANSITIONS
<1>6. CASE Heals(o)
  BY <1>1, <1>6 DEF Heals, DELIVERABLE_STATUSES
<1>7. CASE GivesItUp(o)
  BY <1>1, <1>7 DEF GivesItUp, UNSETTLED_STATUSES, RECOVERABLE_STATUSES,
     can_transition, ALLOWED_TRANSITIONS
<1>8. CASE Delivers(o)
  BY <1>1, <1>8 DEF Delivers, post, UNSETTLED_STATUSES, RECOVERABLE_STATUSES,
     can_transition, ALLOWED_TRANSITIONS
<1> QED
  BY <1>2, <1>3, <1>4, <1>5, <1>6, <1>7, <1>8 DEF OrderStep

LEMMA MoneyStep ==
    ASSUME TypeOK, MoneyInv, [Next]_vars
    PROVE  MoneyInv'
<1>1. CASE Idles
  BY <1>1 DEF Idles, SameCodes, MoneyInv, SucceededImpliesDelivered, LiabilityMatchesStatus
<1>2. ASSUME NEW o \in Orders, OrderStep(o)
      PROVE  MoneyInv'
  <2>1. SucceededImpliesDelivered'
    BY <1>2, MoneyOfOrder
    DEF OrderStep, SameCodes, MoneyInv, SucceededImpliesDelivered
  <2>2. LiabilityMatchesStatus'
    BY <1>2, MoneyOfOrder DEF MoneyInv, LiabilityMatchesStatus
  <2> QED
    BY <2>1, <2>2 DEF MoneyInv
<1> QED
  BY <1>1, <1>2, EveryStep

LEMMA MoneyInvariant == Spec => []MoneyInv
BY TypeCorrect, MoneyInit, MoneyStep, PTL DEF Spec

\* No order has a code on record without being delivered: the healing branch of
\* _prepare is never taken, and an order with a code is never sent to a supplier.
THEOREM CodeOnlyWhenDelivered == Spec => []SucceededImpliesDelivered
BY MoneyInvariant, PTL DEF MoneyInv

\* The bookings of an order are those of its status, in every state.
THEOREM LedgerFollowsStatus == Spec => []LiabilityMatchesStatus
BY MoneyInvariant, PTL DEF MoneyInv

\* Statuses only change along ALLOWED_TRANSITIONS.
THEOREM StatusIsLawful == Spec => LawfulTransitions
<1> DEFINE Lawful == \A o \in Orders : orderStatus'[o] # orderStatus[o] =>
                         can_transition(orderStatus[o], orderStatus'[o])
<1>1. ASSUME TypeOK, MoneyInv, [Next]_vars
      PROVE  [Lawful]_orderStatus
  <2>1. CASE Idles
    BY <2>1 DEF Idles
  <2>2. ASSUME NEW o \in Orders, OrderStep(o)
        PROVE  Lawful
    BY <1>1, <2>2, MoneyOfOrder
  <2> QED
    BY <1>1, <2>1, <2>2, EveryStep
<1> QED
  BY <1>1, TypeCorrect, MoneyInvariant, PTL DEF Spec, LawfulTransitions

-----------------------------------------------------------------------------
(* The refinement of Settlement *)

\* A run of the pipeline, with every crash, lost answer, repeated run and late
\* outcome, is a run of Settlement: paid once, booked once, delivered for good.
THEOREM PipelineImplementsSettlement == Spec => ImplementsSettlement
<1>1. Init => Money!Init
  <2> SUFFICES ASSUME Init PROVE Money!Init
    OBVIOUS
  <2>1. \A o \in Orders : Succeeded(o) = {}
    BY DEF Init, Succeeded, NoRow
  <2> QED
    BY <2>1 DEF Init, Money!Init, WithCode
<1>2. ASSUME TypeOK, MoneyInv, [Next]_vars
      PROVE  [Money!Next]_Money!vars
  <2>1. CASE Idles
    <3>1. UNCHANGED <<orderStatus, ledger, WithCode>>
      BY <2>1 DEF Idles, SameCodes, WithCode
    <3> QED
      BY <3>1 DEF Money!vars
  <2>2. ASSUME NEW o \in Orders, OrderStep(o)
        PROVE  [Money!Next]_Money!vars
    <3>1. /\ orderStatus \in [Orders -> OrderStatus]
          /\ ledger \in [Orders -> SUBSET {"payment_captured", "delivery_completed"}]
          /\ Succeeded(o) # {} => orderStatus[o] = "delivered"
      BY <1>2 DEF TypeOK, MoneyInv, SucceededImpliesDelivered
    <3>2. \A p \in Orders \ {o} : p \in WithCode' <=> p \in WithCode
      BY <2>2 DEF OrderStep, SameCodes, WithCode
    <3>3. /\ o \in WithCode <=> Succeeded(o) # {}
          /\ o \in WithCode' <=> Succeeded(o)' # {}
          /\ WithCode \subseteq Orders /\ WithCode' \subseteq Orders
      BY DEF WithCode
    <3>4. Succeeded(o)' = Succeeded(o) => WithCode' = WithCode
      BY <3>2, <3>3
    <3>5. CASE LeavesAlone(o)
      <4>1. CASE orderStatus[o] = "delivered"
        <5>1. WithCode' \in {WithCode \cup {o}, WithCode \ {o}}
          BY <3>2, <3>3
        <5>2. Money!Overwrite(o)
          BY <3>5, <4>1, <5>1 DEF LeavesAlone, Money!Overwrite
        <5> QED
          BY <5>2 DEF Money!Next
      <4>2. CASE orderStatus[o] # "delivered"
        <5>1. WithCode' = WithCode
          BY <3>1, <3>2, <3>3, <3>5, <4>2 DEF LeavesAlone
        <5> QED
          BY <3>5, <5>1 DEF LeavesAlone, Money!vars
      <4> QED
        BY <4>1, <4>2
    <3>6. CASE Captures(o)
      <4>1. ledger[o] = {}
        BY <1>2, <3>6 DEF MoneyInv, LiabilityMatchesStatus, Captures,
           UNSETTLED_STATUSES, RECOVERABLE_STATUSES
      <4>2. Money!Capture(o)
        BY <3>4, <3>6, <4>1 DEF Captures, post, Money!Capture, Money!Moves, Money!Books
      <4> QED
        BY <4>2 DEF Money!Next
    <3>7. CASE Fails(o)
      <4>1. Money!Void(o)
        BY <3>4, <3>7 DEF Fails, Money!Void, Money!Moves
      <4> QED
        BY <4>1 DEF Money!Next
    <3>8. CASE Starts(o)
      <4>1. WithCode' = WithCode /\ o \notin WithCode
        BY <3>3, <3>4, <3>8 DEF Starts
      <4>2. CASE orderStatus[o] = "delivering"
        BY <3>1, <3>8, <4>1, <4>2 DEF Starts, Money!vars
      <4>3. CASE orderStatus[o] # "delivering"
        <5>1. Money!Start(o)
          BY <3>8, <4>1, <4>3 DEF Starts, DELIVERABLE_STATUSES, Money!Start, Money!Moves
        <5> QED
          BY <5>1 DEF Money!Next
      <4> QED
        BY <4>2, <4>3
    <3>9. CASE Heals(o)
      BY <3>1, <3>9 DEF Heals, DELIVERABLE_STATUSES
    <3>10. CASE GivesItUp(o)
      <4>1. WithCode' = WithCode /\ o \notin WithCode
        BY <3>1, <3>2, <3>3, <3>10 DEF GivesItUp
      <4>2. Money!GiveUp(o)
        BY <3>10, <4>1 DEF GivesItUp, Money!GiveUp, Money!Moves
      <4> QED
        BY <4>2 DEF Money!Next
    <3>11. CASE Delivers(o)
      <4>1. WithCode' = WithCode \cup {o} /\ o \notin WithCode
        BY <3>1, <3>2, <3>3, <3>11 DEF Delivers
      <4>2. ledger[o] = {"payment_captured"}
        BY <1>2, <3>11
        DEF MoneyInv, LiabilityMatchesStatus, Delivers, UNSETTLED_STATUSES
      <4>3. Money!Deliver(o)
        BY <3>11, <4>1, <4>2 DEF Delivers, post, Money!Deliver, Money!Moves, Money!Books
      <4> QED
        BY <4>3 DEF Money!Next
    <3> QED
      BY <2>2, <3>5, <3>6, <3>7, <3>8, <3>9, <3>10, <3>11 DEF OrderStep
  <2> QED
    BY <1>2, <2>1, <2>2, EveryStep
<1> QED
  BY <1>1, <1>2, TypeCorrect, MoneyInvariant, PTL DEF Spec, ImplementsSettlement, Money!Spec

-----------------------------------------------------------------------------
(* Unpaid orders *)

Unpaid(o) == "payment_captured" \notin ledger[o]

\* No row, no code, no request under way.
Untouched(o) == \A s \in Suppliers : /\ rows[o][s].status = "absent"
                                    /\ issued[s][o] = NoCode
                                    /\ <<o, s>> \notin late

\* Its tasks have not got past the first transaction.
Harmless(o) == \A w \in Workers, j \in JobIds :
                  tasks[w][j].order = o => tasks[w][j].pc \in {"prepare", "settle"}

\* An unpaid order was unpaid before the step, and is not deliverable.
LEMMA UnpaidBefore ==
    ASSUME TypeOK, MoneyInv, [Next]_vars, NEW o \in Orders, Unpaid(o)'
    PROVE  /\ Unpaid(o)
           /\ orderStatus[o] \notin DELIVERABLE_STATUSES
<1>1. Unpaid(o)
  <2>1. CASE Idles
    BY <2>1 DEF Idles, Unpaid
  <2>2. ASSUME NEW p \in Orders, OrderStep(p)
        PROVE  ledger'[o] = ledger[o] \/ \E event : ledger' = post(p, event)
    BY <2>2 DEF OrderStep, LeavesAlone, Captures, Fails, Starts, Heals, GivesItUp, Delivers
  <2>3. ASSUME NEW p \in Orders, NEW event, ledger' = post(p, event)
        PROVE  ledger[o] \subseteq ledger'[o]
    BY <2>3 DEF post, TypeOK
  <2> QED
    BY <2>1, <2>2, <2>3, EveryStep DEF Unpaid
<1> QED
  BY <1>1 DEF Unpaid, MoneyInv, LiabilityMatchesStatus, TypeOK, OrderStatus,
     DELIVERABLE_STATUSES, UNSETTLED_STATUSES, RECOVERABLE_STATUSES

\* The rows a task's step can write.
LEMMA RowsOfTask ==
    ASSUME TypeOK, NEW w \in Workers, NEW j \in JobIds,
           TaskStep(w, j) \/ ExchangeStep(w, j) \/ DatabaseFails(w, j)
    PROVE  \/ UNCHANGED rows
           \/ \E s \in Suppliers, status \in DeliveryStatus, c \in Codes \cup {NoCode},
                 r \in Reasons :
                 rows' = record_outcome(tasks[w][j].order, s, status, c, r)
<1> DEFINE t == tasks[w][j]
<1>1. t \in Task
  BY DEF TypeOK
<1>2. t.code \in Codes \cup {NoCode} /\ t.reason \in Reasons
      /\ "none" \in Reasons /\ "other" \in Reasons
  BY <1>1 DEF Task, Reasons
<1>3. CASE PrepareTargets(w, j)
  <2>1. choose_supplier(statuses(t.order)) \in Suppliers
    BY <1>3, ChooseSupplierType DEF PrepareTargets
  <2> QED
    BY <1>2, <1>3, <2>1 DEF PrepareTargets, DeliveryStatus
<1>4. CASE \/ RecordSuccess(w, j) \/ RecordSuperseded(w, j)
           \/ RecordRefusal(w, j) \/ RecordUnknown(w, j)
  <2>1. t.supplier \in Suppliers
    BY <1>4 DEF TypeOK, RecordsWhole, RecordSuccess, RecordSuperseded, RecordRefusal,
       RecordUnknown
  <2>2. CASE RecordSuccess(w, j)
    BY <1>2, <2>1, <2>2 DEF RecordSuccess, DeliveryStatus
  <2>3. CASE RecordSuperseded(w, j)
    BY <1>2, <2>1, <2>3 DEF RecordSuperseded, DeliveryStatus
  <2>4. CASE RecordRefusal(w, j)
    BY <1>2, <2>1, <2>4 DEF RecordRefusal, DeliveryStatus
  <2>5. CASE RecordUnknown(w, j)
    BY <1>2, <2>1, <2>5 DEF RecordUnknown, DeliveryStatus
  <2> QED
    BY <1>4, <2>2, <2>3, <2>4, <2>5
<1>5. CASE ~ (\/ PrepareTargets(w, j) \/ RecordSuccess(w, j) \/ RecordSuperseded(w, j)
              \/ RecordRefusal(w, j) \/ RecordUnknown(w, j))
  BY <1>5 DEF TaskStep, PrepareSkips, PrepareEnds, SuccessConflicts, FinishJob,
     RescheduleJob, RescheduleBreaks, Drop, ExchangeStep, SupplierIssues,
     SupplierRefuses, ConnectFails, AnswerLost, RequestLost, RequestDelayed,
     NothingLearnt, DatabaseFails, database
<1> QED
  BY <1>3, <1>4, <1>5

\* What a task becomes: it goes on with its order, or ends.
LEMMA TaskBecomes ==
    ASSUME TypeOK, NEW w \in Workers, NEW j \in JobIds, ~RescheduleBreaks(w, j),
           TaskStep(w, j) \/ ExchangeStep(w, j) \/ DatabaseFails(w, j)
    PROVE  \E u : Become(w, j, u) /\ (u = Idle \/ u.order = tasks[w][j].order)
<1> DEFINE t == tasks[w][j]
<1>1. t \in Task
  BY DEF TypeOK
<1>2. CASE FinishJob(w, j) \/ RescheduleJob(w, j)
  BY <1>2 DEF FinishJob, RescheduleJob
<1>3. ASSUME NEW r, Become(w, j, Settling(t, r))
      PROVE  \E u : Become(w, j, u) /\ u.order = t.order
  <2>1. Settling(t, r).order = t.order
    BY DEF Settling, Claimed, Idle
  <2> QED
    BY <1>3, <2>1
<1>4. CASE \/ PrepareSkips(w, j) \/ PrepareEnds(w, j) \/ RecordSuccess(w, j)
           \/ RecordSuperseded(w, j) \/ RecordRefusal(w, j) \/ RecordUnknown(w, j)
           \/ DatabaseFails(w, j)
  <2>1. \E r : Become(w, j, Settling(t, r))
    BY <1>4 DEF PrepareSkips, PrepareEnds, RecordSuccess, RecordSuperseded,
       RecordRefusal, RecordUnknown, DatabaseFails
  <2> QED
    BY <1>3, <2>1
<1>5. ASSUME NEW a, NEW c, NEW r, Become(w, j, Answered(t, a, c, r))
      PROVE  \E u : Become(w, j, u) /\ u.order = t.order
  <2>1. Answered(t, a, c, r).order = t.order
    BY <1>1 DEF Answered, Task
  <2> QED
    BY <1>5, <2>1
<1>6. CASE SupplierIssues(w, j) \/ SupplierRefuses(w, j) \/ ConnectFails(w, j)
  <2>1. \E a, c, r : Become(w, j, Answered(t, a, c, r))
    BY <1>6 DEF SupplierIssues, SupplierRefuses, ConnectFails
  <2> QED
    BY <1>5, <2>1
<1>7. CASE NothingLearnt(w, j)
  <2>1. CASE t.call < supplier_max_attempts
    <3>1. [t EXCEPT !.call = @ + 1].order = t.order
      BY <1>1 DEF Task
    <3> QED
      BY <1>7, <2>1, <3>1 DEF NothingLearnt
  <2>2. CASE ~(t.call < supplier_max_attempts)
    BY <1>5, <1>7, <2>2 DEF NothingLearnt, GivesUp
  <2> QED
    BY <2>1, <2>2
<1>8. CASE SuccessConflicts(w, j)
  <2>1. [t EXCEPT !.pc = "supersede"].order = t.order
    BY <1>1 DEF Task
  <2> QED
    BY <1>8, <2>1 DEF SuccessConflicts
<1>9. CASE PrepareTargets(w, j)
  <2>1. \A s : Asking(t, s).order = t.order
    BY <1>1 DEF Asking, Task
  <2> QED
    BY <1>9, <2>1 DEF PrepareTargets
<1> QED
  BY <1>2, <1>4, <1>6, <1>7, <1>8, <1>9
  DEF TaskStep, ExchangeStep, AnswerLost, RequestLost, RequestDelayed

LEMMA UnpaidTaskStep ==
    ASSUME TypeOK, NEW o \in Orders, orderStatus[o] \notin DELIVERABLE_STATUSES,
           Untouched(o), Harmless(o),
           NEW w \in Workers, NEW j \in JobIds,
           TaskStep(w, j) \/ ExchangeStep(w, j) \/ DatabaseFails(w, j)
    PROVE  Untouched(o)' /\ Harmless(o)'
<1> DEFINE t == tasks[w][j]
<1>1. PICK p \in Orders : p = t.order /\ t \in Task
  BY DEF TypeOK, RecordsWhole, TaskStep, PrepareSkips, PrepareEnds, PrepareTargets,
         SuccessConflicts, RecordSuccess, RecordSuperseded, RecordRefusal,
         RecordUnknown, FinishJob, RescheduleJob, RescheduleBreaks,
         ExchangeStep, SupplierIssues, SupplierRefuses, ConnectFails, AnswerLost,
         RequestLost, RequestDelayed, NothingLearnt, DatabaseFails
<1>2. CASE p = o
  <2>1. t.pc \in {"prepare", "settle"}
    BY <1>1, <1>2 DEF Harmless
  <2>2. \/ PrepareSkips(w, j) \/ FinishJob(w, j) \/ RescheduleJob(w, j)
        \/ RescheduleBreaks(w, j) \/ DatabaseFails(w, j)
    BY <1>1, <1>2, <2>1 DEF TaskStep, PrepareEnds, PrepareTargets, SuccessConflicts,
       RecordSuccess, RecordSuperseded, RecordRefusal, RecordUnknown, ExchangeStep,
       SupplierIssues, SupplierRefuses, ConnectFails, AnswerLost, RequestLost,
       RequestDelayed, NothingLearnt
  <2>3. UNCHANGED <<rows, issued, late>>
    BY <2>2 DEF PrepareSkips, FinishJob, RescheduleJob, RescheduleBreaks,
       DatabaseFails, Drop, database, suppliers
  <2>4. \A v \in Workers, k \in JobIds :
            \/ tasks'[v][k] = tasks[v][k]
            \/ tasks'[v][k] = Idle
            \/ tasks'[v][k].pc = "settle"
    <3>1. CASE RescheduleBreaks(w, j)
      BY <3>1 DEF RescheduleBreaks, Drop, TypeOK
    <3>2. CASE FinishJob(w, j) \/ RescheduleJob(w, j)
      BY <3>2, IdleType, BecomeType DEF FinishJob, RescheduleJob, TypeOK
    <3>3. CASE PrepareSkips(w, j) \/ DatabaseFails(w, j)
      <4>1. PICK r \in Outcomes : Become(w, j, Settling(t, r))
        BY <3>3, OutcomesType DEF PrepareSkips, DatabaseFails
      <4> QED
        BY <1>1, <4>1, SettlingType, BecomeType DEF TypeOK
    <3> QED
      BY <2>2, <3>1, <3>2, <3>3
  <2>5. Idle.order # o
    BY DeliveryAssumption DEF DeliveryAssumption, Idle
  <2> QED
    BY <2>3, <2>4, <2>5 DEF Untouched, Harmless
<1>3. CASE p # o
  <2>1. \A s \in Suppliers : rows'[o][s] = rows[o][s]
    <3>1. \/ UNCHANGED rows
          \/ \E s \in Suppliers, status \in DeliveryStatus, c \in Codes \cup {NoCode},
                r \in Reasons : rows' = record_outcome(p, s, status, c, r)
      BY <1>1, RowsOfTask
    <3>2. ASSUME NEW s \in Suppliers, NEW status \in DeliveryStatus,
                 NEW c \in Codes \cup {NoCode}, NEW r \in Reasons,
                 rows' = record_outcome(p, s, status, c, r)
          PROVE  \A q \in Suppliers : rows'[o][q] = rows[o][q]
      <4>1. rows'[o] = rows[o]
        BY <1>3, <3>2 DEF record_outcome, TypeOK
      <4> QED
        BY <4>1
    <3> QED
      BY <3>1, <3>2
  <2>2. \A s \in Suppliers : issued'[s][o] = issued[s][o] /\ (<<o, s>> \in late' => <<o, s>> \in late)
    <3>1. \/ UNCHANGED issued
          \/ KeyStoreIssue(t.supplier, p) /\ t.supplier \in Suppliers
      BY <1>1
      DEF TypeOK, RecordsWhole, TaskStep, PrepareSkips,
          PrepareEnds, PrepareTargets, SuccessConflicts, RecordSuccess,
          RecordSuperseded, RecordRefusal, RecordUnknown, FinishJob, RescheduleJob,
          RescheduleBreaks, Drop, ExchangeStep, SupplierIssues, SupplierRefuses,
          ConnectFails, AnswerLost, RequestLost, RequestDelayed, NothingLearnt,
          DatabaseFails, database, suppliers
    <3>2. late' = late \/ late' = late \cup {<<p, t.supplier>>}
      BY <1>1
      DEF TaskStep, PrepareSkips,
          PrepareEnds, PrepareTargets, SuccessConflicts, RecordSuccess,
          RecordSuperseded, RecordRefusal, RecordUnknown, FinishJob, RescheduleJob,
          RescheduleBreaks, ExchangeStep, SupplierIssues, SupplierRefuses,
          ConnectFails, AnswerLost, RequestLost, RequestDelayed, NothingLearnt,
          DatabaseFails, suppliers
    <3>3. \A s \in Suppliers : issued'[s][o] = issued[s][o]
      <4>1. CASE UNCHANGED issued
        BY <4>1
      <4>2. CASE ~UNCHANGED issued
        <5>1. /\ t.supplier \in Suppliers
              /\ issued' = [issued EXCEPT ![t.supplier][p] = Head(free[t.supplier])]
          BY <3>1, <4>2 DEF KeyStoreIssue
        <5> QED
          BY <1>3, <5>1 DEF TypeOK
      <4> QED
        BY <4>1, <4>2
    <3> QED
      BY <1>3, <3>2, <3>3
  <2>3. \A v \in Workers, k \in JobIds :
            \/ tasks'[v][k] = tasks[v][k]
            \/ tasks'[v][k] = Idle
            \/ tasks'[v][k].order = p
    <3>1. CASE RescheduleBreaks(w, j)
      BY <3>1 DEF RescheduleBreaks, Drop, TypeOK
    <3>2. CASE ~RescheduleBreaks(w, j)
      <4>1. \E u : Become(w, j, u) /\ (u = Idle \/ u.order = p)
        BY <1>1, <3>2, TaskBecomes
      <4> QED
        BY <4>1 DEF Become, TypeOK
    <3> QED
      BY <3>1, <3>2
  <2>4. Idle.order # o
    BY DeliveryAssumption DEF DeliveryAssumption, Idle
  <2> QED
    BY <1>3, <2>1, <2>2, <2>3, <2>4 DEF Untouched, Harmless
<1> QED
  BY <1>2, <1>3

\* The rows of an untouched order have nothing to reset.
LEMMA UnpaidReset ==
    ASSUME TypeOK, NEW o \in Orders, Untouched(o), NEW p \in Orders,
           rows' = reset_known_negatives(p)
    PROVE  \A s \in Suppliers : rows'[o][s].status = "absent"
<1>1. \A q \in Suppliers : rows'[o][q] = rows[o][q] \/ rows[o][q].status = "known_negative"
  BY ResetType DEF TypeOK
<1> QED
  BY <1>1 DEF Untouched

LEMMA UnpaidStep ==
    ASSUME TypeOK, MoneyInv, NothingLeavesUnpaid, [Next]_vars
    PROVE  NothingLeavesUnpaid'
<1> SUFFICES ASSUME NEW o \in Orders, Unpaid(o)'
             PROVE  Untouched(o)' /\ Harmless(o)'
  BY DEF NothingLeavesUnpaid, Unpaid, Untouched, Harmless
<1>1. /\ orderStatus[o] \notin DELIVERABLE_STATUSES
      /\ Untouched(o)
      /\ Harmless(o)
  BY UnpaidBefore DEF NothingLeavesUnpaid, Unpaid, Untouched, Harmless
<1>2. Idle.order # o /\ \A p \in Orders, n \in Nat : Claimed(p, n).pc = "prepare"
  BY DeliveryAssumption, ClaimedType DEF DeliveryAssumption, Idle
<1>3. CASE UNCHANGED vars
  BY <1>1, <1>3 DEF vars, Untouched, Harmless
<1>4. ASSUME NEW w \in Workers, NEW j \in JobIds,
             TaskStep(w, j) \/ ExchangeStep(w, j) \/ DatabaseFails(w, j)
      PROVE  Untouched(o)' /\ Harmless(o)'
  BY <1>1, <1>4, UnpaidTaskStep
<1>5. ASSUME NEW w \in Workers, Claim(w)
      PROVE  Untouched(o)' /\ Harmless(o)'
  <2>1. UNCHANGED <<rows, issued, late>>
    BY <1>5 DEF Claim, suppliers
  <2>2. \A v \in Workers, k \in JobIds :
            \/ tasks'[v][k] = tasks[v][k]
            \/ tasks'[v][k] = Idle
            \/ tasks'[v][k].pc = "prepare"
    <3>1. PICK batch \in SUBSET ReadyJobs :
              tasks' = [tasks EXCEPT ![w] = [k \in JobIds |->
                          IF k \in batch
                          THEN Claimed(jobs[k].order, jobs[k].attempts + 1)
                          ELSE Idle]]
      BY <1>5 DEF Claim
    <3>2. \A p, n : Claimed(p, n).pc = "prepare"
      BY DEF Claimed, Idle
    <3> QED
      BY <3>1, <3>2 DEF TypeOK
  <2> QED
    BY <1>1, <1>2, <2>1, <2>2 DEF Untouched, Harmless
<1>6. ASSUME NEW w \in Workers, SweepStep(w) \/ SweepFails(w)
      PROVE  Untouched(o)' /\ Harmless(o)'
  <2>1. UNCHANGED <<tasks, issued, late>>
    BY <1>6 DEF SweepStep, SweepRequeue, SweepCollect, SweepReset, SweepEnqueue,
       SweepFails, suppliers
  <2>2. UNCHANGED rows \/ \E p \in Orders : rows' = reset_known_negatives(p)
    BY <1>6 DEF SweepStep, SweepRequeue, SweepCollect, SweepReset, SweepEnqueue,
       SweepFails, database, TypeOK, Sweep
  <2> QED
    BY <1>1, <2>1, <2>2, UnpaidReset DEF Untouched, Harmless
<1>7. ASSUME NEW w \in Workers, Crash(w)
      PROVE  Untouched(o)' /\ Harmless(o)'
  <2>1. UNCHANGED <<rows, issued>>
    BY <1>7 DEF Crash, Drop
  <2>2. \A v \in Workers, k \in JobIds :
            tasks'[v][k] = tasks[v][k] \/ tasks'[v][k] = Idle
    BY <1>7 DEF Crash, Drop, TypeOK
  <2>3. \/ UNCHANGED late
        \/ \E k \in JobIds : /\ tasks[w][k].pc = "call"
                             /\ late' = late \cup {<<tasks[w][k].order, tasks[w][k].supplier>>}
    BY <1>7 DEF Crash
  <2>4. \A s \in Suppliers : <<o, s>> \in late' => <<o, s>> \in late
    BY <1>1, <2>3 DEF Harmless
  <2> QED
    BY <1>1, <1>2, <2>1, <2>2, <2>4 DEF Untouched, Harmless
<1>8. ASSUME NEW p \in Orders,
             Pay(p) \/ FailPayment(p) \/ RetryResets(p) \/ RetryEnqueues(p)
      PROVE  Untouched(o)' /\ Harmless(o)'
  <2>1. UNCHANGED <<tasks, issued, late>>
    BY <1>8 DEF Pay, FailPayment, RetryResets, RetryEnqueues, suppliers
  <2>2. UNCHANGED rows \/ rows' = reset_known_negatives(p)
    BY <1>8 DEF Pay, FailPayment, RetryResets, RetryEnqueues
  <2> QED
    BY <1>1, <2>1, <2>2, UnpaidReset DEF Untouched, Harmless
<1>9. ASSUME NEW s \in Suppliers, Restock(s)
      PROVE  Untouched(o)' /\ Harmless(o)'
  BY <1>1, <1>9 DEF Restock, database, Untouched, Harmless
<1>10. CASE LateRequestServed
  <2>1. PICK request \in late :
            /\ late' = late \ {request}
            /\ UNCHANGED issued \/ KeyStoreIssue(request[2], request[1])
    BY <1>10 DEF LateRequestServed
  <2>2. request[1] \in Orders /\ request[2] \in Suppliers
        /\ request = <<request[1], request[2]>>
    BY DEF TypeOK
  <2>3. request[1] # o
    BY <1>1, <2>2 DEF Untouched
  <2>4. \A s \in Suppliers : issued'[s][o] = issued[s][o]
    <3>1. CASE UNCHANGED issued
      BY <3>1
    <3>2. CASE ~UNCHANGED issued
      <4>1. issued' = [issued EXCEPT ![request[2]][request[1]] = Head(free[request[2]])]
        BY <2>1, <3>2 DEF KeyStoreIssue
      <4> QED
        BY <2>2, <2>3, <4>1 DEF TypeOK
    <3> QED
      BY <3>1, <3>2
  <2>5. UNCHANGED <<rows, tasks>>
    BY <1>10 DEF LateRequestServed, database
  <2> QED
    BY <1>1, <2>1, <2>4, <2>5 DEF Untouched, Harmless
<1> QED
  BY <1>3, <1>4, <1>5, <1>6, <1>7, <1>8, <1>9, <1>10 DEF Next

\* No row, no code and no request exist for an order that is not paid for: a job
\* the administrator queues for it ends in the first transaction.
THEOREM UnpaidStaysUntouched == Spec => []NothingLeavesUnpaid
<1>1. Init => NothingLeavesUnpaid
  <2>1. Idle.order \notin Orders
    BY DeliveryAssumption DEF DeliveryAssumption, Idle
  <2> QED
    BY <2>1 DEF Init, NothingLeavesUnpaid, NoRow
<1> QED
  BY <1>1, UnpaidStep, TypeCorrect, MoneyInvariant, PTL DEF Spec
===============================================================================
