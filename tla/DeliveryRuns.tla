----------------------------- MODULE DeliveryRuns -----------------------------
(***************************************************************************)
(* Safety of Delivery that depends on who works on an order: what the      *)
(* unique indexes keep whatever happens, and what holds as long as no job  *)
(* of a live worker is requeued (NoStall).                                 *)
(***************************************************************************)
EXTENDS DeliverySafety

-----------------------------------------------------------------------------
(* Codes, whatever happens *)

\* The code a task carries is the one its supplier has bound to the request.
CarriesIssued(w, j) ==
    LET t == tasks[w][j]
    IN  (t.pc = "record" /\ t.result = "ok") \/ t.pc = "supersede" =>
            /\ t.code # NoCode
            /\ t.code = issued[t.supplier][t.order]

SuccessIsIssued ==
    \A o \in Orders, s \in Suppliers :
        rows[o][s].status = "succeeded" => /\ rows[o][s].code # NoCode
                                           /\ rows[o][s].code = issued[s][o]

OneSuccess ==
    \A o \in Orders : \A s, r \in Succeeded(o) : s = r

CodesInv == /\ \A w \in Workers, j \in JobIds : CarriesIssued(w, j)
            /\ SuccessIsIssued
            /\ OneSuccess
            /\ CodeGivenOnce

-----------------------------------------------------------------------------
(* One run per order, without stalls *)

\* No worker lives long enough with a job to have it requeued under its hands.
NoStall == Budget["stall"] = 0

UniqueActive ==
    \A j, k \in JobIds : /\ jobs[j].state \in ActiveStates
                         /\ jobs[k].state \in ActiveStates
                         /\ jobs[j].order = jobs[k].order
                         => j = k

HeldRuns == \A w \in Workers, j \in JobIds :
                tasks[w][j].pc # "idle" => jobs[j].state = "running"

HeldByOne == \A w, v \in Workers : \A j \in JobIds :
                 tasks[w][j].pc # "idle" /\ tasks[v][j].pc # "idle" => w = v

QueueInv == /\ budget["stall"] = 0
            /\ UniqueActive
            /\ HeldRuns
            /\ HeldByOne

\* A task that is asking or has an answer has its order to itself: the order is
\* being delivered and the supplier's row is open.
CallIsCurrent ==
    \A w \in Workers, j \in JobIds :
        LET t == tasks[w][j]
        IN  t.pc \in {"call", "record", "supersede"} =>
                /\ orderStatus[t.order] = "delivering"
                /\ rows[t.order][t.supplier].status \in {"pending", "unknown"}

DeliveredHasCode == \A o \in Orders : orderStatus[o] = "delivered" => Succeeded(o) # {}

RunInv == QueueInv /\ CallIsCurrent /\ DeliveredHasCode

-----------------------------------------------------------------------------
(* What a refusal proves, when connections are established and no request is *)
(* served late                                                               *)

NoLateIssue == Budget["connect_failed"] = 0 /\ Budget["delayed"] = 0

RefusalInv ==
    /\ budget["connect_failed"] = 0 /\ budget["delayed"] = 0
    /\ late = {}
    /\ \A w \in Workers, j \in JobIds :
          tasks[w][j].pc = "record" /\ tasks[w][j].result = "refused" =>
              issued[tasks[w][j].supplier][tasks[w][j].order] = NoCode
    /\ KnownNegativeIsProof

-----------------------------------------------------------------------------
(* Disturbances that are not in the budget do not happen *)

LEMMA EveryBudget ==
    ASSUME [Next]_vars
    PROVE  UNCHANGED budget \/ \E kinds : Spend(kinds)
<1>1. CASE UNCHANGED vars
  BY <1>1 DEF vars
<1>2. ASSUME NEW w \in Workers, NEW j \in JobIds, TaskStep(w, j)
      PROVE  UNCHANGED budget
  BY <1>2 DEF TaskStep, PrepareSkips, PrepareEnds, PrepareTargets, SuccessConflicts,
     RecordSuccess, RecordSuperseded, RecordRefusal, RecordUnknown, FinishJob,
     RescheduleJob, RescheduleBreaks
<1>3. ASSUME NEW w \in Workers, NEW j \in JobIds, ExchangeStep(w, j) \/ DatabaseFails(w, j)
      PROVE  UNCHANGED budget \/ \E kinds : Spend(kinds)
  BY <1>3 DEF ExchangeStep, SupplierIssues, SupplierRefuses, ConnectFails, AnswerLost,
     RequestLost, RequestDelayed, DatabaseFails
<1>4. ASSUME NEW w \in Workers, Claim(w) \/ SweepStep(w) \/ SweepFails(w) \/ Crash(w)
      PROVE  UNCHANGED budget \/ \E kinds : Spend(kinds)
  <2>1. CASE SweepRequeue(w)
    BY <2>1 DEF SweepRequeue
  <2>2. CASE Crash(w)
    BY <2>2 DEF Crash
  <2> QED
    BY <1>4, <2>1, <2>2 DEF Claim, SweepStep, SweepCollect, SweepReset, SweepEnqueue,
       SweepFails
<1>5. ASSUME NEW o \in Orders,
             Pay(o) \/ FailPayment(o) \/ RetryResets(o) \/ RetryEnqueues(o)
      PROVE  UNCHANGED budget \/ \E kinds : Spend(kinds)
  BY <1>5 DEF Pay, FailPayment, RetryResets, RetryEnqueues
<1>6. CASE LateRequestServed \/ \E s \in Suppliers : Restock(s)
  BY <1>6 DEF LateRequestServed, Restock
<1> QED
  BY <1>1, <1>2, <1>3, <1>4, <1>5, <1>6 DEF Next

LEMMA SpentStaysSpent ==
    ASSUME NEW d \in Disturbance, budget[d] = 0, [Next]_vars
    PROVE  budget'[d] = 0
<1>1. ASSUME NEW kinds, Spend(kinds) PROVE budget'[d] = 0
  BY <1>1 DEF Spend
<1> QED
  BY <1>1, EveryBudget

\* What is spent was there to spend.
LEMMA CannotSpend ==
    ASSUME NEW kinds, NEW d \in kinds, budget[d] = 0
    PROVE  ~Spend(kinds)
BY DEF Spend

-----------------------------------------------------------------------------
(* The queue *)

\* A step keeps the queue in order if a task that runs ran before or claims a
\* queued job, and a job that becomes active is the only one of its order.
LEMMA QueueKept ==
    ASSUME TypeOK, QueueInv, budget'["stall"] = 0,
           \A w \in Workers, j \in JobIds :
               tasks'[w][j].pc # "idle" =>
                   /\ jobs'[j].state = "running"
                   /\ \/ tasks[w][j].pc # "idle"
                      \/ /\ jobs[j].state = "queued"
                         /\ \A v \in Workers \ {w} : tasks'[v][j] = tasks[v][j],
           \A j \in JobIds :
               jobs'[j].state \in ActiveStates =>
                   \/ /\ jobs[j].state \in ActiveStates
                      /\ jobs'[j].order = jobs[j].order
                   \/ \A k \in JobIds \ {j} :
                         /\ jobs'[k] = jobs[k]
                         /\ jobs[k].state \in ActiveStates => jobs[k].order # jobs'[j].order
    PROVE  QueueInv'
<1>1. UniqueActive'
  <2> SUFFICES ASSUME NEW j \in JobIds, NEW k \in JobIds, j # k,
                      jobs'[j].state \in ActiveStates, jobs'[k].state \in ActiveStates,
                      jobs'[j].order = jobs'[k].order
               PROVE  FALSE
    BY DEF UniqueActive
  <2>1. CASE /\ jobs[j].state \in ActiveStates /\ jobs'[j].order = jobs[j].order
             /\ jobs[k].state \in ActiveStates /\ jobs'[k].order = jobs[k].order
    BY <2>1 DEF QueueInv, UniqueActive
  <2>2. CASE ~(jobs[j].state \in ActiveStates /\ jobs'[j].order = jobs[j].order)
    BY <2>2
  <2>3. CASE ~(jobs[k].state \in ActiveStates /\ jobs'[k].order = jobs[k].order)
    BY <2>3
  <2> QED
    BY <2>1, <2>2, <2>3
<1>2. HeldRuns'
  BY DEF HeldRuns
<1>3. HeldByOne'
  BY DEF QueueInv, HeldRuns, HeldByOne
<1> QED
  BY <1>1, <1>2, <1>3 DEF QueueInv

\* Tasks stop or go on with a job that stays as it was.
LEMMA QueueOfTasks ==
    ASSUME TypeOK, QueueInv, budget'["stall"] = 0,
           \A w \in Workers, j \in JobIds :
               tasks'[w][j].pc # "idle" => tasks[w][j].pc # "idle" /\ jobs'[j] = jobs[j],
           \A j \in JobIds : \/ jobs'[j].state \notin ActiveStates
                             \/ jobs'[j] = jobs[j]
    PROVE  QueueInv'
<1>1. \A w \in Workers, j \in JobIds :
          tasks'[w][j].pc # "idle" => /\ jobs'[j].state = "running"
                                      /\ tasks[w][j].pc # "idle"
  BY DEF QueueInv, HeldRuns
<1> QED
  BY <1>1, QueueKept

LEMMA NotActive == NoJob.state \notin ActiveStates
BY DEF NoJob, ActiveStates

\* A job of an order is queued once.
LEMMA QueueOfEnqueue ==
    ASSUME TypeOK, QueueInv, budget'["stall"] = 0, NEW o \in Orders, jobs' \in enqueue(o),
           UNCHANGED tasks
    PROVE  QueueInv'
<1>1. CASE jobs' = jobs
  BY <1>1, QueueOfTasks
<1>2. CASE jobs' # jobs
  <2>1. PICK i \in JobIds :
            /\ jobs[i] = NoJob
            /\ jobs' = [jobs EXCEPT ![i] = [order |-> o, state |-> "queued", attempts |-> 0]]
    BY <1>2 DEF enqueue
  <2>2. ActiveJobs(o) = {}
    BY <1>2 DEF enqueue
  <2>3. /\ jobs'[i].order = o
        /\ \A k \in JobIds \ {i} : jobs'[k] = jobs[k]
    BY <2>1 DEF TypeOK
  <2>4. \A k \in JobIds : jobs[k].state \in ActiveStates => jobs[k].order # o
    BY <2>2 DEF ActiveJobs
  <2>5. \A w \in Workers, j \in JobIds :
            tasks'[w][j].pc # "idle" => /\ jobs'[j].state = "running"
                                        /\ tasks[w][j].pc # "idle"
    <3>1. jobs[i].state # "running"
      BY <2>1 DEF NoJob
    <3> QED
      BY <2>3, <3>1 DEF QueueInv, HeldRuns
  <2>6. \A j \in JobIds :
            jobs'[j].state \in ActiveStates =>
                \/ /\ jobs[j].state \in ActiveStates
                   /\ jobs'[j].order = jobs[j].order
                \/ \A k \in JobIds \ {j} :
                      /\ jobs'[k] = jobs[k]
                      /\ jobs[k].state \in ActiveStates => jobs[k].order # jobs'[j].order
    BY <2>3, <2>4
  <2> QED
    BY <2>5, <2>6, QueueKept
<1> QED
  BY <1>1, <1>2

\* A dead worker's tasks are gone; its jobs stay in state running.
LEMMA QueueOfDrop ==
    ASSUME TypeOK, QueueInv, budget'["stall"] = 0, NEW w \in Workers, Drop(w)
    PROVE  QueueInv'
<1>1. /\ \A j \in JobIds : tasks'[w][j] = Idle
      /\ \A v \in Workers \ {w} : tasks'[v] = tasks[v]
  BY DEF Drop, TypeOK
<1>2. /\ \A k \in JobIds : jobs'[k] \in {jobs[k], NoJob}
      /\ \A k \in JobIds : Held(tasks', k) => jobs'[k] = jobs[k]
  BY RetainType DEF Drop, TypeOK
<1>3. \A v \in Workers, j \in JobIds :
          tasks'[v][j].pc # "idle" => tasks[v][j].pc # "idle" /\ jobs'[j] = jobs[j]
  BY <1>1, <1>2 DEF Idle, Held
<1> QED
  BY <1>2, <1>3, NotActive, QueueOfTasks

\* A task that takes a step is not idle.
LEMMA StepOfTask ==
    ASSUME NEW w \in Workers, NEW j \in JobIds,
           TaskStep(w, j) \/ ExchangeStep(w, j) \/ DatabaseFails(w, j)
    PROVE  tasks[w][j].pc # "idle"
BY DEF TaskStep, PrepareSkips, PrepareEnds, PrepareTargets, SuccessConflicts,
   RecordSuccess, RecordSuperseded, RecordRefusal, RecordUnknown, FinishJob,
   RescheduleJob, RescheduleBreaks, ExchangeStep, SupplierIssues, SupplierRefuses,
   ConnectFails, AnswerLost, RequestLost, RequestDelayed, NothingLearnt, DatabaseFails

LEMMA QueueOfTaskStep ==
    ASSUME TypeOK, QueueInv, budget'["stall"] = 0, NEW w \in Workers, NEW j \in JobIds,
           TaskStep(w, j) \/ ExchangeStep(w, j) \/ DatabaseFails(w, j)
    PROVE  QueueInv'
<1> DEFINE t == tasks[w][j]
<1>1. t.pc # "idle"
  BY StepOfTask
<1>2. CASE RescheduleBreaks(w, j)
  BY <1>2, QueueOfDrop DEF RescheduleBreaks
<1>3. ASSUME NEW u, Become(w, j, u)
      PROVE  /\ \A v \in Workers, k \in JobIds :
                   v # w \/ k # j => tasks'[v][k] = tasks[v][k]
             /\ tasks'[w][j] = u
  BY <1>3 DEF Become, TypeOK
<1>4. CASE FinishJob(w, j)
  <2>1. Become(w, j, Idle) /\ jobs' = Retain([jobs EXCEPT ![j].state = FinalState(t)], tasks')
    BY <1>4 DEF FinishJob
  <2>2. \A k \in JobIds \ {j} : jobs'[k] \in {jobs[k], NoJob}
    BY <2>1 DEF Retain, TypeOK
  <2>3. jobs'[j].state \notin ActiveStates
    <3>1. [jobs EXCEPT ![j].state = FinalState(t)][j].state \notin ActiveStates
      BY DEF TypeOK, Job, FinalState, ActiveStates
    <3> QED
      BY <2>1, <3>1, NotActive DEF Retain
  <2>4. \A v \in Workers, k \in JobIds :
            tasks'[v][k].pc # "idle" => /\ tasks[v][k].pc # "idle"
                                        /\ k # j
    BY <1>1, <1>3, <2>1 DEF QueueInv, HeldByOne, Idle
  <2>5. \A k \in JobIds \ {j} : Held(tasks', k) => jobs'[k] = jobs[k]
    BY <2>1 DEF Retain, TypeOK
  <2>6. \A v \in Workers, k \in JobIds :
            tasks'[v][k].pc # "idle" => tasks[v][k].pc # "idle" /\ jobs'[k] = jobs[k]
    BY <2>4, <2>5 DEF Held
  <2>7. \A k \in JobIds : jobs'[k].state \notin ActiveStates \/ jobs'[k] = jobs[k]
    BY <2>2, <2>3, NotActive
  <2> QED
    BY <2>6, <2>7, QueueOfTasks
<1>5. CASE RescheduleJob(w, j)
  <2>1. Become(w, j, Idle) /\ jobs' = [jobs EXCEPT ![j].state = "queued"]
    BY <1>5 DEF RescheduleJob
  <2>2. /\ \A k \in JobIds \ {j} : jobs'[k] = jobs[k]
        /\ jobs'[j].order = jobs[j].order
    BY <2>1 DEF TypeOK, Job
  <2>3. jobs[j].state = "running"
    BY <1>1 DEF QueueInv, HeldRuns
  <2>4. \A v \in Workers, k \in JobIds :
            tasks'[v][k].pc # "idle" => /\ tasks[v][k].pc # "idle"
                                        /\ k # j
    BY <1>1, <1>3, <2>1 DEF QueueInv, HeldByOne, Idle
  <2>5. \A v \in Workers, k \in JobIds :
            tasks'[v][k].pc # "idle" => /\ jobs'[k].state = "running"
                                        /\ tasks[v][k].pc # "idle"
    BY <2>2, <2>4 DEF QueueInv, HeldRuns
  <2>6. \A k \in JobIds :
            jobs'[k].state \in ActiveStates => /\ jobs[k].state \in ActiveStates
                                               /\ jobs'[k].order = jobs[k].order
    BY <2>2, <2>3 DEF ActiveStates
  <2> QED
    BY <2>5, <2>6, QueueKept
<1>6. CASE ~(RescheduleBreaks(w, j) \/ FinishJob(w, j) \/ RescheduleJob(w, j))
  <2>1. \E u : Become(w, j, u)
    BY <1>6, TaskBecomes
  <2>2. UNCHANGED jobs
    BY <1>6 DEF TaskStep, PrepareSkips, PrepareEnds, PrepareTargets, SuccessConflicts,
       RecordSuccess, RecordSuperseded, RecordRefusal, RecordUnknown, ExchangeStep,
       SupplierIssues, SupplierRefuses, ConnectFails, AnswerLost, RequestLost,
       RequestDelayed, NothingLearnt, DatabaseFails, database
  <2>3. \A v \in Workers, k \in JobIds :
            tasks'[v][k].pc # "idle" => tasks[v][k].pc # "idle"
    BY <1>1, <1>3, <2>1
  <2> QED
    BY <2>2, <2>3, QueueOfTasks
<1> QED
  BY <1>2, <1>4, <1>5, <1>6

LEMMA QueueOfClaim ==
    ASSUME TypeOK, QueueInv, budget'["stall"] = 0, NEW w \in Workers, Claim(w)
    PROVE  QueueInv'
<1>1. PICK batch \in SUBSET ReadyJobs :
          /\ jobs' = [j \in JobIds |-> IF j \in batch THEN Running(jobs[j]) ELSE jobs[j]]
          /\ tasks' = [tasks EXCEPT ![w] = [j \in JobIds |->
                          IF j \in batch
                          THEN Claimed(jobs[j].order, jobs[j].attempts + 1)
                          ELSE Idle]]
  BY DEF Claim
<1>2. \A j \in JobIds : /\ jobs'[j].order = jobs[j].order
                        /\ j \in batch => /\ jobs'[j].state = "running"
                                          /\ jobs[j].state = "queued"
                        /\ j \notin batch => jobs'[j] = jobs[j]
  BY <1>1 DEF Running, ReadyJobs
<1>3. /\ \A v \in Workers \ {w} : tasks'[v] = tasks[v]
      /\ \A j \in JobIds \ batch : tasks'[w][j] = Idle
  BY <1>1 DEF TypeOK
<1>4. \A v \in Workers, j \in JobIds :
          tasks[v][j].pc # "idle" => jobs[j].state = "running" /\ j \notin batch
  BY <1>2 DEF QueueInv, HeldRuns
<1>5. \A v \in Workers, j \in JobIds :
          tasks'[v][j].pc # "idle" =>
              /\ jobs'[j].state = "running"
              /\ \/ tasks[v][j].pc # "idle"
                 \/ /\ jobs[j].state = "queued"
                    /\ \A u \in Workers \ {v} : tasks'[u][j] = tasks[u][j]
  BY <1>2, <1>3, <1>4 DEF Idle
<1>6. \A j \in JobIds :
          jobs'[j].state \in ActiveStates => /\ jobs[j].state \in ActiveStates
                                             /\ jobs'[j].order = jobs[j].order
  BY <1>2 DEF ActiveStates
<1> QED
  BY <1>5, <1>6, QueueKept

\* Only jobs that nobody holds are requeued.
LEMMA QueueOfRequeue ==
    ASSUME TypeOK, QueueInv, budget'["stall"] = 0, NEW w \in Workers, SweepRequeue(w)
    PROVE  QueueInv'
<1>1. PICK stale \in SUBSET {j \in JobIds : jobs[j].state = "running"} :
          /\ IF \E j \in stale : Held(tasks, j) THEN Spend({"stall"})
                                                ELSE UNCHANGED budget
          /\ jobs' = [j \in JobIds |-> IF j \in stale
                                       THEN [jobs[j] EXCEPT !.state = "queued"]
                                       ELSE jobs[j]]
  BY DEF SweepRequeue
<1>2. \A j \in stale : ~Held(tasks, j)
  BY <1>1, CannotSpend DEF QueueInv
<1>3. UNCHANGED tasks
  BY DEF SweepRequeue
<1>4. \A j \in JobIds : /\ jobs'[j].order = jobs[j].order
                        /\ j \in stale => jobs[j].state = "running"
                        /\ j \notin stale => jobs'[j] = jobs[j]
  BY <1>1 DEF TypeOK, Job
<1>5. \A v \in Workers, j \in JobIds :
          tasks'[v][j].pc # "idle" => /\ jobs'[j].state = "running"
                                      /\ tasks[v][j].pc # "idle"
  BY <1>2, <1>3, <1>4 DEF Held, QueueInv, HeldRuns
<1>6. \A j \in JobIds :
          jobs'[j].state \in ActiveStates => /\ jobs[j].state \in ActiveStates
                                             /\ jobs'[j].order = jobs[j].order
  BY <1>4 DEF ActiveStates
<1> QED
  BY <1>5, <1>6, QueueKept

LEMMA QueueStep ==
    ASSUME TypeOK, QueueInv, [Next]_vars
    PROVE  QueueInv'
<1>1. budget'["stall"] = 0
  BY SpentStaysSpent DEF QueueInv, Disturbance
<1>2. ASSUME UNCHANGED <<jobs, tasks>> PROVE QueueInv'
  BY <1>1, <1>2, QueueOfTasks
<1>3. CASE UNCHANGED vars
  BY <1>2, <1>3 DEF vars
<1>4. ASSUME NEW w \in Workers, NEW j \in JobIds,
             TaskStep(w, j) \/ ExchangeStep(w, j) \/ DatabaseFails(w, j)
      PROVE  QueueInv'
  BY <1>1, <1>4, QueueOfTaskStep
<1>5. ASSUME NEW w \in Workers, Claim(w) \/ SweepStep(w) \/ SweepFails(w) \/ Crash(w)
      PROVE  QueueInv'
  <2>1. CASE SweepEnqueue(w)
    <3>1. jobs' \in enqueue(sweeps[w].current) /\ UNCHANGED tasks
      BY <2>1 DEF SweepEnqueue
    <3>2. sweeps[w].current \in Orders
      BY <2>1 DEF SweepEnqueue, TypeOK, RecordsWhole
    <3> QED
      BY <1>1, <3>1, <3>2, QueueOfEnqueue
  <2>2. CASE Crash(w)
    BY <1>1, <2>2, QueueOfDrop DEF Crash
  <2>3. CASE SweepCollect(w) \/ SweepReset(w) \/ SweepFails(w)
    BY <1>2, <2>3 DEF SweepCollect, SweepReset, SweepFails, database
  <2> QED
    BY <1>1, <1>5, <2>1, <2>2, <2>3, QueueOfClaim, QueueOfRequeue DEF SweepStep
<1>6. ASSUME NEW o \in Orders,
             Pay(o) \/ FailPayment(o) \/ RetryResets(o) \/ RetryEnqueues(o)
      PROVE  QueueInv'
  BY <1>1, <1>2, <1>6, QueueOfEnqueue DEF Pay, FailPayment, RetryResets, RetryEnqueues
<1>7. CASE LateRequestServed \/ \E s \in Suppliers : Restock(s)
  BY <1>2, <1>7 DEF LateRequestServed, Restock, database
<1> QED
  BY <1>3, <1>4, <1>5, <1>6, <1>7 DEF Next

LEMMA QueueInit == Init /\ NoStall => QueueInv
BY DEF Init, NoStall, QueueInv, UniqueActive, HeldRuns, HeldByOne, NoJob, Idle, ActiveStates

LEMMA QueueInvariant == NoStall => (Spec => []QueueInv)
<1>1. TypeOK /\ QueueInv /\ [Next]_vars => QueueInv'
  BY QueueStep
<1>2. ASSUME NoStall PROVE Spec => []QueueInv
  <2>1. Init => QueueInv
    BY <1>2, QueueInit
  <2> QED
    BY <1>1, <2>1, TypeCorrect, PTL DEF Spec
<1> QED
  BY <1>2

LEMMA OneRun == TypeOK /\ QueueInv => OneRunPerOrder
<1> SUFFICES ASSUME TypeOK, QueueInv,
                    NEW w \in Workers, NEW v \in Workers, NEW j \in JobIds, NEW k \in JobIds,
                    tasks[w][j].pc # "idle", tasks[v][k].pc # "idle",
                    tasks[w][j].order = tasks[v][k].order
             PROVE  w = v /\ j = k
  BY DEF OneRunPerOrder
<1>1. jobs[j].order = jobs[k].order
  BY DEF TypeOK, RecordsWhole
<1>2. jobs[j].state \in ActiveStates /\ jobs[k].state \in ActiveStates
  BY DEF QueueInv, HeldRuns, ActiveStates
<1>3. j = k
  BY <1>1, <1>2 DEF QueueInv, UniqueActive
<1> QED
  BY <1>3 DEF QueueInv, HeldByOne

\* As long as no job of a live worker is requeued, an order is in one hand: the
\* unique index on active jobs, the claim under SKIP LOCKED and the settling of
\* the job in Worker._process suffice for it, through crashes, failed
\* transactions, lost answers and the administrator's retries.
THEOREM OneRunAtATime == NoStall => (Spec => []OneRunPerOrder)
BY QueueInvariant, TypeCorrect, OneRun, PTL

-----------------------------------------------------------------------------
(* What a step can write *)

\* A task writes the row of the supplier it asked, and a success only with the
\* code it carries, checked against the unique indexes.
AnswerRecorded(w, j, o, s) ==
    /\ tasks[w][j].pc \in {"record", "supersede"}
    /\ tasks[w][j].order = o
    /\ tasks[w][j].supplier = s
    /\ tasks'[w][j].pc = "settle"
    /\ \A p \in Orders, r \in Suppliers : p # o \/ r # s => rows'[p][r] = rows[p][r]
    /\ rows'[o][s].code \in {tasks[w][j].code, NoCode}
    /\ rows'[o][s].status = "succeeded" =>
          /\ tasks[w][j].pc = "record"
          /\ tasks[w][j].result = "ok"
          /\ ~BreaksUniqueIndex(o, s, tasks[w][j].code)
          /\ rows'[o][s].code = tasks[w][j].code
          /\ orderStatus'[o] = "delivered"
    /\ rows'[o][s].status = "known_negative" =>
          /\ tasks[w][j].pc = "record"
          /\ tasks[w][j].result = "refused"

\* Whoever else writes a row opens it.
RowStep(o, s) ==
    \/ rows'[o][s] = rows[o][s]
    \/ /\ rows[o][s].status \in {"absent", "known_negative"}
       /\ rows'[o][s].status = "pending"
       /\ rows'[o][s].code \in {rows[o][s].code, NoCode}
    \/ \E w \in Workers, j \in JobIds : AnswerRecorded(w, j, o, s)

\* record_outcome writes its row and no other.
LEMMA OutcomeWritten ==
    ASSUME TypeOK, NEW o \in Orders, NEW s \in Suppliers, NEW status, NEW c, NEW r,
           rows' = record_outcome(o, s, status, c, r)
    PROVE  /\ rows'[o][s].status = status
           /\ rows'[o][s].code = c
           /\ \A p \in Orders, q \in Suppliers :
                 p # o \/ q # s => rows'[p][q] = rows[p][q]
BY DEF record_outcome, TypeOK

LEMMA RowOfRecord ==
    ASSUME TypeOK, NEW w \in Workers, NEW j \in JobIds,
           RecordSuccess(w, j) \/ RecordSuperseded(w, j)
               \/ RecordRefusal(w, j) \/ RecordUnknown(w, j)
    PROVE  \A o \in Orders, s \in Suppliers : RowStep(o, s)
<1> DEFINE t == tasks[w][j]
<1>1. t.pc \in {"record", "supersede"}
  BY DEF RecordSuccess, RecordSuperseded, RecordRefusal, RecordUnknown
<1>2. t \in Task /\ t.order \in Orders /\ t.supplier \in Suppliers
  BY <1>1 DEF TypeOK, RecordsWhole
<1>3. tasks'[w][j].pc = "settle"
  <2>1. PICK r \in Outcomes : Become(w, j, Settling(t, r))
    BY OutcomesType, ExhaustedType
    DEF RecordSuccess, RecordSuperseded, RecordRefusal, RecordUnknown
  <2> QED
    BY <1>2, <2>1, SettlingType, BecomeType DEF TypeOK
<1>4. ASSUME AnswerRecorded(w, j, t.order, t.supplier)
      PROVE  \A o \in Orders, s \in Suppliers : RowStep(o, s)
  BY <1>4 DEF AnswerRecorded, RowStep
<1>5. CASE RecordSuccess(w, j)
  <2>1. CASE UNCHANGED rows
    BY <2>1 DEF RowStep
  <2>2. CASE ~UNCHANGED rows
    <3>1. /\ rows' = record_outcome(t.order, t.supplier, "succeeded", t.code, "none")
          /\ orderStatus' = [orderStatus EXCEPT ![t.order] = "delivered"]
          /\ t.pc = "record" /\ t.result = "ok"
          /\ ~BreaksUniqueIndex(t.order, t.supplier, t.code)
      BY <1>5, <2>2 DEF RecordSuccess
    <3>2. orderStatus'[t.order] = "delivered"
      BY <1>2, <3>1 DEF TypeOK
    <3>3. /\ rows'[t.order][t.supplier].status = "succeeded"
          /\ rows'[t.order][t.supplier].code = t.code
          /\ \A p \in Orders, q \in Suppliers :
                p # t.order \/ q # t.supplier => rows'[p][q] = rows[p][q]
      BY <1>2, <3>1, OutcomeWritten
    <3>4. AnswerRecorded(w, j, t.order, t.supplier)
      BY <1>1, <1>3, <3>1, <3>2, <3>3 DEF AnswerRecorded
    <3> QED
      BY <1>4, <3>4
  <2> QED
    BY <2>1, <2>2
<1>6. CASE RecordSuperseded(w, j) \/ RecordUnknown(w, j)
  <2>1. PICK status \in {"superseded", "unknown"}, c \in {t.code, NoCode}, r \in Reasons :
            rows' = record_outcome(t.order, t.supplier, status, c, r)
    BY <1>2, <1>6 DEF Reasons, Task, RecordSuperseded, RecordUnknown
  <2>2. /\ rows'[t.order][t.supplier].status = status
        /\ rows'[t.order][t.supplier].code = c
        /\ \A p \in Orders, q \in Suppliers :
              p # t.order \/ q # t.supplier => rows'[p][q] = rows[p][q]
    BY <1>2, <2>1, OutcomeWritten
  <2>3. AnswerRecorded(w, j, t.order, t.supplier)
    BY <1>1, <1>3, <2>2 DEF AnswerRecorded
  <2> QED
    BY <1>4, <2>3
<1>7. CASE RecordRefusal(w, j)
  <2>1. PICK r : /\ rows' = record_outcome(t.order, t.supplier, "known_negative", NoCode, r)
                 /\ t.pc = "record" /\ t.result = "refused"
    BY <1>7 DEF RecordRefusal
  <2>2. /\ rows'[t.order][t.supplier].status = "known_negative"
        /\ rows'[t.order][t.supplier].code = NoCode
        /\ \A p \in Orders, q \in Suppliers :
              p # t.order \/ q # t.supplier => rows'[p][q] = rows[p][q]
    BY <1>2, <2>1, OutcomeWritten
  <2>3. AnswerRecorded(w, j, t.order, t.supplier)
    BY <1>1, <1>3, <2>1, <2>2 DEF AnswerRecorded
  <2> QED
    BY <1>4, <2>3
<1> QED
  BY <1>5, <1>6, <1>7

LEMMA EveryRow ==
    ASSUME TypeOK, [Next]_vars
    PROVE  \A o \in Orders, s \in Suppliers : RowStep(o, s)
<1>1. ASSUME UNCHANGED rows
      PROVE  \A o \in Orders, s \in Suppliers : RowStep(o, s)
  BY <1>1 DEF RowStep
<1>2. ASSUME NEW o \in Orders, rows' = reset_known_negatives(o)
      PROVE  \A p \in Orders, s \in Suppliers : RowStep(p, s)
  BY <1>2, ResetType DEF RowStep, TypeOK
<1>3. CASE UNCHANGED vars
  BY <1>1, <1>3 DEF vars
<1>4. ASSUME NEW w \in Workers, NEW j \in JobIds,
             TaskStep(w, j) \/ ExchangeStep(w, j) \/ DatabaseFails(w, j)
      PROVE  \A o \in Orders, s \in Suppliers : RowStep(o, s)
  <2>1. CASE PrepareTargets(w, j)
    <3> DEFINE o == tasks[w][j].order
               s == choose_supplier(statuses(o))
    <3>1. /\ s # NoSupplier
          /\ rows' = IF rows[o][s].status = "absent"
                     THEN record_outcome(o, s, "pending", NoCode, "none") ELSE rows
          /\ tasks[w][j].pc = "prepare"
      BY <2>1 DEF PrepareTargets
    <3>2. s \in Suppliers /\ o \in Orders
      BY <3>1, ChooseSupplierType DEF TypeOK, RecordsWhole
    <3> HIDE DEF s
    <3>3. CASE rows[o][s].status = "absent"
      <4>1. rows' = record_outcome(o, s, "pending", NoCode, "none")
        BY <3>1, <3>3
      <4>2. /\ rows'[o][s].status = "pending"
            /\ rows'[o][s].code = NoCode
            /\ \A p \in Orders, q \in Suppliers :
                  p # o \/ q # s => rows'[p][q] = rows[p][q]
        BY <3>2, <4>1, OutcomeWritten
      <4> QED
        BY <3>3, <4>2 DEF RowStep
    <3> QED
      BY <1>1, <3>1, <3>3
  <2>2. CASE \/ RecordSuccess(w, j) \/ RecordSuperseded(w, j)
             \/ RecordRefusal(w, j) \/ RecordUnknown(w, j)
    BY <2>2, RowOfRecord
  <2>3. CASE ~ (\/ PrepareTargets(w, j) \/ RecordSuccess(w, j) \/ RecordSuperseded(w, j)
                \/ RecordRefusal(w, j) \/ RecordUnknown(w, j))
    BY <1>1, <1>4, <2>3 DEF TaskStep, PrepareSkips, PrepareEnds, SuccessConflicts, FinishJob,
       RescheduleJob, RescheduleBreaks, Drop, ExchangeStep, SupplierIssues,
       SupplierRefuses, ConnectFails, AnswerLost, RequestLost, RequestDelayed,
       NothingLearnt, DatabaseFails, database
  <2> QED
    BY <2>1, <2>2, <2>3
<1>5. ASSUME NEW w \in Workers, Claim(w) \/ SweepStep(w) \/ SweepFails(w) \/ Crash(w)
      PROVE  \A o \in Orders, s \in Suppliers : RowStep(o, s)
  <2>1. UNCHANGED rows \/ \E o \in Orders : rows' = reset_known_negatives(o)
    BY <1>5 DEF Claim, SweepStep, SweepRequeue, SweepCollect, SweepReset, SweepEnqueue,
       SweepFails, Crash, Drop, database, TypeOK, Sweep
  <2> QED
    BY <1>1, <1>2, <2>1
<1>6. ASSUME NEW o \in Orders,
             Pay(o) \/ FailPayment(o) \/ RetryResets(o) \/ RetryEnqueues(o)
      PROVE  \A p \in Orders, s \in Suppliers : RowStep(p, s)
  BY <1>1, <1>2, <1>6 DEF Pay, FailPayment, RetryResets, RetryEnqueues
<1>7. CASE LateRequestServed \/ \E s \in Suppliers : Restock(s)
  BY <1>1, <1>7 DEF LateRequestServed, Restock, database
<1> QED
  BY <1>3, <1>4, <1>5, <1>6, <1>7 DEF Next

\* A code is bound once.
LEMMA IssuedOnce ==
    ASSUME TypeOK, [Next]_vars
    PROVE  \A s \in Suppliers, o \in Orders :
               issued[s][o] # NoCode => issued'[s][o] = issued[s][o]
<1>1. ASSUME NEW r \in Suppliers, NEW p \in Orders, KeyStoreIssue(r, p)
      PROVE  \A s \in Suppliers, o \in Orders :
                 issued[s][o] # NoCode => issued'[s][o] = issued[s][o]
  <2>1. CASE issued[r][p] # NoCode
    BY <1>1, <2>1 DEF KeyStoreIssue
  <2>2. CASE issued[r][p] = NoCode
    <3>1. issued' = [issued EXCEPT ![r][p] = Head(free[r])]
      BY <1>1, <2>2 DEF KeyStoreIssue
    <3> QED
      BY <2>2, <3>1 DEF TypeOK
  <2> QED
    BY <2>1, <2>2
<1>2. UNCHANGED issued \/ \E r \in Suppliers, p \in Orders : KeyStoreIssue(r, p)
  <2>1. ASSUME NEW w \in Workers, NEW j \in JobIds,
               TaskStep(w, j) \/ ExchangeStep(w, j) \/ DatabaseFails(w, j)
        PROVE  UNCHANGED issued \/ \E r \in Suppliers, p \in Orders : KeyStoreIssue(r, p)
    BY <2>1 DEF TypeOK, RecordsWhole, TaskStep, PrepareSkips,
        PrepareEnds, PrepareTargets, SuccessConflicts, RecordSuccess,
        RecordSuperseded, RecordRefusal, RecordUnknown, FinishJob, RescheduleJob,
        RescheduleBreaks, Drop, ExchangeStep, SupplierIssues, SupplierRefuses,
        ConnectFails, AnswerLost, RequestLost, RequestDelayed, NothingLearnt,
        DatabaseFails, database, suppliers
  <2>2. ASSUME NEW w \in Workers, Claim(w) \/ SweepStep(w) \/ SweepFails(w) \/ Crash(w)
        PROVE  UNCHANGED issued
    BY <2>2 DEF Claim, SweepStep, SweepRequeue, SweepCollect, SweepReset, SweepEnqueue,
       SweepFails, Crash, Drop, suppliers
  <2>3. ASSUME NEW o \in Orders,
               Pay(o) \/ FailPayment(o) \/ RetryResets(o) \/ RetryEnqueues(o)
        PROVE  UNCHANGED issued
    BY <2>3 DEF Pay, FailPayment, RetryResets, RetryEnqueues, suppliers
  <2>4. CASE LateRequestServed
    BY <2>4 DEF LateRequestServed, TypeOK
  <2>5. CASE UNCHANGED vars \/ \E s \in Suppliers : Restock(s)
    BY <2>5 DEF Restock, vars
  <2> QED
    BY <2>1, <2>2, <2>3, <2>4, <2>5 DEF Next
<1> QED
  BY <1>1, <1>2

\* A task goes on with an exchange or an answer, or has none in hand.
TaskMove(w, j) ==
    \/ tasks'[w][j] = tasks[w][j]
    \/ tasks'[w][j].pc \in {"idle", "prepare", "settle"} /\ tasks'[w][j].code = NoCode
    \/ PrepareTargets(w, j) \/ ExchangeStep(w, j) \/ SuccessConflicts(w, j)

LEMMA EveryTask ==
    ASSUME TypeOK, [Next]_vars
    PROVE  \A w \in Workers, j \in JobIds : TaskMove(w, j)
<1>1. ASSUME UNCHANGED tasks
      PROVE  \A w \in Workers, j \in JobIds : TaskMove(w, j)
  BY <1>1 DEF TaskMove
<1>2. ASSUME NEW w \in Workers, NEW j \in JobIds,
             TaskStep(w, j) \/ ExchangeStep(w, j) \/ DatabaseFails(w, j)
      PROVE  \A v \in Workers, k \in JobIds : TaskMove(v, k)
  <2>1. CASE RescheduleBreaks(w, j)
    BY <2>1 DEF RescheduleBreaks, Drop, Idle, TypeOK, TaskMove
  <2>2. CASE ~RescheduleBreaks(w, j)
    <3>1. \A v \in Workers, k \in JobIds :
              v # w \/ k # j => tasks'[v][k] = tasks[v][k]
      BY <1>2, <2>2, TaskBecomes DEF Become, TypeOK
    <3>2. TaskMove(w, j)
      <4>1. tasks[w][j] \in Task
        BY DEF TypeOK
      <4>2. CASE PrepareTargets(w, j) \/ ExchangeStep(w, j) \/ SuccessConflicts(w, j)
        BY <4>2 DEF TaskMove
      <4>3. CASE FinishJob(w, j) \/ RescheduleJob(w, j)
        BY <4>3, IdleType, BecomeType DEF FinishJob, RescheduleJob, TypeOK, TaskMove, Idle
      <4>4. CASE \/ PrepareSkips(w, j) \/ PrepareEnds(w, j) \/ RecordSuccess(w, j)
                 \/ RecordSuperseded(w, j) \/ RecordRefusal(w, j) \/ RecordUnknown(w, j)
                 \/ DatabaseFails(w, j)
        <5>1. PICK r \in Outcomes : Become(w, j, Settling(tasks[w][j], r))
          BY <4>4, OutcomesType, ExhaustedType
          DEF PrepareSkips, PrepareEnds, RecordSuccess, RecordSuperseded,
              RecordRefusal, RecordUnknown, DatabaseFails
        <5>2. Settling(tasks[w][j], r).code = NoCode
          BY DEF Settling, Claimed, Idle
        <5> QED
          BY <4>1, <5>1, <5>2, SettlingType, BecomeType DEF TypeOK, TaskMove
      <4> QED
        BY <1>2, <2>2, <4>2, <4>3, <4>4 DEF TaskStep
    <3> QED
      BY <3>1, <3>2 DEF TaskMove
  <2> QED
    BY <2>1, <2>2
<1>3. ASSUME NEW w \in Workers, Claim(w)
      PROVE  \A v \in Workers, k \in JobIds : TaskMove(v, k)
  <2>1. PICK batch \in SUBSET ReadyJobs :
            tasks' = [tasks EXCEPT ![w] = [k \in JobIds |->
                        IF k \in batch
                        THEN Claimed(jobs[k].order, jobs[k].attempts + 1)
                        ELSE Idle]]
    BY <1>3 DEF Claim
  <2>2. \A o, n : Claimed(o, n).pc = "prepare" /\ Claimed(o, n).code = NoCode
    BY DEF Claimed, Idle
  <2>3. Idle.pc = "idle" /\ Idle.code = NoCode
    BY DEF Idle
  <2> QED
    BY <2>1, <2>2, <2>3 DEF TypeOK, TaskMove
<1>4. ASSUME NEW w \in Workers, Crash(w)
      PROVE  \A v \in Workers, k \in JobIds : TaskMove(v, k)
  BY <1>4 DEF Crash, Drop, Idle, TypeOK, TaskMove
<1>5. ASSUME NEW w \in Workers, SweepStep(w) \/ SweepFails(w)
      PROVE  UNCHANGED tasks
  BY <1>5 DEF SweepStep, SweepRequeue, SweepCollect, SweepReset, SweepEnqueue, SweepFails
<1>6. ASSUME NEW o \in Orders,
             Pay(o) \/ FailPayment(o) \/ RetryResets(o) \/ RetryEnqueues(o)
      PROVE  UNCHANGED tasks
  BY <1>6 DEF Pay, FailPayment, RetryResets, RetryEnqueues
<1>7. CASE UNCHANGED vars \/ LateRequestServed \/ \E s \in Suppliers : Restock(s)
  BY <1>1, <1>7 DEF LateRequestServed, Restock, vars
<1> QED
  BY <1>1, <1>2, <1>3, <1>4, <1>5, <1>6, <1>7 DEF Next

\* An exchange leaves the task with its order and supplier, without an answer,
\* or with one; it has a code only from the supplier's key store.
LEMMA ExchangeLeaves ==
    ASSUME TypeOK, NEW w \in Workers, NEW j \in JobIds, ExchangeStep(w, j)
    PROVE  /\ tasks[w][j].pc = "call"
           /\ tasks'[w][j].pc \in {"call", "record"}
           /\ tasks'[w][j].order = tasks[w][j].order
           /\ tasks'[w][j].supplier = tasks[w][j].supplier
           /\ tasks'[w][j].code \in {tasks[w][j].code, NoCode} \/ SupplierIssues(w, j)
           /\ tasks'[w][j].result = "ok" /\ tasks'[w][j].pc = "record" =>
                 SupplierIssues(w, j)
           /\ tasks'[w][j].result = "refused" /\ tasks'[w][j].pc = "record" =>
                 SupplierRefuses(w, j) \/ ConnectFails(w, j)
<1> DEFINE t == tasks[w][j]
<1>1. t \in Task /\ t.pc = "call"
  BY DEF TypeOK, ExchangeStep, SupplierIssues, SupplierRefuses, ConnectFails, AnswerLost,
     RequestLost, RequestDelayed, NothingLearnt
<1>2. ASSUME NEW u, Become(w, j, u)
      PROVE  tasks'[w][j] = u
  BY <1>2 DEF Become, TypeOK
<1>3. ASSUME NEW a, NEW c, NEW r
      PROVE  /\ Answered(t, a, c, r).pc = "record"
             /\ Answered(t, a, c, r).order = t.order
             /\ Answered(t, a, c, r).supplier = t.supplier
             /\ Answered(t, a, c, r).result = a
             /\ Answered(t, a, c, r).code = c
  BY <1>1 DEF Answered, Task
<1>4. CASE SupplierIssues(w, j)
  BY <1>1, <1>2, <1>3, <1>4 DEF SupplierIssues
<1>5. CASE SupplierRefuses(w, j)
  BY <1>1, <1>2, <1>3, <1>5 DEF SupplierRefuses
<1>6. CASE ConnectFails(w, j)
  BY <1>1, <1>2, <1>3, <1>6 DEF ConnectFails
<1>7. CASE NothingLearnt(w, j)
  <2>1. CASE t.call < supplier_max_attempts
    <3>1. /\ [t EXCEPT !.call = @ + 1].pc = "call"
          /\ [t EXCEPT !.call = @ + 1].order = t.order
          /\ [t EXCEPT !.call = @ + 1].supplier = t.supplier
          /\ [t EXCEPT !.call = @ + 1].code = t.code
      BY <1>1 DEF Task
    <3> QED
      BY <1>1, <1>2, <1>7, <2>1, <3>1 DEF NothingLearnt
  <2>2. CASE ~(t.call < supplier_max_attempts)
    BY <1>1, <1>2, <1>3, <1>7, <2>2 DEF NothingLearnt, GivesUp
  <2> QED
    BY <2>1, <2>2
<1> QED
  BY <1>4, <1>5, <1>6, <1>7 DEF ExchangeStep, AnswerLost, RequestLost, RequestDelayed

-----------------------------------------------------------------------------
(* Codes *)

\* A supplier's answer carries the code it has bound by then.
LEMMA AnswerIsIssued ==
    ASSUME TypeOK, NEW w \in Workers, NEW j \in JobIds, SupplierIssues(w, j)
    PROVE  /\ tasks'[w][j].code # NoCode
           /\ tasks'[w][j].code = issued'[tasks[w][j].supplier][tasks[w][j].order]
<1> DEFINE t == tasks[w][j]
           s == t.supplier
           o == t.order
<1>1. /\ t \in Task /\ s \in Suppliers /\ o \in Orders
      /\ CanIssue(s, o) /\ KeyStoreIssue(s, o)
      /\ Become(w, j, Answered(t, "ok", CodeFor(s, o), "none"))
  BY DEF SupplierIssues, TypeOK, RecordsWhole
<1>2. tasks'[w][j].code = CodeFor(s, o)
  <2>1. Answered(t, "ok", CodeFor(s, o), "none").code = CodeFor(s, o)
    BY <1>1 DEF Answered, Task
  <2> QED
    BY <1>1, <2>1 DEF Become, TypeOK
<1>3. CASE issued[s][o] # NoCode
  BY <1>1, <1>2, <1>3 DEF KeyStoreIssue, CodeFor
<1>4. CASE issued[s][o] = NoCode
  <2>1. /\ free[s] \in Seq(Codes) /\ free[s] # <<>>
        /\ issued' = [issued EXCEPT ![s][o] = Head(free[s])]
        /\ CodeFor(s, o) = Head(free[s])
    BY <1>1, <1>4 DEF KeyStoreIssue, CanIssue, CodeFor, TypeOK
  <2>2. Head(free[s]) \in Codes
    BY <2>1
  <2>3. issued'[s][o] = Head(free[s])
    BY <1>1, <2>1 DEF TypeOK
  <2> QED
    BY <1>2, <2>1, <2>2, <2>3, DeliveryAssumption DEF DeliveryAssumption
<1> QED
  BY <1>3, <1>4

LEMMA CarriesIssuedStep ==
    ASSUME TypeOK, [Next]_vars, NEW w \in Workers, NEW j \in JobIds, CarriesIssued(w, j)
    PROVE  CarriesIssued(w, j)'
<1> DEFINE t == tasks[w][j]
<1>1. t \in Task /\ (t.pc \in {"call", "record", "supersede"} =>
                        t.supplier \in Suppliers /\ t.order \in Orders)
  BY DEF TypeOK, RecordsWhole
<1>2. CASE tasks'[w][j] = t
  BY <1>1, <1>2, IssuedOnce DEF CarriesIssued
<1>3. CASE tasks'[w][j].pc \in {"idle", "prepare", "settle"}
  BY <1>3 DEF CarriesIssued
<1>4. CASE PrepareTargets(w, j)
  <2>1. PICK s : Become(w, j, Asking(t, s))
    BY <1>4 DEF PrepareTargets
  <2>2. tasks'[w][j].pc = "call"
    BY <1>1, <2>1 DEF Become, Asking, Task, TypeOK
  <2> QED
    BY <2>2 DEF CarriesIssued
<1>5. CASE ExchangeStep(w, j)
  <2>1. CASE SupplierIssues(w, j)
    BY <1>5, <2>1, ExchangeLeaves, AnswerIsIssued DEF CarriesIssued
  <2>2. CASE ~SupplierIssues(w, j)
    BY <1>5, <2>2, ExchangeLeaves DEF CarriesIssued
  <2> QED
    BY <2>1, <2>2
<1>6. CASE SuccessConflicts(w, j)
  <2>1. /\ t.pc = "record" /\ t.result = "ok"
        /\ tasks'[w][j] = [t EXCEPT !.pc = "supersede"]
    BY <1>6 DEF SuccessConflicts, Become, TypeOK
  <2>2. /\ tasks'[w][j].code = t.code
        /\ tasks'[w][j].supplier = t.supplier
        /\ tasks'[w][j].order = t.order
    BY <1>1, <2>1 DEF Task
  <2> QED
    BY <1>1, <2>1, <2>2, IssuedOnce DEF CarriesIssued
<1> QED
  BY <1>2, <1>3, <1>4, <1>5, <1>6, EveryTask DEF TaskMove

\* A step adds at most one success, and the unique indexes let it through.
LEMMA OneNewSuccess ==
    ASSUME TypeOK, [Next]_vars
    PROVE  \/ \A o \in Orders, s \in Suppliers :
                 rows'[o][s].status = "succeeded" => rows'[o][s] = rows[o][s]
           \/ \E w \in Workers, j \in JobIds, o \in Orders, s \in Suppliers :
                 AnswerRecorded(w, j, o, s) /\ rows'[o][s].status = "succeeded"
BY EveryRow DEF RowStep

LEMMA CodesStep ==
    ASSUME TypeOK, CodesInv, [Next]_vars
    PROVE  CodesInv'
<1>1. \A w \in Workers, j \in JobIds : CarriesIssued(w, j)'
  BY CarriesIssuedStep DEF CodesInv
<1>2. CASE \A o \in Orders, s \in Suppliers :
               rows'[o][s].status = "succeeded" => rows'[o][s] = rows[o][s]
  <2>1. SuccessIsIssued'
    BY <1>2, IssuedOnce DEF CodesInv, SuccessIsIssued
  <2>2. OneSuccess'
    BY <1>2 DEF CodesInv, OneSuccess, Succeeded
  <2>3. CodeGivenOnce'
    <3> SUFFICES ASSUME NEW o \in Orders, NEW p \in Orders,
                        NEW s \in Suppliers, NEW r \in Suppliers,
                        rows'[o][s].status = "succeeded", rows'[p][r].status = "succeeded",
                        rows'[o][s].code = rows'[p][r].code
                 PROVE  o = p /\ s = r
      BY DEF CodeGivenOnce
    <3>1. rows'[o][s] = rows[o][s] /\ rows'[p][r] = rows[p][r]
      BY <1>2
    <3> QED
      BY <3>1 DEF CodesInv, CodeGivenOnce
  <2> QED
    BY <1>1, <2>1, <2>2, <2>3 DEF CodesInv
<1>3. ASSUME NEW w \in Workers, NEW j \in JobIds, NEW o \in Orders, NEW s \in Suppliers,
             AnswerRecorded(w, j, o, s), rows'[o][s].status = "succeeded"
      PROVE  CodesInv'
  <2> DEFINE c == tasks[w][j].code
  <2>1. /\ tasks[w][j].pc = "record" /\ tasks[w][j].result = "ok"
        /\ tasks[w][j].order = o /\ tasks[w][j].supplier = s
        /\ ~BreaksUniqueIndex(o, s, c)
        /\ rows'[o][s].code = c
        /\ \A p \in Orders, r \in Suppliers : p # o \/ r # s => rows'[p][r] = rows[p][r]
    BY <1>3 DEF AnswerRecorded
  <2>2. c # NoCode /\ c = issued[s][o]
    BY <2>1 DEF CodesInv, CarriesIssued
  <2>3. /\ Succeeded(o) \ {s} = {}
        /\ \A p \in Orders, r \in Suppliers :
              (p # o \/ r # s) /\ rows[p][r].status = "succeeded" => rows[p][r].code # c
    BY <2>1 DEF BreaksUniqueIndex
  <2>4. SuccessIsIssued'
    <3> SUFFICES ASSUME NEW p \in Orders, NEW r \in Suppliers,
                        rows'[p][r].status = "succeeded"
                 PROVE  rows'[p][r].code # NoCode /\ rows'[p][r].code = issued'[r][p]
      BY DEF SuccessIsIssued
    <3>1. CASE p = o /\ r = s
      BY <2>1, <2>2, <3>1, IssuedOnce
    <3>2. CASE p # o \/ r # s
      BY <2>1, <3>2, IssuedOnce DEF CodesInv, SuccessIsIssued
    <3> QED
      BY <3>1, <3>2
  <2>5. OneSuccess'
    <3>1. Succeeded(o)' = {s}
      BY <1>3, <2>1, <2>3 DEF Succeeded
    <3>2. \A p \in Orders \ {o} : Succeeded(p)' = Succeeded(p)
      BY <2>1 DEF Succeeded
    <3> QED
      BY <3>1, <3>2 DEF CodesInv, OneSuccess
  <2>6. CodeGivenOnce'
    <3> SUFFICES ASSUME NEW p \in Orders, NEW q \in Orders,
                        NEW r \in Suppliers, NEW u \in Suppliers,
                        rows'[p][r].status = "succeeded", rows'[q][u].status = "succeeded",
                        rows'[p][r].code = rows'[q][u].code
                 PROVE  p = q /\ r = u
      BY DEF CodeGivenOnce
    <3>1. CASE p = o /\ r = s
      BY <2>1, <2>3, <3>1
    <3>2. CASE q = o /\ u = s
      BY <2>1, <2>3, <3>2
    <3>3. CASE (p # o \/ r # s) /\ (q # o \/ u # s)
      <4>1. rows'[p][r] = rows[p][r] /\ rows'[q][u] = rows[q][u]
        BY <2>1, <3>3
      <4> QED
        BY <4>1 DEF CodesInv, CodeGivenOnce
    <3> QED
      BY <3>1, <3>2, <3>3
  <2> QED
    BY <1>1, <2>4, <2>5, <2>6 DEF CodesInv
<1> QED
  BY <1>2, <1>3, OneNewSuccess

LEMMA CodesInvariant == Spec => []CodesInv
<1>1. Init => CodesInv
  <2>1. Init => \A w \in Workers, j \in JobIds : CarriesIssued(w, j)
    BY DEF Init, CarriesIssued, Idle
  <2> QED
    BY <2>1 DEF Init, CodesInv, SuccessIsIssued, OneSuccess, CodeGivenOnce, Succeeded, NoRow
<1> QED
  BY <1>1, CodesStep, TypeCorrect, PTL DEF Spec

\* Whatever happens to workers, requests and transactions, also when jobs of live
\* workers are requeued and two tasks carry codes for one order: no code is
\* recorded as delivered twice, nor two codes for one order.
THEOREM CodesAreGivenOnce == Spec => [](CodeGivenOnce /\ OneSuccess)
BY CodesInvariant, PTL DEF CodesInv

-----------------------------------------------------------------------------
(* What a task with an order of its own can rely on *)

\* The supplier that is asked next has an open row.
LEMMA ChosenIsOpen ==
    ASSUME NEW f, choose_supplier(f) # NoSupplier
    PROVE  f[choose_supplier(f)] \in OpenStatuses
<1> DEFINE asked == {i \in DOMAIN SupplierChain :
                       /\ f[SupplierChain[i]] \in OpenStatuses
                       /\ \A k \in 1 .. i - 1 : f[SupplierChain[k]] \in PassedStatuses}
<1>1. choose_supplier(f) = IF asked = {} THEN NoSupplier
                           ELSE SupplierChain[CHOOSE i \in asked : TRUE]
  BY DEF choose_supplier
<1>2. \A i \in asked : f[SupplierChain[i]] \in OpenStatuses
  OBVIOUS
<1> HIDE DEF asked
<1>3. asked # {} /\ (CHOOSE i \in asked : TRUE) \in asked
  BY <1>1
<1> QED
  BY <1>1, <1>2, <1>3

\* A delivery that is under way ends in a transaction of its task.
LEMMA EndsByTask ==
    ASSUME TypeOK, [Next]_vars, NEW o \in Orders,
           orderStatus[o] = "delivering", orderStatus'[o] # "delivering"
    PROVE  \E w \in Workers, j \in JobIds :
              /\ tasks[w][j].pc # "idle"
              /\ tasks[w][j].order = o
              /\ tasks'[w][j].pc = "settle"
<1>1. CASE UNCHANGED orderStatus
  BY <1>1
<1>2. ASSUME NEW w \in Workers, NEW j \in JobIds,
             TaskStep(w, j) \/ ExchangeStep(w, j) \/ DatabaseFails(w, j),
             ~UNCHANGED orderStatus
      PROVE  /\ tasks[w][j].pc # "idle"
             /\ tasks[w][j].order = o
             /\ tasks'[w][j].pc = "settle"
  <2> DEFINE t == tasks[w][j]
  <2>1. /\ t \in Task /\ t.order \in Orders
        /\ t.pc # "idle"
    BY <1>2, StepOfTask DEF TypeOK, RecordsWhole
  <2>2. \/ PrepareEnds(w, j) \/ PrepareTargets(w, j) \/ RecordSuccess(w, j)
        \/ RecordRefusal(w, j) \/ RecordUnknown(w, j)
    BY <1>2 DEF TaskStep, PrepareSkips, SuccessConflicts, RecordSuperseded, FinishJob,
       RescheduleJob, RescheduleBreaks, Drop, ExchangeStep, SupplierIssues,
       SupplierRefuses, ConnectFails, AnswerLost, RequestLost, RequestDelayed,
       NothingLearnt, DatabaseFails, database
  <2>3. \E status : orderStatus' = [orderStatus EXCEPT ![t.order] = status]
    BY <1>2, <2>2 DEF PrepareEnds, PrepareTargets, RecordSuccess, RecordRefusal,
       RecordUnknown, finalize_exhausted
  <2>4. t.order = o
    BY <2>1, <2>3 DEF TypeOK
  <2>5. ~PrepareTargets(w, j)
    BY <2>4 DEF PrepareTargets, TypeOK
  <2>6. PICK r \in Outcomes : Become(w, j, Settling(t, r))
    BY <2>2, <2>5, OutcomesType, ExhaustedType
    DEF PrepareEnds, RecordSuccess, RecordRefusal, RecordUnknown
  <2> QED
    BY <2>1, <2>4, <2>6, SettlingType, BecomeType DEF TypeOK
<1>3. ASSUME NEW w \in Workers, Claim(w) \/ SweepStep(w) \/ SweepFails(w) \/ Crash(w)
      PROVE  UNCHANGED orderStatus
  BY <1>3 DEF Claim, SweepStep, SweepRequeue, SweepCollect, SweepReset, SweepEnqueue,
     SweepFails, Crash, Drop, database
<1>4. ASSUME NEW p \in Orders,
             Pay(p) \/ FailPayment(p) \/ RetryResets(p) \/ RetryEnqueues(p)
      PROVE  orderStatus'[o] = orderStatus[o]
  BY <1>4 DEF Pay, FailPayment, RetryResets, RetryEnqueues, TypeOK
<1>5. CASE UNCHANGED vars \/ LateRequestServed \/ \E s \in Suppliers : Restock(s)
  BY <1>1, <1>5 DEF LateRequestServed, Restock, database, vars
<1> QED
  BY <1>1, <1>2, <1>3, <1>4, <1>5 DEF Next

LEMMA CallStep ==
    ASSUME TypeOK, RunInv, [Next]_vars
    PROVE  CallIsCurrent'
<1> SUFFICES ASSUME NEW w \in Workers, NEW j \in JobIds,
                    tasks'[w][j].pc \in {"call", "record", "supersede"}
             PROVE  LET u == tasks'[w][j]
                    IN  /\ orderStatus'[u.order] = "delivering"
                        /\ rows'[u.order][u.supplier].status \in {"pending", "unknown"}
  BY DEF CallIsCurrent
<1> DEFINE t == tasks[w][j]
<1>1. t \in Task /\ (t.pc # "idle" => t.order \in Orders)
  BY DEF TypeOK, RecordsWhole
<1>2. ASSUME t.pc \in {"call", "record", "supersede"}
      PROVE  /\ t.order \in Orders /\ t.supplier \in Suppliers
             /\ orderStatus[t.order] = "delivering"
             /\ rows[t.order][t.supplier].status \in {"pending", "unknown"}
  BY <1>2 DEF RunInv, CallIsCurrent, TypeOK, RecordsWhole
<1>3. CASE tasks'[w][j] = t
  <2>1. \A v \in Workers, k \in JobIds :
            /\ tasks[v][k].pc # "idle"
            /\ tasks[v][k].order = t.order
            => tasks'[v][k].pc # "settle"
    BY <1>3, OneRun DEF RunInv, OneRunPerOrder
  <2>2. orderStatus'[t.order] = "delivering"
    BY <1>2, <1>3, <2>1, EndsByTask
  <2>3. ~ \E v \in Workers, k \in JobIds : AnswerRecorded(v, k, t.order, t.supplier)
    BY <2>1 DEF AnswerRecorded
  <2>4. RowStep(t.order, t.supplier)
    BY <1>2, <1>3, EveryRow
  <2> QED
    BY <1>2, <1>3, <2>2, <2>3, <2>4 DEF RowStep
<1>4. CASE PrepareTargets(w, j)
  <2> DEFINE o == t.order
             s == choose_supplier(statuses(o))
  <2>1. /\ t.pc = "prepare" /\ s # NoSupplier
        /\ orderStatus' = [orderStatus EXCEPT ![o] = "delivering"]
        /\ rows' = IF rows[o][s].status = "absent"
                   THEN record_outcome(o, s, "pending", NoCode, "none") ELSE rows
        /\ Become(w, j, Asking(t, s))
    BY <1>4 DEF PrepareTargets
  <2>2. s \in Suppliers /\ o \in Orders
    BY <1>1, <2>1, ChooseSupplierType
  <2>3. rows[o][s].status \in OpenStatuses
    <3>1. statuses(o)[s] \in OpenStatuses
      BY <2>1, ChosenIsOpen
    <3> QED
      BY <2>2, <3>1 DEF statuses
  <2> HIDE DEF s
  <2>4. tasks'[w][j].order = o /\ tasks'[w][j].supplier = s
    BY <1>1, <2>1, <2>2, AskingType, BecomeType DEF TypeOK
  <2>5. orderStatus'[o] = "delivering"
    BY <2>1, <2>2 DEF TypeOK
  <2>6. rows'[o][s].status \in {"pending", "unknown"}
    <3>1. CASE rows[o][s].status = "absent"
      BY <2>1, <2>2, <3>1, OutcomeWritten
    <3>2. CASE rows[o][s].status # "absent"
      BY <2>1, <2>3, <3>2 DEF OpenStatuses
    <3> QED
      BY <3>1, <3>2
  <2> QED
    BY <2>4, <2>5, <2>6
<1>5. CASE ExchangeStep(w, j)
  <2>1. UNCHANGED <<orderStatus, rows>>
    BY <1>5 DEF ExchangeStep, SupplierIssues, SupplierRefuses, ConnectFails, AnswerLost,
       RequestLost, RequestDelayed, NothingLearnt, database
  <2> QED
    BY <1>2, <1>5, <2>1, ExchangeLeaves
<1>6. CASE SuccessConflicts(w, j)
  <2>1. /\ t.pc = "record" /\ UNCHANGED <<orderStatus, rows>>
        /\ tasks'[w][j] = [t EXCEPT !.pc = "supersede"]
    BY <1>6 DEF SuccessConflicts, Become, TypeOK, database
  <2>2. tasks'[w][j].order = t.order /\ tasks'[w][j].supplier = t.supplier
    BY <1>1, <2>1 DEF Task
  <2> QED
    BY <1>2, <2>1, <2>2
<1> QED
  BY <1>3, <1>4, <1>5, <1>6, EveryTask DEF TaskMove

LEMMA DeliveredStep ==
    ASSUME TypeOK, MoneyInv, RunInv, [Next]_vars
    PROVE  DeliveredHasCode'
<1> SUFFICES ASSUME NEW o \in Orders, orderStatus'[o] = "delivered"
             PROVE  Succeeded(o)' # {}
  BY DEF DeliveredHasCode
<1>1. CASE orderStatus[o] = "delivered"
  <2>1. PICK s \in Suppliers : rows[o][s].status = "succeeded"
    BY <1>1 DEF RunInv, DeliveredHasCode, Succeeded
  <2>2. ~ \E w \in Workers, j \in JobIds : AnswerRecorded(w, j, o, s)
    BY <1>1 DEF AnswerRecorded, RunInv, CallIsCurrent
  <2>3. rows'[o][s] = rows[o][s]
    BY <2>1, <2>2, EveryRow DEF RowStep
  <2> QED
    BY <2>1, <2>3 DEF Succeeded
<1>2. CASE orderStatus[o] # "delivered"
  <2>1. ASSUME NEW p \in Orders, OrderStep(p) PROVE Succeeded(o)' # {}
    <3>1. p = o
      BY <1>2, <2>1 DEF OrderStep, LeavesAlone, Captures, Fails, Starts, Heals, GivesItUp,
         Delivers, TypeOK
    <3>2. Heals(o) \/ Delivers(o)
      BY <1>2, <2>1, <3>1 DEF OrderStep, LeavesAlone, Captures, Fails, Starts, GivesItUp, TypeOK
    <3>3. ~Heals(o)
      BY <1>2 DEF Heals, MoneyInv, SucceededImpliesDelivered
    <3> QED
      BY <3>2, <3>3 DEF Delivers
  <2> QED
    BY <1>2, <2>1, EveryStep DEF Idles
<1> QED
  BY <1>1, <1>2

LEMMA RunInvariant == NoStall => (Spec => []RunInv)
<1>1. TypeOK /\ MoneyInv /\ RunInv /\ [Next]_vars => RunInv'
  BY QueueStep, CallStep, DeliveredStep DEF RunInv
<1>2. ASSUME NoStall PROVE Spec => []RunInv
  <2>1. Init => RunInv
    <3>1. Init => CallIsCurrent /\ DeliveredHasCode
      BY DEF Init, CallIsCurrent, DeliveredHasCode, Idle
    <3> QED
      BY <1>2, <3>1, QueueInit DEF RunInv
  <2> QED
    BY <1>1, <2>1, TypeCorrect, MoneyInvariant, PTL DEF Spec
<1> QED
  BY <1>2

\* With one task per order nothing overwrites a delivered order's code: the task
\* that could write its row finds the order in "delivering" and the row open.
THEOREM CodeOfDeliveredIsKept == NoStall => (Spec => []DeliveredKeepsCode)
<1>1. CodesInv /\ RunInv => DeliveredKeepsCode
  <2> SUFFICES ASSUME CodesInv, RunInv, NEW o \in Orders, orderStatus[o] = "delivered"
               PROVE  \E s \in Suppliers : /\ Succeeded(o) = {s}
                                           /\ rows[o][s].code # NoCode
                                           /\ rows[o][s].code = issued[s][o]
    BY DEF DeliveredKeepsCode
  <2>1. PICK s \in Suppliers : s \in Succeeded(o)
    BY DEF RunInv, DeliveredHasCode, Succeeded
  <2>2. Succeeded(o) = {s}
    BY <2>1 DEF CodesInv, OneSuccess
  <2> QED
    BY <2>1, <2>2 DEF CodesInv, SuccessIsIssued, Succeeded
<1> QED
  BY <1>1, CodesInvariant, RunInvariant, PTL

\* With one task per order a superseded row is final: neither the chain nor a
\* recovery asks its supplier again, so the code stays on record for the report.
THEOREM SupersededStays == NoStall => (Spec => SupersededIsKept)
<1>1. TypeOK /\ RunInv /\ [Next]_vars =>
          [\A o \in Orders, s \in Suppliers :
              rows[o][s].status = "superseded" => rows'[o][s] = rows[o][s]]_rows
  BY EveryRow DEF RowStep, AnswerRecorded, RunInv, CallIsCurrent
<1> QED
  BY <1>1, RunInvariant, TypeCorrect, PTL DEF Spec, SupersededIsKept

-----------------------------------------------------------------------------
(* Refusals *)

\* Without late requests a code is bound only for a task that is asking.
LEMMA IssuedByCall ==
    ASSUME TypeOK, [Next]_vars, late = {}, NEW o \in Orders, NEW s \in Suppliers,
           issued'[s][o] # issued[s][o]
    PROVE  \E w \in Workers, j \in JobIds :
              /\ ExchangeStep(w, j)
              /\ tasks[w][j].order = o
              /\ tasks[w][j].supplier = s
              /\ UNCHANGED rows
<1>1. ASSUME NEW w \in Workers, NEW j \in JobIds,
             TaskStep(w, j) \/ ExchangeStep(w, j) \/ DatabaseFails(w, j)
      PROVE  /\ ExchangeStep(w, j)
             /\ tasks[w][j].order = o
             /\ tasks[w][j].supplier = s
             /\ UNCHANGED rows
  <2>1. ExchangeStep(w, j)
    BY <1>1 DEF TaskStep, PrepareSkips,
        PrepareEnds, PrepareTargets, SuccessConflicts, RecordSuccess,
        RecordSuperseded, RecordRefusal, RecordUnknown, FinishJob, RescheduleJob,
        RescheduleBreaks, Drop, DatabaseFails, suppliers
  <2>2. /\ UNCHANGED issued \/ KeyStoreIssue(tasks[w][j].supplier, tasks[w][j].order)
        /\ UNCHANGED rows
    BY <2>1 DEF ExchangeStep, SupplierIssues, SupplierRefuses, ConnectFails, AnswerLost,
       RequestLost, RequestDelayed, NothingLearnt, suppliers, database
  <2>3. issued' = [issued EXCEPT ![tasks[w][j].supplier][tasks[w][j].order] =
                                    Head(free[tasks[w][j].supplier])]
    BY <2>2 DEF KeyStoreIssue
  <2>4. tasks[w][j].supplier \in Suppliers /\ tasks[w][j].order \in Orders
    BY <2>1, ExchangeLeaves DEF TypeOK, RecordsWhole
  <2>5. tasks[w][j].supplier = s /\ tasks[w][j].order = o
    BY <2>3, <2>4 DEF TypeOK
  <2> QED
    BY <2>1, <2>2, <2>5
<1>2. ASSUME NEW w \in Workers, Claim(w) \/ SweepStep(w) \/ SweepFails(w) \/ Crash(w)
      PROVE  UNCHANGED issued
  BY <1>2 DEF Claim, SweepStep, SweepRequeue, SweepCollect, SweepReset, SweepEnqueue,
     SweepFails, Crash, Drop, suppliers
<1>3. ASSUME NEW p \in Orders,
             Pay(p) \/ FailPayment(p) \/ RetryResets(p) \/ RetryEnqueues(p)
      PROVE  UNCHANGED issued
  BY <1>3 DEF Pay, FailPayment, RetryResets, RetryEnqueues, suppliers
<1>4. CASE UNCHANGED vars \/ \E r \in Suppliers : Restock(r)
  BY <1>4 DEF Restock, vars
<1>5. ~LateRequestServed
  BY DEF LateRequestServed
<1> QED
  BY <1>1, <1>2, <1>3, <1>4, <1>5 DEF Next

LEMMA NothingLate ==
    ASSUME TypeOK, [Next]_vars, late = {},
           budget["connect_failed"] = 0, budget["delayed"] = 0
    PROVE  /\ late' = {}
           /\ budget'["connect_failed"] = 0
           /\ budget'["delayed"] = 0
<1>1. budget'["connect_failed"] = 0 /\ budget'["delayed"] = 0
  BY SpentStaysSpent DEF Disturbance
<1>2. ASSUME NEW w \in Workers, NEW j \in JobIds,
             TaskStep(w, j) \/ ExchangeStep(w, j) \/ DatabaseFails(w, j)
      PROVE  UNCHANGED late
  <2>1. ~RequestDelayed(w, j)
    BY CannotSpend DEF RequestDelayed
  <2> QED
    BY <1>2, <2>1 DEF TaskStep, PrepareSkips,
        PrepareEnds, PrepareTargets, SuccessConflicts, RecordSuccess,
        RecordSuperseded, RecordRefusal, RecordUnknown, FinishJob, RescheduleJob,
        RescheduleBreaks, ExchangeStep, SupplierIssues, SupplierRefuses,
        ConnectFails, AnswerLost, RequestLost, DatabaseFails, suppliers
<1>3. ASSUME NEW w \in Workers, Crash(w)
      PROVE  UNCHANGED late
  <2>1. ~Spend({"crash", "delayed"})
    BY CannotSpend
  <2> QED
    BY <1>3, <2>1 DEF Crash
<1>4. ASSUME NEW w \in Workers, Claim(w) \/ SweepStep(w) \/ SweepFails(w)
      PROVE  UNCHANGED late
  BY <1>4 DEF Claim, SweepStep, SweepRequeue, SweepCollect, SweepReset, SweepEnqueue,
     SweepFails, suppliers
<1>5. ASSUME NEW o \in Orders,
             Pay(o) \/ FailPayment(o) \/ RetryResets(o) \/ RetryEnqueues(o)
      PROVE  UNCHANGED late
  BY <1>5 DEF Pay, FailPayment, RetryResets, RetryEnqueues, suppliers
<1>6. ASSUME UNCHANGED vars \/ \E r \in Suppliers : Restock(r)
      PROVE  UNCHANGED late
  BY <1>6 DEF Restock, vars
<1>7. ~LateRequestServed
  BY DEF LateRequestServed
<1>8. UNCHANGED late
  BY <1>2, <1>3, <1>4, <1>5, <1>6, <1>7 DEF Next
<1> QED
  BY <1>1, <1>8

LEMMA RefusalStep ==
    ASSUME TypeOK, RunInv, RefusalInv, [Next]_vars
    PROVE  RefusalInv'
<1>1. /\ late' = {}
      /\ budget'["connect_failed"] = 0 /\ budget'["delayed"] = 0
  BY NothingLate DEF RefusalInv
<1>2. ASSUME NEW w \in Workers, NEW j \in JobIds,
             tasks'[w][j].pc = "record", tasks'[w][j].result = "refused"
      PROVE  issued'[tasks'[w][j].supplier][tasks'[w][j].order] = NoCode
  <2> DEFINE t == tasks[w][j]
  <2>1. t \in Task
    BY DEF TypeOK
  <2>2. CASE tasks'[w][j] = t
    <3>1. /\ t.order \in Orders /\ t.supplier \in Suppliers
          /\ issued[t.supplier][t.order] = NoCode
      BY <1>2, <2>2 DEF RefusalInv, TypeOK, RecordsWhole
    <3>2. issued'[t.supplier][t.order] = issued[t.supplier][t.order]
      <4> SUFFICES ASSUME issued'[t.supplier][t.order] # issued[t.supplier][t.order]
                   PROVE  FALSE
        OBVIOUS
      <4>1. PICK v \in Workers, k \in JobIds :
                ExchangeStep(v, k) /\ tasks[v][k].order = t.order
        BY <3>1, IssuedByCall DEF RefusalInv
      <4>2. tasks[v][k].pc = "call"
        BY <4>1, ExchangeLeaves
      <4>3. v = w /\ k = j
        BY <1>2, <2>2, <4>1, <4>2, OneRun DEF RunInv, OneRunPerOrder
      <4> QED
        BY <1>2, <2>2, <4>2, <4>3
    <3> QED
      BY <2>2, <3>1, <3>2
  <2>3. CASE ExchangeStep(w, j)
    <3>1. ~ConnectFails(w, j)
      BY CannotSpend DEF ConnectFails, RefusalInv
    <3>2. SupplierRefuses(w, j)
      BY <1>2, <2>3, <3>1, ExchangeLeaves
    <3> QED
      BY <2>3, <3>2, ExchangeLeaves DEF SupplierRefuses, suppliers
  <2>4. CASE PrepareTargets(w, j)
    <3>1. PICK s : Become(w, j, Asking(t, s))
      BY <2>4 DEF PrepareTargets
    <3> QED
      BY <1>2, <2>1, <3>1 DEF Become, Asking, Task, TypeOK
  <2>5. CASE SuccessConflicts(w, j)
    BY <1>2, <2>1, <2>5 DEF SuccessConflicts, Become, Task, TypeOK
  <2> QED
    BY <1>2, <2>2, <2>3, <2>4, <2>5, EveryTask DEF TaskMove
<1>3. ASSUME NEW o \in Orders, NEW s \in Suppliers, rows'[o][s].status = "known_negative"
      PROVE  issued'[s][o] = NoCode
  <2>1. CASE issued'[s][o] = issued[s][o]
    <3>1. CASE rows'[o][s] = rows[o][s]
      BY <1>3, <2>1, <3>1 DEF RefusalInv, KnownNegativeIsProof
    <3>2. ASSUME NEW w \in Workers, NEW j \in JobIds, AnswerRecorded(w, j, o, s)
          PROVE  issued[s][o] = NoCode
      BY <1>3, <3>2 DEF AnswerRecorded, RefusalInv
    <3> QED
      BY <1>3, <2>1, <3>1, <3>2, EveryRow DEF RowStep
  <2>2. CASE issued'[s][o] # issued[s][o]
    <3>1. PICK w \in Workers, j \in JobIds :
              /\ ExchangeStep(w, j) /\ UNCHANGED rows
              /\ tasks[w][j].order = o /\ tasks[w][j].supplier = s
      BY <2>2, IssuedByCall DEF RefusalInv
    <3>2. tasks[w][j].pc = "call"
      BY <3>1, ExchangeLeaves
    <3> QED
      BY <1>3, <3>1, <3>2 DEF RunInv, CallIsCurrent
  <2> QED
    BY <2>1, <2>2
<1> QED
  BY <1>1, <1>2, <1>3 DEF RefusalInv, KnownNegativeIsProof

\* Where connections are established, no request is served late and no job is
\* taken from a live worker, a refusal is what the docstring says it is: the
\* supplier has bound nothing to the request and has not been asked since.
THEOREM RefusalIsProof == NoStall /\ NoLateIssue => (Spec => []KnownNegativeIsProof)
<1>1. TypeOK /\ RunInv /\ RefusalInv /\ [Next]_vars => RefusalInv'
  BY RefusalStep
<1>2. ASSUME NoStall, NoLateIssue PROVE Spec => []KnownNegativeIsProof
  <2>1. Init => RefusalInv
    BY <1>2 DEF Init, NoLateIssue, RefusalInv, KnownNegativeIsProof, Idle, NoRow
  <2>2. RefusalInv => KnownNegativeIsProof
    BY DEF RefusalInv
  <2> QED
    BY <1>1, <1>2, <2>1, <2>2, TypeCorrect, RunInvariant, PTL DEF Spec
<1> QED
  BY <1>2

-----------------------------------------------------------------------------
(* Keys *)

\* No supplier is stocked with a key twice.
KeysDistinct ==
    \A s \in Suppliers : \A i, k \in DOMAIN StartKeys[s] :
        StartKeys[s][i] = StartKeys[s][k] => i = k

\* A key is in the pool once, or bound to a request.
KeysApart ==
    \A s \in Suppliers :
        /\ \A i, k \in DOMAIN free[s] : free[s][i] = free[s][k] => i = k
        /\ \A o \in Orders, i \in DOMAIN free[s] : free[s][i] # issued[s][o]

\* The pool of one supplier changed.
LEMMA KeysOfPool ==
    ASSUME KeysApart, NEW s \in Suppliers, NEW q, free'[s] = q,
           \A i, k \in DOMAIN q : q[i] = q[k] => i = k,
           \A o \in Orders, i \in DOMAIN q : q[i] # issued'[s][o],
           \A r \in Suppliers \ {s} : free'[r] = free[r],
           \A r \in Suppliers \ {s}, o \in Orders : issued'[r][o] = issued[r][o]
    PROVE  KeysApart'
<1> SUFFICES ASSUME NEW r \in Suppliers
             PROVE  /\ \A i, k \in DOMAIN free'[r] : free'[r][i] = free'[r][k] => i = k
                    /\ \A o \in Orders, i \in DOMAIN free'[r] : free'[r][i] # issued'[r][o]
  BY DEF KeysApart
<1>1. CASE r = s
  BY <1>1
<1>2. CASE r # s
  BY <1>2 DEF KeysApart
<1> QED
  BY <1>1, <1>2

\* A key leaves the pool for the request it is bound to.
LEMMA KeysOfIssue ==
    ASSUME TypeOK, KeysApart, NEW s \in Suppliers, NEW o \in Orders,
           CanIssue(s, o), KeyStoreIssue(s, o)
    PROVE  /\ KeysApart'
           /\ \A r \in Suppliers, p \in Orders :
                 issued[r][p] # NoCode => issued'[r][p] = issued[r][p]
           /\ issued'[s][o] = CodeFor(s, o)
<1>1. CASE issued[s][o] # NoCode
  BY <1>1 DEF KeyStoreIssue, KeysApart, CodeFor
<1>2. CASE issued[s][o] = NoCode
  <2> DEFINE q == free[s]
  <2>1. /\ q \in Seq(Codes) /\ q # <<>>
        /\ issued' = [issued EXCEPT ![s][o] = Head(q)]
        /\ free' = [free EXCEPT ![s] = Tail(q)]
    BY <1>2 DEF KeyStoreIssue, CanIssue, TypeOK
  <2>2. /\ issued'[s][o] = Head(q)
        /\ \A r \in Suppliers, p \in Orders : r # s \/ p # o => issued'[r][p] = issued[r][p]
        /\ free'[s] = Tail(q)
        /\ \A r \in Suppliers \ {s} : free'[r] = free[r]
    BY <2>1 DEF TypeOK
  <2>3. /\ Head(q) = q[1] /\ 1 \in DOMAIN q
        /\ \A i \in DOMAIN Tail(q) : /\ Tail(q)[i] = q[i + 1]
                                     /\ i + 1 \in DOMAIN q
                                     /\ i \in Nat /\ i # 0
    BY <2>1
  <2>4. \A i, k \in DOMAIN q : q[i] = q[k] => i = k
    BY DEF KeysApart
  <2>5. \A p \in Orders, i \in DOMAIN q : q[i] # issued[s][p]
    BY DEF KeysApart
  <2> HIDE DEF q
  <2>6. \A i, k \in DOMAIN Tail(q) : Tail(q)[i] = Tail(q)[k] => i = k
    BY <2>3, <2>4
  <2>7. \A p \in Orders, i \in DOMAIN Tail(q) : Tail(q)[i] # issued'[s][p]
    <3> SUFFICES ASSUME NEW p \in Orders, NEW i \in DOMAIN Tail(q)
                 PROVE  q[i + 1] # issued'[s][p]
      BY <2>3
    <3>1. CASE p = o
      <4>1. i + 1 # 1 /\ i + 1 \in DOMAIN q
        BY <2>3
      <4>2. q[i + 1] # q[1]
        BY <2>3, <2>4, <4>1
      <4> QED
        BY <2>2, <2>3, <3>1, <4>2
    <3>2. CASE p # o
      BY <2>2, <2>3, <2>5, <3>2
    <3> QED
      BY <3>1, <3>2
  <2>8. KeysApart'
    BY <2>2, <2>6, <2>7, KeysOfPool
  <2> QED
    BY <1>2, <2>2, <2>8 DEF CodeFor, q
<1> QED
  BY <1>1, <1>2

LEMMA KeysOfRestock ==
    ASSUME TypeOK, KeysApart, NEW s \in Suppliers, Restock(s)
    PROVE  KeysApart'
<1>1. PICK key \in RestockKeys[s] :
          /\ \A i \in DOMAIN free[s] : free[s][i] # key
          /\ \A o \in Orders : issued[s][o] # key
          /\ free' = [free EXCEPT ![s] = Append(@, key)]
  BY DEF Restock
<1> DEFINE q == free[s]
<1>2. /\ q \in Seq(Codes)
      /\ free'[s] = Append(q, key)
      /\ \A r \in Suppliers \ {s} : free'[r] = free[r]
      /\ issued' = issued
  BY <1>1 DEF TypeOK, Restock
<1>3. /\ Len(q) \in Nat
      /\ DOMAIN q = 1 .. Len(q)
      /\ DOMAIN Append(q, key) = 1 .. (Len(q) + 1)
      /\ \A i \in 1 .. Len(q) : Append(q, key)[i] = q[i]
      /\ Append(q, key)[Len(q) + 1] = key
  <2>1. key \in Codes
    BY DeliveryAssumption DEF DeliveryAssumption
  <2> HIDE DEF q
  <2> QED
    BY <1>2, <2>1
<1>4. /\ \A i, k \in DOMAIN q : q[i] = q[k] => i = k
      /\ \A p \in Orders, i \in DOMAIN q : q[i] # issued[s][p]
      /\ \A i \in DOMAIN q : q[i] # key
  BY <1>1 DEF KeysApart
<1> HIDE DEF q
<1>5. \A i, k \in DOMAIN Append(q, key) : Append(q, key)[i] = Append(q, key)[k] => i = k
  BY <1>3, <1>4
<1>6. \A p \in Orders, i \in DOMAIN Append(q, key) : Append(q, key)[i] # issued[s][p]
  BY <1>1, <1>3, <1>4
<1> QED
  BY <1>2, <1>5, <1>6, KeysOfPool

LEMMA EveryPool ==
    ASSUME TypeOK, [Next]_vars
    PROVE  \/ UNCHANGED <<free, issued>>
           \/ \E s \in Suppliers, o \in Orders : CanIssue(s, o) /\ KeyStoreIssue(s, o)
           \/ \E s \in Suppliers : Restock(s)
<1>1. ASSUME NEW w \in Workers, NEW j \in JobIds, SupplierIssues(w, j) \/ AnswerLost(w, j)
      PROVE  \E s \in Suppliers, o \in Orders : CanIssue(s, o) /\ KeyStoreIssue(s, o)
  BY <1>1 DEF SupplierIssues, AnswerLost, NothingLearnt, TypeOK, RecordsWhole
<1>2. ASSUME NEW w \in Workers, NEW j \in JobIds,
             TaskStep(w, j) \/ DatabaseFails(w, j) \/ SupplierRefuses(w, j)
                 \/ ConnectFails(w, j) \/ RequestLost(w, j) \/ RequestDelayed(w, j)
      PROVE  UNCHANGED <<free, issued>>
  BY <1>2 DEF TaskStep, PrepareSkips, PrepareEnds, PrepareTargets, SuccessConflicts,
     RecordSuccess, RecordSuperseded, RecordRefusal, RecordUnknown, FinishJob,
     RescheduleJob, RescheduleBreaks, Drop, SupplierRefuses, ConnectFails,
     RequestLost, RequestDelayed, DatabaseFails, suppliers
<1>3. ASSUME NEW w \in Workers, Claim(w) \/ SweepStep(w) \/ SweepFails(w) \/ Crash(w)
      PROVE  UNCHANGED <<free, issued>>
  BY <1>3 DEF Claim, SweepStep, SweepRequeue, SweepCollect, SweepReset, SweepEnqueue,
     SweepFails, Crash, Drop, suppliers
<1>4. ASSUME NEW o \in Orders, Pay(o) \/ FailPayment(o) \/ RetryResets(o) \/ RetryEnqueues(o)
      PROVE  UNCHANGED <<free, issued>>
  BY <1>4 DEF Pay, FailPayment, RetryResets, RetryEnqueues, suppliers
<1>5. CASE LateRequestServed
  <2>1. PICK request \in late :
            IF CanIssue(request[2], request[1])
            THEN KeyStoreIssue(request[2], request[1]) ELSE UNCHANGED <<free, issued>>
    BY <1>5 DEF LateRequestServed
  <2>2. request[1] \in Orders /\ request[2] \in Suppliers
    BY DEF TypeOK
  <2> QED
    BY <2>1, <2>2
<1>6. CASE UNCHANGED vars
  BY <1>6 DEF vars
<1> QED
  BY <1>1, <1>2, <1>3, <1>4, <1>5, <1>6 DEF Next, ExchangeStep

LEMMA PoolStep ==
    ASSUME TypeOK, KeysApart, [Next]_vars
    PROVE  KeysApart'
<1>1. CASE UNCHANGED <<free, issued>>
  BY <1>1 DEF KeysApart
<1> QED
  BY <1>1, EveryPool, KeysOfIssue, KeysOfRestock
===============================================================================
