------------------------------ MODULE DeliveryCalm ------------------------------
(***************************************************************************)
(* Exactly once: under the assumptions of the design (Calm) the pipeline   *)
(* implements ExactlyOnce.  A code that a supplier has bound is asked for  *)
(* again until it is handed over, because a job stays with the order for   *)
(* as long as an outcome is open.                                          *)
(***************************************************************************)
EXTENDS DeliveryRuns, WellFoundedInduction

-----------------------------------------------------------------------------
(* The assumptions of the design *)

\* One worker process at a time, so that a sweep never acts on what it read
\* before a run of the same order.
OneWorker == \A w, v \in Workers : w = v

\* Every failure of an attempt costs a disturbance or a supplier: a job has
\* more attempts than that.
Setbacks(b) == b["crash"] + b["db_error"] + b["no_answer"]

PatientJobs == Setbacks(Budget) + Len(SupplierChain) <= job_max_attempts

\* What a supplier may ever have in its pool.
Stock(s) == {StartKeys[s][i] : i \in DOMAIN StartKeys[s]} \cup RestockKeys[s]

StocksApart == \A s, r \in Suppliers : s # r => Stock(s) \cap Stock(r) = {}

Calm == /\ NoStall
        /\ NoLateIssue
        /\ Budget["retry"] = 0
        /\ OneWorker
        /\ PatientJobs
        /\ Suppliers # {}
        /\ KeysDistinct
        /\ StocksApart

-----------------------------------------------------------------------------
(* The invariant of one order *)

\* The supplier at position i of the chain is the next to be asked.
IsNext(o, i) ==
    /\ i \in DOMAIN SupplierChain
    /\ rows[o][SupplierChain[i]].status \in OpenStatuses
    /\ \A k \in 1 .. i - 1 : rows[o][SupplierChain[k]].status \in PassedStatuses

NextIs(o, s) == \E i \in DOMAIN SupplierChain : IsNext(o, i) /\ SupplierChain[i] = s

NobodyNext(o) == \A i \in DOMAIN SupplierChain : ~IsNext(o, i)

\* A supplier has, or may have, bound a code that is not handed over.
Asked(o, s) == \/ rows[o][s].status = "unknown"
               \/ issued[s][o] # NoCode /\ rows[o][s].status # "succeeded"

\* An attempt that can still succeed, and one that leaves its job finished.
InProgress(t) == \/ t.pc \in {"prepare", "call"}
                 \/ t.pc = "record" /\ t.result # "unknown"

Ending(t) == t.pc = "settle" /\ t.result \notin RetryOutcomes \cup {"crashed"}

\* The attempts a job has needed once the one in progress, or the next, is over
\* without a result.
Tries(j) == IF \E w \in Workers : InProgress(tasks[w][j])
            THEN jobs[j].attempts ELSE jobs[j].attempts + 1

\* An order at rest is nobody's: no job, no task.
Resting(o) == orderStatus[o] \in UNSETTLED_STATUSES /\ ActiveJobs(o) = {}

UnpaidHasNoJob(o) ==
    orderStatus[o] \in {"created", "payment_failed"} => \A j \in JobIds : jobs[j].order # o

PaidIsFresh(o) ==
    orderStatus[o] = "paid" => /\ ActiveJobs(o) # {}
                               /\ \A s \in Suppliers : rows[o][s].status = "absent"

AskedIsNext(o) ==
    \A s \in Suppliers : Asked(o, s) => /\ orderStatus[o] = "delivering"
                                        /\ ActiveJobs(o) # {}
                                        /\ NextIs(o, s)

TaskOf(o, w, j) ==
    LET t == tasks[w][j]
    IN  t.pc # "idle" /\ t.order = o =>
            /\ t.pc # "supersede"
            /\ t.attempt = jobs[j].attempts
            /\ t.pc \in {"call", "record"} => NextIs(o, t.supplier)
            /\ Ending(t) => NobodyNext(o)

EnoughTries(o, j) ==
    /\ jobs[j].order = o
    /\ jobs[j].state \in ActiveStates
    => \A i \in DOMAIN SupplierChain :
           IsNext(o, i) => Tries(j) + Setbacks(budget) <= Setbacks(Budget) + i

SweptRests(o, w) ==
    \/ sweeps[w].pc \in {"reset", "enqueue"} /\ o \in sweeps[w].todo
    \/ sweeps[w].pc = "enqueue" /\ o = sweeps[w].current
    => Resting(o)

NotTwice(w) == sweeps[w].pc = "enqueue" => sweeps[w].current \notin sweeps[w].todo

DeliveredIsOver(o) == orderStatus[o] = "delivered" => NobodyNext(o)

SuccessIsPlain(o) ==
    \A s \in Suppliers : rows[o][s].status = "succeeded" => rows[o][s].reason = "none"

CalmOf(o) == /\ UnpaidHasNoJob(o)
             /\ PaidIsFresh(o)
             /\ AskedIsNext(o)
             /\ \A w \in Workers, j \in JobIds : TaskOf(o, w, j)
             /\ \A j \in JobIds : EnoughTries(o, j)
             /\ \A w \in Workers : SweptRests(o, w)
             /\ DeliveredIsOver(o)
             /\ SuccessIsPlain(o)

\* Keys are bound to one request each.
KeysInStock ==
    \A s \in Suppliers :
        /\ \A i \in DOMAIN free[s] : free[s][i] \in Stock(s)
        /\ \A o \in Orders : issued[s][o] \in Stock(s) \cup {NoCode}
        /\ \A o, p \in Orders :
              issued[s][o] = issued[s][p] /\ issued[s][o] # NoCode => o = p

CalmInv ==
    /\ Setbacks(budget) <= Setbacks(Budget)
    /\ budget["retry"] = 0 /\ retrying = {}
    /\ \A w \in Workers : NotTwice(w) /\ (sweeps[w].pc # "off" => ~Busy(w))
    /\ KeysApart
    /\ KeysInStock
    /\ \A o \in Orders : CalmOf(o)

-----------------------------------------------------------------------------
(* Who is asked next *)

LEMMA ChainIsNumbered ==
    /\ Len(SupplierChain) \in Nat
    /\ DOMAIN SupplierChain = 1 .. Len(SupplierChain)
    /\ \A i \in DOMAIN SupplierChain : SupplierChain[i] \in Suppliers
BY ChainAssumption DEF ChainAssumption, Suppliers

LEMMA NextIsUnique ==
    ASSUME NEW o, NEW i, NEW k, IsNext(o, i), IsNext(o, k)
    PROVE  i = k
<1>1. i \in Nat /\ k \in Nat
  BY ChainIsNumbered DEF IsNext
<1>2. \A status \in OpenStatuses : status \notin PassedStatuses
  BY DEF OpenStatuses, PassedStatuses
<1>3. ~(i < k) /\ ~(k < i)
  BY <1>1, <1>2, ChainIsNumbered DEF IsNext
<1> QED
  BY <1>1, <1>3

\* choose_supplier finds the position where the chain stands.
StandsAt(f, i) == /\ f[SupplierChain[i]] \in OpenStatuses
                  /\ \A k \in 1 .. i - 1 : f[SupplierChain[k]] \in PassedStatuses

LEMMA ChooseFinds ==
    ASSUME NEW f
    PROVE  /\ choose_supplier(f) # NoSupplier =>
                  \E i \in DOMAIN SupplierChain :
                      StandsAt(f, i) /\ choose_supplier(f) = SupplierChain[i]
           /\ choose_supplier(f) = NoSupplier =>
                  \A i \in DOMAIN SupplierChain : ~StandsAt(f, i)
<1> DEFINE A == {i \in DOMAIN SupplierChain : StandsAt(f, i)}
<1>1. choose_supplier(f) = IF A = {} THEN NoSupplier
                           ELSE SupplierChain[CHOOSE i \in A : TRUE]
  BY DEF choose_supplier, StandsAt
<1>2. \A i \in DOMAIN SupplierChain : SupplierChain[i] # NoSupplier
  BY ChainAssumption DEF ChainAssumption
<1>3. A # {} => (CHOOSE i \in A : TRUE) \in A
  OBVIOUS
<1>4. \A i : i \in A <=> i \in DOMAIN SupplierChain /\ StandsAt(f, i)
  OBVIOUS
<1> HIDE DEF A
<1> QED
  BY <1>1, <1>2, <1>3, <1>4

\* Every set of positions has a first one.
LEMMA FirstPosition ==
    ASSUME NEW S \in SUBSET Nat, S # {}
    PROVE  \E m \in S : \A k \in S : m <= k
<1>1. PICK m \in S : \A k \in S : <<k, m>> \notin OpToRel(<, Nat)
  BY NatLessThanWellFounded, WFMin
<1>2. \A k \in S : ~(k < m)
  BY <1>1 DEF OpToRel
<1> QED
  BY <1>2

\* choose_supplier is the loop of the code, for a chain of any length: answer[i]
\* is what the loop returns once it has come to position i, and after the last
\* position it returns nobody (fallback.py:choose_supplier).
THEOREM ChoiceIsTheLoop ==
    ASSUME NEW f \in [Suppliers -> DeliveryStatus], NEW answer,
           answer[Len(SupplierChain) + 1] = NoSupplier,
           \A i \in DOMAIN SupplierChain :
               answer[i] = IF f[SupplierChain[i]] \in OpenStatuses THEN SupplierChain[i]
                           ELSE IF f[SupplierChain[i]] = "succeeded" THEN NoSupplier
                           ELSE answer[i + 1]
    PROVE  answer[1] = choose_supplier(f)
<1> DEFINE n == Len(SupplierChain)
           Stops(i) == i = n + 1 \/ f[SupplierChain[i]] \notin PassedStatuses
<1>1. n \in Nat /\ DOMAIN SupplierChain = 1 .. n
  BY ChainIsNumbered
<1>2. \A i \in 1 .. n : f[SupplierChain[i]] \in DeliveryStatus
  BY <1>1, ChainIsNumbered
<1>3. PICK m \in 1 .. n + 1 : Stops(m) /\ \A k \in 1 .. n + 1 : Stops(k) => m <= k
  <2> DEFINE S == {i \in 1 .. n + 1 : Stops(i)}
  <2>1. S \in SUBSET Nat /\ n + 1 \in S
    BY <1>1
  <2>2. \E i \in S : \A k \in S : i <= k
    BY <2>1, FirstPosition
  <2> QED
    BY <2>2
<1>4. \A k \in 1 .. n : k < m => f[SupplierChain[k]] \in PassedStatuses
  BY <1>1, <1>3
<1>5. answer[1] = answer[m]
  <2> DEFINE S == {k \in 1 .. m : answer[k] # answer[1]}
  <2> SUFFICES ASSUME S # {} PROVE FALSE
    BY <1>1, <1>3
  <2>1. S \in SUBSET Nat
    BY <1>1, <1>3
  <2>2. PICK q \in S : \A k \in S : q <= k
    BY <2>1, FirstPosition
  <2>3. q \in 2 .. m /\ q - 1 \in 1 .. n /\ q - 1 < m /\ answer[q - 1] = answer[1]
    BY <1>1, <1>3, <2>2
  <2>4. f[SupplierChain[q - 1]] \in PassedStatuses
    BY <1>4, <2>3
  <2>5. answer[q - 1] = answer[q]
    BY <1>1, <2>3, <2>4 DEF PassedStatuses, OpenStatuses
  <2> QED
    BY <2>2, <2>3, <2>5
<1>6. \A i \in 1 .. n : StandsAt(f, i) => i = m
  <2> SUFFICES ASSUME NEW i \in 1 .. n, StandsAt(f, i) PROVE i = m
    OBVIOUS
  <2>1. ~(i < m)
    BY <1>4 DEF StandsAt, OpenStatuses, PassedStatuses
  <2>2. ~(m < i)
    BY <1>1, <1>3 DEF StandsAt
  <2> QED
    BY <1>1, <2>1, <2>2
<1>7. CASE m = n + 1
  <2>1. \A i \in 1 .. n : ~StandsAt(f, i)
    BY <1>1, <1>6, <1>7
  <2> QED
    BY <1>1, <1>5, <1>7, <2>1, ChooseFinds
<1>8. CASE m \in 1 .. n /\ f[SupplierChain[m]] \in OpenStatuses
  <2>1. StandsAt(f, m)
    BY <1>1, <1>4, <1>8 DEF StandsAt
  <2>2. answer[m] = SupplierChain[m]
    BY <1>1, <1>8
  <2> QED
    BY <1>1, <1>5, <1>6, <1>8, <2>1, <2>2, ChooseFinds
<1>9. CASE m \in 1 .. n /\ f[SupplierChain[m]] \notin OpenStatuses
  <2>1. f[SupplierChain[m]] = "succeeded"
    BY <1>1, <1>2, <1>3, <1>9 DEF DeliveryStatus, OpenStatuses, PassedStatuses
  <2>2. answer[m] = NoSupplier
    BY <1>1, <1>9, <2>1
  <2>3. \A i \in 1 .. n : ~StandsAt(f, i)
    BY <1>6, <1>9 DEF StandsAt
  <2> QED
    BY <1>1, <1>5, <2>2, <2>3, ChooseFinds
<1> QED
  BY <1>1, <1>3, <1>7, <1>8, <1>9

LEMMA ChosenIsNext ==
    ASSUME NEW o
    PROVE  LET s == choose_supplier(statuses(o))
           IN  /\ s # NoSupplier => NextIs(o, s)
               /\ s = NoSupplier => NobodyNext(o)
               /\ \A i \in DOMAIN SupplierChain : IsNext(o, i) => SupplierChain[i] = s
<1> DEFINE f == statuses(o)
           s == choose_supplier(f)
<1>1. \A i \in DOMAIN SupplierChain : f[SupplierChain[i]] = rows[o][SupplierChain[i]].status
  BY ChainIsNumbered DEF statuses
<1>2. \A i \in DOMAIN SupplierChain : \A k \in 1 .. i - 1 : k \in DOMAIN SupplierChain
  BY ChainIsNumbered
<1>3. \A i \in DOMAIN SupplierChain :
          IsNext(o, i) <=> StandsAt(f, i)
  BY <1>1, <1>2 DEF IsNext, StandsAt
<1> HIDE DEF f
<1>4. s # NoSupplier => NextIs(o, s)
  BY <1>3, ChooseFinds DEF NextIs
<1>5. s = NoSupplier => NobodyNext(o)
  BY <1>3, ChooseFinds DEF NobodyNext
<1>6. \A i \in DOMAIN SupplierChain : IsNext(o, i) => SupplierChain[i] = s
  BY <1>4, <1>5, NextIsUnique DEF NextIs, NobodyNext
<1> QED
  BY <1>4, <1>5, <1>6 DEF f

\* Only one supplier is next.
LEMMA OneIsNext ==
    ASSUME NEW o, NEW s, NEW r, NextIs(o, s), NextIs(o, r)
    PROVE  s = r
BY NextIsUnique DEF NextIs

\* Who is next depends on the row statuses alone.
LEMMA NextKept ==
    ASSUME NEW o, NEW i, rows'[o] = rows[o]
    PROVE  IsNext(o, i)' = IsNext(o, i)
BY DEF IsNext

-----------------------------------------------------------------------------
(* Steps that leave an order alone *)

LEMMA SetbacksType ==
    ASSUME NEW b \in [Disturbance -> Nat]
    PROVE  Setbacks(b) \in Nat
<1>1. "crash" \in Disturbance /\ "db_error" \in Disturbance /\ "no_answer" \in Disturbance
  BY DEF Disturbance
<1>2. b["crash"] \in Nat /\ b["db_error"] \in Nat /\ b["no_answer"] \in Nat
  BY <1>1
<1> QED
  BY <1>2 DEF Setbacks

LEMMA BudgetsType ==
    ASSUME TypeOK
    PROVE  Setbacks(budget) \in Nat /\ Setbacks(Budget) \in Nat
BY SetbacksType, DeliveryAssumption DEF TypeOK, DeliveryAssumption

LEMMA OrderKept ==
    ASSUME TypeOK, TypeOK', NEW o \in Orders, CalmOf(o),
           orderStatus'[o] = orderStatus[o], rows'[o] = rows[o],
           \A s \in Suppliers : issued'[s][o] = issued[s][o],
           \A j \in JobIds : jobs'[j].order = o =>
               jobs'[j] = jobs[j] /\ \A w \in Workers : tasks'[w][j] = tasks[w][j],
           \A j \in JobIds :
               jobs[j].order = o /\ jobs[j].state \in ActiveStates => jobs'[j] = jobs[j],
           Setbacks(budget') <= Setbacks(budget),
           \A w \in Workers : SweptRests(o, w)'
    PROVE  CalmOf(o)'
<1>1. ActiveJobs(o)' = ActiveJobs(o)
  BY DEF ActiveJobs
<1>2. \A i : IsNext(o, i)' = IsNext(o, i)
  BY DEF IsNext
<1>3. /\ \A s : NextIs(o, s)' = NextIs(o, s)
      /\ NobodyNext(o)' = NobodyNext(o)
  BY <1>2 DEF NextIs, NobodyNext
<1>4. \A s \in Suppliers : Asked(o, s)' = Asked(o, s)
  BY DEF Asked
<1>5. UnpaidHasNoJob(o)' /\ PaidIsFresh(o)' /\ AskedIsNext(o)' /\ DeliveredIsOver(o)'
      /\ SuccessIsPlain(o)'
  BY <1>1, <1>3, <1>4 DEF CalmOf, UnpaidHasNoJob, PaidIsFresh, AskedIsNext,
     DeliveredIsOver, SuccessIsPlain
<1>6. ASSUME NEW w \in Workers, NEW j \in JobIds PROVE TaskOf(o, w, j)'
  <2> SUFFICES ASSUME tasks'[w][j].pc # "idle", tasks'[w][j].order = o
               PROVE  TaskOf(o, w, j)'
    BY DEF TaskOf
  <2>1. jobs'[j].order = o
    BY DEF TypeOK, RecordsWhole
  <2>2. TaskOf(o, w, j) /\ jobs'[j] = jobs[j] /\ tasks'[w][j] = tasks[w][j]
    BY <2>1 DEF CalmOf
  <2> QED
    BY <1>3, <2>2 DEF TaskOf, Ending
<1>7. ASSUME NEW j \in JobIds PROVE EnoughTries(o, j)'
  <2> SUFFICES ASSUME jobs'[j].order = o, jobs'[j].state \in ActiveStates,
                      NEW i \in DOMAIN SupplierChain, IsNext(o, i)'
               PROVE  Tries(j)' + Setbacks(budget') <= Setbacks(Budget) + i
    BY DEF EnoughTries, Setbacks
  <2>1. jobs'[j] = jobs[j] /\ \A w \in Workers : tasks'[w][j] = tasks[w][j]
    OBVIOUS
  <2>2. Tries(j)' = Tries(j)
    BY <2>1 DEF Tries, InProgress
  <2>3. Tries(j) + Setbacks(budget) <= Setbacks(Budget) + i
    BY <1>2, <2>1 DEF CalmOf, EnoughTries
  <2>4. /\ Tries(j) \in Nat /\ i \in Nat
        /\ Setbacks(budget) \in Nat /\ Setbacks(budget') \in Nat /\ Setbacks(Budget) \in Nat
    <3>1. Tries(j) \in Nat
      BY DEF Tries, TypeOK, Job
    <3>2. budget' \in [Disturbance -> Nat]
      BY DEF TypeOK
    <3> QED
      BY <3>1, <3>2, BudgetsType, SetbacksType, ChainIsNumbered
  <2> QED
    BY <2>2, <2>3, <2>4
<1> QED
  BY <1>5, <1>6, <1>7 DEF CalmOf

\* An order that a task works on is in nobody else's hands, and no sweep is on.
LEMMA RunAlone ==
    ASSUME TypeOK, RunInv, CalmInv, OneWorker,
           NEW w \in Workers, NEW j \in JobIds, tasks[w][j].pc # "idle"
    PROVE  /\ tasks[w][j].order \in Orders
           /\ jobs[j].order = tasks[w][j].order
           /\ jobs[j].state = "running"
           /\ ActiveJobs(tasks[w][j].order) = {j}
           /\ \A v \in Workers, k \in JobIds :
                 tasks[v][k].pc # "idle" /\ tasks[v][k].order = tasks[w][j].order =>
                     v = w /\ k = j
           /\ \A v \in Workers : sweeps[v].pc = "off" /\ v = w
           /\ CalmOf(tasks[w][j].order)
           /\ TaskOf(tasks[w][j].order, w, j)
           /\ EnoughTries(tasks[w][j].order, j)
<1> DEFINE o == tasks[w][j].order
<1>1. o \in Orders /\ jobs[j].order = o
  BY DEF TypeOK, RecordsWhole
<1>2. jobs[j].state = "running" /\ j \in ActiveJobs(o)
  BY <1>1 DEF RunInv, QueueInv, HeldRuns, ActiveJobs, ActiveStates
<1>3. \A k \in ActiveJobs(o) : k = j
  BY <1>2 DEF RunInv, QueueInv, UniqueActive, ActiveJobs
<1>4. \A v \in Workers, k \in JobIds :
          tasks[v][k].pc # "idle" /\ tasks[v][k].order = o => v = w /\ k = j
  BY OneRun DEF RunInv, OneRunPerOrder
<1>5. \A v \in Workers : sweeps[v].pc = "off" /\ v = w
  BY DEF OneWorker, CalmInv, Busy
<1>6. CalmOf(o) /\ TaskOf(o, w, j) /\ EnoughTries(o, j)
  BY <1>1 DEF CalmInv, CalmOf
<1> QED
  BY <1>1, <1>2, <1>3, <1>4, <1>5, <1>6

-----------------------------------------------------------------------------
(* Steps of a task *)

\* A task goes on, with the order o it works on; the others are left alone.
LEMMA TaskGoesOn ==
    ASSUME TypeOK, TypeOK', RunInv, CalmInv, OneWorker,
           NEW w \in Workers, NEW j \in JobIds, tasks[w][j].pc # "idle",
           NEW o \in Orders, tasks[w][j].order = o,
           NEW u, Become(w, j, u), u.order = o, u.attempt = tasks[w][j].attempt,
           u.pc \notin {"idle", "supersede"},
           UNCHANGED <<jobs, sweeps>>,
           \A p \in Orders \ {o} : /\ orderStatus'[p] = orderStatus[p]
                                   /\ rows'[p] = rows[p]
                                   /\ \A s \in Suppliers : issued'[s][p] = issued[s][p],
           Setbacks(budget') <= Setbacks(budget),
           \/ orderStatus'[o] = orderStatus[o] /\ rows'[o] = rows[o]
           \/ orderStatus'[o] \notin {"created", "payment_failed", "paid"},
           \A s \in Suppliers :
               Asked(o, s)' => orderStatus'[o] = "delivering" /\ NextIs(o, s)',
           u.pc \in {"call", "record"} => NextIs(o, u.supplier)',
           Ending(u) => NobodyNext(o)',
           DeliveredIsOver(o)', SuccessIsPlain(o)',
           \A i \in DOMAIN SupplierChain :
               IsNext(o, i)' =>
                   (IF InProgress(u) THEN u.attempt ELSE u.attempt + 1) + Setbacks(budget')
                       <= Setbacks(Budget) + i
    PROVE  \A p \in Orders : CalmOf(p)'
<1>1. /\ jobs[j].order = o /\ ActiveJobs(o) = {j}
      /\ \A v \in Workers, k \in JobIds :
            tasks[v][k].pc # "idle" /\ tasks[v][k].order = o => v = w /\ k = j
      /\ \A v \in Workers : sweeps[v].pc = "off" /\ v = w
      /\ CalmOf(o) /\ TaskOf(o, w, j)
  BY RunAlone
<1>2. /\ tasks'[w][j] = u
      /\ \A v \in Workers, k \in JobIds : k # j => tasks'[v][k] = tasks[v][k]
  BY <1>1 DEF Become, TypeOK
<1>3. \A p \in Orders, v \in Workers : SweptRests(p, v)'
  BY <1>1 DEF SweptRests
<1>4. ASSUME NEW p \in Orders \ {o} PROVE CalmOf(p)'
  <2>1. CalmOf(p)
    BY DEF CalmInv
  <2>2. \A k \in JobIds : jobs'[k].order = p => k # j
    BY <1>1
  <2> QED
    BY <1>2, <1>3, <2>1, <2>2, OrderKept
<1>5. ActiveJobs(o)' = {j}
  BY <1>1 DEF ActiveJobs
<1>6. UnpaidHasNoJob(o)'
  BY <1>1 DEF CalmOf, UnpaidHasNoJob
<1>7. PaidIsFresh(o)'
  BY <1>1, <1>5 DEF CalmOf, PaidIsFresh
<1>8. AskedIsNext(o)'
  BY <1>5 DEF AskedIsNext
<1>9. ASSUME NEW v \in Workers, NEW k \in JobIds PROVE TaskOf(o, v, k)'
  <2> SUFFICES ASSUME tasks'[v][k].pc # "idle", tasks'[v][k].order = o
               PROVE  TaskOf(o, v, k)'
    BY DEF TaskOf
  <2>1. v = w /\ k = j
    BY <1>1, <1>2
  <2>2. tasks[w][j].attempt = jobs[j].attempts
    BY <1>1 DEF TaskOf
  <2> QED
    BY <1>2, <2>1, <2>2 DEF TaskOf, Ending
<1>10. ASSUME NEW k \in JobIds PROVE EnoughTries(o, k)'
  <2> SUFFICES ASSUME jobs'[k].order = o, jobs'[k].state \in ActiveStates,
                      NEW i \in DOMAIN SupplierChain, IsNext(o, i)'
               PROVE  Tries(k)' + Setbacks(budget') <= Setbacks(Budget) + i
    BY DEF EnoughTries, Setbacks
  <2>1. k = j
    BY <1>1 DEF ActiveJobs
  <2>2. tasks[w][j].attempt = jobs[j].attempts
    BY <1>1 DEF TaskOf
  <2>3. Tries(j)' = IF InProgress(u) THEN u.attempt ELSE u.attempt + 1
    BY <1>1, <1>2, <2>2 DEF Tries, InProgress
  <2> QED
    BY <2>1, <2>3
<1>11. CalmOf(o)'
  BY <1>3, <1>6, <1>7, <1>8, <1>9, <1>10 DEF CalmOf
<1> QED
  BY <1>4, <1>11

LEMMA TaskFields ==
    ASSUME NEW t \in Task
    PROVE  /\ \A r : LET u == Settling(t, r)
                     IN  /\ u.pc = "settle" /\ u.result = r
                         /\ u.order = t.order /\ u.attempt = t.attempt
           /\ \A s : LET u == Asking(t, s)
                     IN  /\ u.pc = "call" /\ u.supplier = s
                         /\ u.order = t.order /\ u.attempt = t.attempt
           /\ \A a, c, r : LET u == Answered(t, a, c, r)
                           IN  /\ u.pc = "record" /\ u.result = a
                               /\ u.supplier = t.supplier
                               /\ u.order = t.order /\ u.attempt = t.attempt
BY DEF Settling, Claimed, Idle, Asking, Answered, Task

\* A paid order has somebody to ask, and so has an order with a code to fetch.
LEMMA NobodyLeft ==
    ASSUME TypeOK, NEW o \in Orders, CalmOf(o), NobodyNext(o), Suppliers # {}
    PROVE  /\ orderStatus[o] # "paid"
           /\ \A s \in Suppliers : ~Asked(o, s)
<1>1. ASSUME orderStatus[o] = "paid" PROVE FALSE
  <2>1. \A s \in Suppliers : rows[o][s].status = "absent"
    BY <1>1 DEF CalmOf, PaidIsFresh
  <2>2. 1 \in DOMAIN SupplierChain
    BY ChainIsNumbered DEF Suppliers
  <2>3. IsNext(o, 1)
    BY <2>1, <2>2, ChainIsNumbered DEF IsNext, OpenStatuses
  <2> QED
    BY <2>2, <2>3 DEF NobodyNext
<1>2. \A s \in Suppliers : ~Asked(o, s)
  BY DEF CalmOf, AskedIsNext, NextIs, NobodyNext
<1> QED
  BY <1>1, <1>2

\* The bound on the attempts of the job a task works on.
LEMMA TriesLeft ==
    ASSUME TypeOK, RunInv, CalmInv, OneWorker,
           NEW w \in Workers, NEW j \in JobIds, tasks[w][j].pc # "idle",
           NEW i \in DOMAIN SupplierChain, IsNext(tasks[w][j].order, i)
    PROVE  LET t == tasks[w][j]
           IN  /\ t.attempt = jobs[j].attempts
               /\ t.attempt \in Nat
               /\ (IF InProgress(t) THEN t.attempt ELSE t.attempt + 1) + Setbacks(budget)
                      <= Setbacks(Budget) + i
<1> DEFINE t == tasks[w][j]
<1>1. TaskOf(t.order, w, j) /\ EnoughTries(t.order, j) /\ jobs[j].order = t.order
      /\ jobs[j].state \in ActiveStates /\ \A v \in Workers : v = w
  BY RunAlone DEF ActiveStates
<1>2. t.attempt = jobs[j].attempts /\ t.attempt \in Nat
  BY <1>1 DEF TaskOf, TypeOK, Task
<1>3. Tries(j) = IF InProgress(t) THEN t.attempt ELSE t.attempt + 1
  BY <1>1, <1>2 DEF Tries
<1>4. Tries(j) + Setbacks(budget) <= Setbacks(Budget) + i
  BY <1>1 DEF EnoughTries
<1> QED
  BY <1>2, <1>3, <1>4

LEMMA CalmSkips ==
    ASSUME TypeOK, TypeOK', RunInv, CalmInv, OneWorker,
           NEW w \in Workers, NEW j \in JobIds, PrepareSkips(w, j)
    PROVE  \A p \in Orders : CalmOf(p)'
<1> DEFINE t == tasks[w][j]
<1>1. PICK r \in {"already_delivered", "skipped"} : Become(w, j, Settling(t, r))
  BY DEF PrepareSkips
<1>2. /\ t.pc = "prepare" /\ orderStatus[t.order] \notin DELIVERABLE_STATUSES
      /\ UNCHANGED <<orderStatus, ledger, rows, jobs, sweeps, issued, budget>>
  BY DEF PrepareSkips, database, suppliers
<1>3. t \in Task /\ t.order \in Orders /\ jobs[j].order = t.order /\ CalmOf(t.order)
  BY <1>2, RunAlone DEF TypeOK
<1>4. PICK o \in Orders : o = t.order
  BY <1>3
<1>5. orderStatus[o] = "delivered"
  BY <1>2, <1>3, <1>4 DEF CalmOf, UnpaidHasNoJob, DELIVERABLE_STATUSES, TypeOK, OrderStatus
<1>6. NobodyNext(o) /\ SuccessIsPlain(o) /\ AskedIsNext(o)
  BY <1>3, <1>4, <1>5 DEF CalmOf, DeliveredIsOver
<1>7. NobodyNext(o)' /\ SuccessIsPlain(o)' /\ DeliveredIsOver(o)'
  BY <1>2, <1>6 DEF NobodyNext, SuccessIsPlain, DeliveredIsOver, IsNext
<1>8. \A s \in Suppliers : ~Asked(o, s)'
  BY <1>2, <1>5, <1>6 DEF AskedIsNext, Asked
<1>9. /\ Settling(t, r).pc = "settle" /\ Settling(t, r).order = o
      /\ Settling(t, r).attempt = t.attempt
  BY <1>3, <1>4, TaskFields
<1>10. Setbacks(budget') <= Setbacks(budget)
  BY <1>2, BudgetsType
<1> HIDE DEF t
<1> QED
  BY <1>1, <1>2, <1>4, <1>7, <1>8, <1>9, <1>10, TaskGoesOn DEF NobodyNext, t

LEMMA CalmEnds ==
    ASSUME TypeOK, TypeOK', MoneyInv, RunInv, CalmInv, OneWorker, Suppliers # {},
           NEW w \in Workers, NEW j \in JobIds, PrepareEnds(w, j)
    PROVE  \A p \in Orders : CalmOf(p)'
<1> DEFINE t == tasks[w][j]
<1>1. /\ t.pc = "prepare" /\ orderStatus[t.order] \in DELIVERABLE_STATUSES
      /\ UNCHANGED <<rows, jobs, sweeps, issued, budget>>
  BY DEF PrepareEnds, suppliers
<1>2. t \in Task /\ t.order \in Orders /\ CalmOf(t.order)
  BY <1>1, RunAlone DEF TypeOK
<1>3. PICK o \in Orders : o = t.order
  BY <1>2
<1>4. Succeeded(o) = {}
  BY <1>1, <1>3 DEF MoneyInv, SucceededImpliesDelivered, DELIVERABLE_STATUSES
<1>5. /\ choose_supplier(statuses(o)) = NoSupplier
      /\ finalize_exhausted(o, rows[o])
      /\ Become(w, j, Settling(t, ExhaustedOutcome(rows[o])))
  BY <1>3, <1>4 DEF PrepareEnds
<1>6. NobodyNext(o)
  BY <1>5, ChosenIsNext
<1>7. orderStatus[o] # "paid" /\ \A s \in Suppliers : ~Asked(o, s)
  BY <1>2, <1>3, <1>6, NobodyLeft
<1>8. /\ \A p \in Orders \ {o} : orderStatus'[p] = orderStatus[p]
      /\ orderStatus'[o] \notin {"created", "payment_failed", "paid"}
  BY <1>1, <1>3, <1>5, <1>7
  DEF finalize_exhausted, ExhaustedStatus, TypeOK, DELIVERABLE_STATUSES
<1>9. NobodyNext(o)' /\ SuccessIsPlain(o)' /\ DeliveredIsOver(o)'
  BY <1>1, <1>2, <1>3, <1>6 DEF NobodyNext, SuccessIsPlain, DeliveredIsOver, IsNext, CalmOf
<1>10. \A s \in Suppliers : ~Asked(o, s)'
  BY <1>1, <1>7 DEF Asked
<1> DEFINE u == Settling(t, ExhaustedOutcome(rows[o]))
<1>11. u.pc = "settle" /\ u.order = o /\ u.attempt = t.attempt
  BY <1>2, <1>3, TaskFields
<1>12. Setbacks(budget') <= Setbacks(budget)
  BY <1>1, BudgetsType
<1>13. \A p \in Orders \ {o} : /\ rows'[p] = rows[p]
                               /\ \A s \in Suppliers : issued'[s][p] = issued[s][p]
  BY <1>1
<1> HIDE DEF t, u
<1> QED
  BY <1>1, <1>3, <1>5, <1>8, <1>9, <1>10, <1>11, <1>12, <1>13, TaskGoesOn
  DEF NobodyNext, t, u

LEMMA CalmTargets ==
    ASSUME TypeOK, TypeOK', RunInv, CalmInv, OneWorker,
           NEW w \in Workers, NEW j \in JobIds, PrepareTargets(w, j)
    PROVE  \A p \in Orders : CalmOf(p)'
<1> DEFINE t == tasks[w][j]
<1>1. t.pc = "prepare"
  BY DEF PrepareTargets
<1>2. t \in Task /\ t.order \in Orders /\ CalmOf(t.order)
  BY <1>1, RunAlone DEF TypeOK
<1>3. PICK o \in Orders : o = t.order
  BY <1>2
<1>4. PICK s : s = choose_supplier(statuses(o))
  OBVIOUS
<1>5. /\ s # NoSupplier
      /\ orderStatus' = [orderStatus EXCEPT ![o] = "delivering"]
      /\ rows' = IF rows[o][s].status = "absent"
                 THEN record_outcome(o, s, "pending", NoCode, "none") ELSE rows
      /\ Become(w, j, Asking(t, s))
      /\ UNCHANGED <<ledger, jobs, sweeps, issued, budget>>
  BY <1>3, <1>4 DEF PrepareTargets, suppliers
<1>6. s \in Suppliers /\ NextIs(o, s)
  BY <1>4, <1>5, ChooseSupplierType, ChosenIsNext
<1>7. /\ orderStatus'[o] = "delivering"
      /\ \A p \in Orders \ {o} : orderStatus'[p] = orderStatus[p]
  BY <1>5 DEF TypeOK
<1>8. /\ \A p \in Orders \ {o} : rows'[p] = rows[p]
      /\ \A r \in Suppliers :
            \/ rows'[o][r] = rows[o][r]
            \/ rows[o][r].status = "absent" /\ rows'[o][r].status = "pending"
  BY <1>5, <1>6 DEF record_outcome, TypeOK
<1>9. \A i \in DOMAIN SupplierChain : IsNext(o, i)' = IsNext(o, i)
  <2> SUFFICES ASSUME NEW i \in DOMAIN SupplierChain
               PROVE  IsNext(o, i)' = IsNext(o, i)
    OBVIOUS
  <2>1. \A r \in Suppliers :
            /\ rows'[o][r].status \in OpenStatuses <=> rows[o][r].status \in OpenStatuses
            /\ rows'[o][r].status \in PassedStatuses <=> rows[o][r].status \in PassedStatuses
    BY <1>8 DEF OpenStatuses, PassedStatuses
  <2>2. \A k \in 1 .. i - 1 : SupplierChain[k] \in Suppliers
    BY ChainIsNumbered
  <2> QED
    BY <2>1, <2>2, ChainIsNumbered DEF IsNext
<1>10. \A r : NextIs(o, r)' = NextIs(o, r)
  BY <1>9 DEF NextIs
<1>11. \A r \in Suppliers : Asked(o, r)' => Asked(o, r)
  BY <1>5, <1>8 DEF Asked
<1>12. \A r \in Suppliers : Asked(o, r)' => NextIs(o, r)'
  BY <1>2, <1>3, <1>10, <1>11 DEF CalmOf, AskedIsNext
<1>13. SuccessIsPlain(o)' /\ DeliveredIsOver(o)'
  BY <1>2, <1>3, <1>7, <1>8 DEF SuccessIsPlain, DeliveredIsOver, CalmOf
<1>14. PICK u : u = Asking(t, s)
  OBVIOUS
<1>15. u.pc = "call" /\ u.order = o /\ u.attempt = t.attempt /\ u.supplier = s
  BY <1>2, <1>3, <1>14, TaskFields
<1>16. Setbacks(budget') = Setbacks(budget) /\ Setbacks(budget') <= Setbacks(budget)
  BY <1>5, BudgetsType
<1>17. \A i \in DOMAIN SupplierChain :
          IsNext(o, i)' => u.attempt + Setbacks(budget') <= Setbacks(Budget) + i
  BY <1>1, <1>3, <1>9, <1>15, <1>16, TriesLeft DEF InProgress
<1>18. NextIs(o, u.supplier)' /\ ~Ending(u) /\ InProgress(u)
  BY <1>6, <1>10, <1>15 DEF Ending, InProgress
<1>19. \A p \in Orders \ {o} : \A r \in Suppliers : issued'[r][p] = issued[r][p]
  BY <1>5
<1>20. UNCHANGED <<jobs, sweeps>> /\ Become(w, j, u)
  BY <1>5, <1>14
<1> QED
  BY <1>1, <1>3, <1>7, <1>8, <1>12, <1>13, <1>15, <1>16, <1>17, <1>18, <1>19, <1>20,
     TaskGoesOn

\* An exchange leaves the task with its supplier; a silence costs a disturbance.
LEMMA CalmAsks ==
    ASSUME TypeOK, TypeOK', RunInv, CalmInv, OneWorker,
           NEW w \in Workers, NEW j \in JobIds, tasks[w][j].pc = "call",
           NEW u, Become(w, j, u), u.pc \in {"call", "record"},
           u.order = tasks[w][j].order, u.attempt = tasks[w][j].attempt,
           u.supplier = tasks[w][j].supplier,
           UNCHANGED <<orderStatus, rows, jobs, sweeps>>,
           UNCHANGED <<free, issued>>
               \/ KeyStoreIssue(tasks[w][j].supplier, tasks[w][j].order),
           Setbacks(budget') <= Setbacks(budget),
           InProgress(u) \/ Setbacks(budget') + 1 <= Setbacks(budget)
    PROVE  \A p \in Orders : CalmOf(p)'
<1> DEFINE t == tasks[w][j]
<1>1. /\ t.order \in Orders /\ t.supplier \in Suppliers
      /\ CalmOf(t.order) /\ TaskOf(t.order, w, j)
  BY RunAlone DEF TypeOK, RecordsWhole
<1>2. PICK o \in Orders, s \in Suppliers : o = t.order /\ s = t.supplier
  BY <1>1
<1>3. orderStatus[o] = "delivering" /\ NextIs(o, s)
  BY <1>1, <1>2 DEF RunInv, CallIsCurrent, TaskOf
<1>4. \A i : IsNext(o, i)' = IsNext(o, i)
  BY DEF IsNext
<1>5. \A r : NextIs(o, r)' = NextIs(o, r)
  BY <1>4 DEF NextIs
<1>6. \A r \in Suppliers, p \in Orders : r # s \/ p # o => issued'[r][p] = issued[r][p]
  BY <1>2 DEF KeyStoreIssue, TypeOK
<1>7. \A r \in Suppliers : Asked(o, r)' => r = s \/ Asked(o, r)
  BY <1>6 DEF Asked
<1>8. \A r \in Suppliers :
          Asked(o, r)' => orderStatus'[o] = "delivering" /\ NextIs(o, r)'
  BY <1>1, <1>2, <1>3, <1>5, <1>7 DEF CalmOf, AskedIsNext
<1>9. SuccessIsPlain(o)' /\ DeliveredIsOver(o)'
  BY <1>1, <1>2, <1>3 DEF SuccessIsPlain, DeliveredIsOver, CalmOf
<1>10. ASSUME NEW i \in DOMAIN SupplierChain, IsNext(o, i)'
       PROVE  (IF InProgress(u) THEN u.attempt ELSE u.attempt + 1) + Setbacks(budget')
                  <= Setbacks(Budget) + i
  <2>1. t.attempt \in Nat /\ t.attempt + Setbacks(budget) <= Setbacks(Budget) + i
    BY <1>2, <1>4, <1>10, TriesLeft DEF InProgress
  <2>2. /\ i \in Nat /\ Setbacks(budget) \in Nat /\ Setbacks(Budget) \in Nat
        /\ Setbacks(budget') \in Nat
    BY BudgetsType, SetbacksType, ChainIsNumbered DEF TypeOK
  <2> QED
    BY <2>1, <2>2
<1>11. NextIs(o, u.supplier)' /\ ~Ending(u)
  BY <1>2, <1>3, <1>5 DEF Ending
<1>12. /\ UNCHANGED <<jobs, sweeps>> /\ u.order = o /\ t.pc # "idle"
       /\ u.pc \notin {"idle", "supersede"}
  BY <1>2
<1>13. \A p \in Orders \ {o} : /\ orderStatus'[p] = orderStatus[p]
                               /\ rows'[p] = rows[p]
                               /\ \A r \in Suppliers : issued'[r][p] = issued[r][p]
  BY <1>6
<1> QED
  BY <1>2, <1>8, <1>9, <1>10, <1>11, <1>12, <1>13, TaskGoesOn

\* What a spent disturbance does to the setbacks still to come.
LEMMA SpendSetback ==
    ASSUME TypeOK, NEW d \in {"crash", "db_error", "no_answer"}, Spend({d})
    PROVE  Setbacks(budget') + 1 = Setbacks(budget) /\ Setbacks(budget') <= Setbacks(budget)
<1>1. "crash" \in Disturbance /\ "db_error" \in Disturbance /\ "no_answer" \in Disturbance
  BY DEF Disturbance
<1>2. /\ \A k \in Disturbance : budget'[k] = IF k = d THEN budget[k] - 1 ELSE budget[k]
      /\ \A k \in Disturbance : budget[k] \in Nat
      /\ budget[d] > 0
  BY DEF Spend, TypeOK
<1>3. /\ budget["crash"] \in Nat /\ budget["db_error"] \in Nat /\ budget["no_answer"] \in Nat
      /\ budget'["crash"] = IF "crash" = d THEN budget["crash"] - 1 ELSE budget["crash"]
      /\ budget'["db_error"] =
            IF "db_error" = d THEN budget["db_error"] - 1 ELSE budget["db_error"]
      /\ budget'["no_answer"] =
            IF "no_answer" = d THEN budget["no_answer"] - 1 ELSE budget["no_answer"]
  BY <1>1, <1>2
<1>4. CASE d = "crash"
  BY <1>3, <1>4 DEF Setbacks
<1>5. CASE d = "db_error"
  BY <1>3, <1>5 DEF Setbacks
<1>6. CASE d = "no_answer"
  BY <1>3, <1>6 DEF Setbacks
<1> QED
  BY <1>4, <1>5, <1>6

LEMMA CalmExchange ==
    ASSUME TypeOK, TypeOK', RunInv, RefusalInv, CalmInv, OneWorker,
           NEW w \in Workers, NEW j \in JobIds, ExchangeStep(w, j)
    PROVE  \A p \in Orders : CalmOf(p)'
<1> DEFINE t == tasks[w][j]
<1>1. t.pc = "call" /\ t \in Task
  BY ExchangeLeaves DEF TypeOK
<1>2. /\ UNCHANGED <<orderStatus, rows, jobs, sweeps>>
      /\ UNCHANGED <<free, issued>> \/ KeyStoreIssue(t.supplier, t.order)
  BY DEF ExchangeStep, SupplierIssues, SupplierRefuses, ConnectFails, AnswerLost,
     RequestLost, RequestDelayed, NothingLearnt, database, suppliers
<1>3. ~ConnectFails(w, j) /\ ~RequestDelayed(w, j)
  BY CannotSpend DEF RefusalInv, ConnectFails, RequestDelayed
<1>4. CASE SupplierIssues(w, j) \/ SupplierRefuses(w, j)
  <2>1. PICK a, c, r : a \in {"ok", "refused"} /\ Become(w, j, Answered(t, a, c, r))
    BY <1>4 DEF SupplierIssues, SupplierRefuses
  <2>2. PICK u : u = Answered(t, a, c, r)
    OBVIOUS
  <2>3. /\ u.pc = "record" /\ u.result \in {"ok", "refused"}
        /\ u.order = t.order /\ u.attempt = t.attempt /\ u.supplier = t.supplier
    BY <1>1, <2>1, <2>2, TaskFields
  <2>4. InProgress(u)
    BY <2>3 DEF InProgress
  <2>5. Setbacks(budget') <= Setbacks(budget)
    BY <1>4, BudgetsType DEF SupplierIssues, SupplierRefuses
  <2> QED
    BY <1>1, <1>2, <2>1, <2>2, <2>3, <2>4, <2>5, CalmAsks
<1>5. CASE AnswerLost(w, j) \/ RequestLost(w, j)
  <2>1. NothingLearnt(w, j) /\ Spend({"no_answer"})
    BY <1>5 DEF AnswerLost, RequestLost
  <2>2. PICK u : Become(w, j, u) /\ u \in {[t EXCEPT !.call = @ + 1], GivesUp(t)}
    BY <2>1 DEF NothingLearnt
  <2>3. /\ u.pc \in {"call", "record"}
        /\ u.order = t.order /\ u.attempt = t.attempt /\ u.supplier = t.supplier
    <3>1. CASE u = [t EXCEPT !.call = @ + 1]
      BY <1>1, <3>1 DEF Task
    <3>2. CASE u = GivesUp(t)
      BY <1>1, <3>2, TaskFields DEF GivesUp
    <3> QED
      BY <2>2, <3>1, <3>2
  <2>4. Setbacks(budget') + 1 <= Setbacks(budget) /\ Setbacks(budget') <= Setbacks(budget)
    BY <2>1, SpendSetback, BudgetsType
  <2> QED
    BY <1>1, <1>2, <2>2, <2>3, <2>4, CalmAsks
<1> QED
  BY <1>3, <1>4, <1>5 DEF ExchangeStep

\* The unique indexes are never hit: the order has no code yet, and nobody else
\* has this one.
LEMMA NoConflict ==
    ASSUME TypeOK, MoneyInv, CodesInv, RunInv, CalmInv, StocksApart,
           NEW w \in Workers, NEW j \in JobIds,
           tasks[w][j].pc = "record", tasks[w][j].result = "ok"
    PROVE  ~BreaksUniqueIndex(tasks[w][j].order, tasks[w][j].supplier, tasks[w][j].code)
<1> DEFINE t == tasks[w][j]
<1>1. PICK o \in Orders, s \in Suppliers : o = t.order /\ s = t.supplier
  BY DEF TypeOK, RecordsWhole
<1>2. t.code # NoCode /\ t.code = issued[s][o]
  BY <1>1 DEF CodesInv, CarriesIssued
<1>3. orderStatus[o] = "delivering"
  BY <1>1 DEF RunInv, CallIsCurrent
<1>4. Succeeded(o) = {}
  BY <1>3 DEF MoneyInv, SucceededImpliesDelivered
<1>5. ASSUME NEW p \in Orders, NEW r \in Suppliers, rows[p][r].status = "succeeded",
             rows[p][r].code = t.code
      PROVE  p = o /\ r = s
  <2>1. issued[r][p] = issued[s][o] /\ issued[s][o] # NoCode
    BY <1>2, <1>5 DEF CodesInv, SuccessIsIssued
  <2>2. issued[s][o] \in Stock(s) /\ issued[r][p] \in Stock(r)
    BY <2>1 DEF CalmInv, KeysInStock
  <2>3. r = s
    BY <2>1, <2>2 DEF StocksApart
  <2> QED
    BY <2>1, <2>3 DEF CalmInv, KeysInStock
<1> QED
  BY <1>1, <1>4, <1>5 DEF BreaksUniqueIndex

LEMMA CalmSuccess ==
    ASSUME TypeOK, TypeOK', MoneyInv, CodesInv, RunInv, CalmInv, OneWorker, StocksApart,
           NEW w \in Workers, NEW j \in JobIds, RecordSuccess(w, j)
    PROVE  \A p \in Orders : CalmOf(p)'
<1> DEFINE t == tasks[w][j]
<1>1. t.pc = "record" /\ t.result = "ok" /\ t \in Task
      /\ UNCHANGED <<jobs, sweeps, issued, budget>>
  BY DEF RecordSuccess, TypeOK, suppliers
<1>2. /\ t.order \in Orders /\ t.supplier \in Suppliers
      /\ CalmOf(t.order) /\ TaskOf(t.order, w, j)
  BY <1>1, RunAlone DEF TypeOK, RecordsWhole
<1>3. PICK o \in Orders, s \in Suppliers : o = t.order /\ s = t.supplier
  BY <1>2
<1>4. orderStatus[o] = "delivering" /\ NextIs(o, s)
  BY <1>1, <1>2, <1>3 DEF RunInv, CallIsCurrent, TaskOf
<1>5. /\ rows' = record_outcome(o, s, "succeeded", t.code, "none")
      /\ orderStatus' = [orderStatus EXCEPT ![o] = "delivered"]
      /\ Become(w, j, Settling(t, "delivered"))
  BY <1>3, <1>4 DEF RecordSuccess, can_transition, ALLOWED_TRANSITIONS
<1>6. /\ rows'[o][s].status = "succeeded" /\ rows'[o][s].reason = "none"
      /\ \A p \in Orders \ {o} : rows'[p] = rows[p]
      /\ \A r \in Suppliers \ {s} : rows'[o][r] = rows[o][r]
  BY <1>5 DEF record_outcome, TypeOK
<1>7. /\ orderStatus'[o] = "delivered"
      /\ \A p \in Orders \ {o} : orderStatus'[p] = orderStatus[p]
  BY <1>5 DEF TypeOK
<1>8. NobodyNext(o)'
  <2> SUFFICES ASSUME NEW i \in DOMAIN SupplierChain, IsNext(o, i)'
               PROVE  FALSE
    BY DEF NobodyNext
  <2>1. PICK k \in DOMAIN SupplierChain : IsNext(o, k) /\ SupplierChain[k] = s
    BY <1>4 DEF NextIs
  <2>2. i \in Nat /\ k \in Nat
    BY ChainIsNumbered
  <2>3. \A n \in DOMAIN SupplierChain : SupplierChain[n] = s => n = k
    BY <2>1, ChainAssumption DEF ChainAssumption
  <2>4. /\ "succeeded" \notin OpenStatuses /\ "succeeded" \notin PassedStatuses
        /\ \A status \in OpenStatuses : status \notin PassedStatuses
    BY DEF OpenStatuses, PassedStatuses
  <2>5. i # k /\ ~(k < i)
    <3>1. ASSUME k < i PROVE k \in 1 .. i - 1
      BY <2>2, <3>1, ChainIsNumbered
    <3>2. ASSUME k < i PROVE FALSE
      BY <1>6, <2>1, <2>4, <3>1, <3>2 DEF IsNext
    <3>3. i # k
      BY <1>6, <2>1, <2>4 DEF IsNext
    <3> QED
      BY <3>2, <3>3
  <2>6. ~(i < k)
    <3>1. ASSUME i < k PROVE FALSE
      <4>1. rows[o][SupplierChain[i]].status \in PassedStatuses
        BY <2>1, <2>2, <3>1, ChainIsNumbered DEF IsNext
      <4>2. SupplierChain[i] # s /\ SupplierChain[i] \in Suppliers
        BY <2>3, <2>5, ChainIsNumbered
      <4>3. rows'[o][SupplierChain[i]].status \in PassedStatuses
        BY <1>6, <4>1, <4>2
      <4> QED
        BY <2>4, <4>3 DEF IsNext
    <3> QED
      BY <3>1
  <2> QED
    BY <2>2, <2>5, <2>6
<1>9. \A r \in Suppliers : ~Asked(o, r)'
  <2> SUFFICES ASSUME NEW r \in Suppliers, Asked(o, r)'
               PROVE  FALSE
    OBVIOUS
  <2>1. r # s
    BY <1>6 DEF Asked
  <2>2. Asked(o, r)
    BY <1>1, <1>6, <2>1 DEF Asked
  <2>3. NextIs(o, r)
    BY <1>2, <1>3, <2>2 DEF CalmOf, AskedIsNext
  <2> QED
    BY <1>4, <2>1, <2>3, OneIsNext
<1>10. SuccessIsPlain(o)' /\ DeliveredIsOver(o)'
  BY <1>2, <1>3, <1>6, <1>8 DEF SuccessIsPlain, DeliveredIsOver, CalmOf
<1>11. PICK u : u = Settling(t, "delivered")
  OBVIOUS
<1>12. u.pc = "settle" /\ u.order = o /\ u.attempt = t.attempt
  BY <1>1, <1>3, <1>11, TaskFields
<1>13. Setbacks(budget') <= Setbacks(budget)
  BY <1>1, BudgetsType
<1>14. Become(w, j, u)
  BY <1>5, <1>11
<1>15. \A p \in Orders \ {o} : /\ rows'[p] = rows[p]
                               /\ \A r \in Suppliers : issued'[r][p] = issued[r][p]
  BY <1>1, <1>6
<1> HIDE DEF t
<1> QED
  BY <1>1, <1>3, <1>7, <1>8, <1>9, <1>10, <1>12, <1>13, <1>14, <1>15, TaskGoesOn
  DEF NobodyNext, t

LEMMA CalmRefusal ==
    ASSUME TypeOK, TypeOK', RunInv, RefusalInv, CalmInv, OneWorker,
           NEW w \in Workers, NEW j \in JobIds, RecordRefusal(w, j)
    PROVE  \A p \in Orders : CalmOf(p)'
<1> DEFINE t == tasks[w][j]
<1>1. t.pc = "record" /\ t.result = "refused" /\ t \in Task
      /\ UNCHANGED <<jobs, sweeps, issued, budget>>
  BY DEF RecordRefusal, TypeOK, suppliers
<1>2. /\ t.order \in Orders /\ t.supplier \in Suppliers
      /\ CalmOf(t.order) /\ TaskOf(t.order, w, j)
  BY <1>1, RunAlone DEF TypeOK, RecordsWhole
<1>3. PICK o \in Orders, s \in Suppliers : o = t.order /\ s = t.supplier
  BY <1>2
<1>4. orderStatus[o] = "delivering" /\ NextIs(o, s) /\ issued[s][o] = NoCode
  BY <1>1, <1>2, <1>3 DEF RunInv, CallIsCurrent, TaskOf, RefusalInv
<1>5. rows' = record_outcome(o, s, "known_negative", NoCode, t.reason)
  BY <1>3 DEF RecordRefusal
<1>6. /\ rows'[o][s].status = "known_negative"
      /\ \A p \in Orders \ {o} : rows'[p] = rows[p]
      /\ \A r \in Suppliers \ {s} : rows'[o][r] = rows[o][r]
  BY <1>5 DEF record_outcome, TypeOK
<1>7. PICK k \in DOMAIN SupplierChain : IsNext(o, k) /\ SupplierChain[k] = s
  BY <1>4 DEF NextIs
<1>8. ASSUME NEW i \in DOMAIN SupplierChain, IsNext(o, i)'
      PROVE  k < i
  <2>1. i \in Nat /\ k \in Nat
    BY ChainIsNumbered
  <2>2. "known_negative" \notin OpenStatuses
        /\ \A status \in OpenStatuses : status \notin PassedStatuses
    BY DEF OpenStatuses, PassedStatuses
  <2>3. i # k
    BY <1>6, <1>7, <1>8, <2>2 DEF IsNext
  <2>4. ASSUME i < k PROVE FALSE
    <3>1. rows[o][SupplierChain[i]].status \in PassedStatuses
      BY <1>7, <2>1, <2>4, ChainIsNumbered DEF IsNext
    <3>2. SupplierChain[i] # s /\ SupplierChain[i] \in Suppliers
      BY <1>7, <2>3, ChainAssumption, ChainIsNumbered DEF ChainAssumption
    <3>3. rows'[o][SupplierChain[i]].status \in PassedStatuses
      BY <1>6, <3>1, <3>2
    <3> QED
      BY <1>8, <2>2, <3>3 DEF IsNext
  <2> QED
    BY <2>1, <2>3, <2>4
<1>9. \A r \in Suppliers : ~Asked(o, r)'
  <2> SUFFICES ASSUME NEW r \in Suppliers, Asked(o, r)'
               PROVE  FALSE
    OBVIOUS
  <2>1. r # s
    BY <1>1, <1>4, <1>6 DEF Asked
  <2>2. Asked(o, r)
    BY <1>1, <1>6, <2>1 DEF Asked
  <2>3. NextIs(o, r)
    BY <1>2, <1>3, <2>2 DEF CalmOf, AskedIsNext
  <2> QED
    BY <1>4, <2>1, <2>3, OneIsNext
<1>10. PICK u : /\ Become(w, j, u) /\ u.pc = "settle" /\ u.order = o
                /\ u.attempt = t.attempt
                /\ u.result = "retry_fallback" \/ NobodyNext(o)'
  <2> DEFINE rs == record_outcome(o, s, "known_negative", NoCode, t.reason)
             n == choose_supplier([r \in Suppliers |-> rs[o][r].status])
  <2>1. rows' = rs
    BY <1>5
  <2> HIDE DEF rs
  <2>2. n = NoSupplier => NobodyNext(o)'
    <3> DEFINE f == [r \in Suppliers |-> rs[o][r].status]
    <3>1. \A i \in DOMAIN SupplierChain :
              /\ f[SupplierChain[i]] = rows'[o][SupplierChain[i]].status
              /\ \A m \in 1 .. i - 1 : f[SupplierChain[m]] = rows'[o][SupplierChain[m]].status
      BY <2>1, ChainIsNumbered
    <3> HIDE DEF f
    <3>2. \A i \in DOMAIN SupplierChain : IsNext(o, i)' => StandsAt(f, i)
      BY <3>1 DEF IsNext, StandsAt
    <3>3. choose_supplier(f) = NoSupplier => NobodyNext(o)'
      BY <3>2, ChooseFinds DEF NobodyNext
    <3> QED
      BY <3>3 DEF f
  <2>3. \/ n # NoSupplier /\ Become(w, j, Settling(t, "retry_fallback"))
        \/ n = NoSupplier /\ Become(w, j, Settling(t, ExhaustedOutcome(rs[o])))
    BY <1>3 DEF RecordRefusal, rs
  <2> HIDE DEF n
  <2>4. CASE n # NoSupplier
    BY <1>1, <1>3, <2>3, <2>4, TaskFields
  <2>5. CASE n = NoSupplier
    BY <1>1, <1>3, <2>2, <2>3, <2>5, TaskFields
  <2> QED
    BY <2>4, <2>5
<1>11. /\ \A p \in Orders \ {o} : orderStatus'[p] = orderStatus[p]
       /\ orderStatus'[o] \in {"delivering", "out_of_stock", "delivery_failed"}
  BY <1>3, <1>4 DEF RecordRefusal, finalize_exhausted, ExhaustedStatus, TypeOK
<1>12. SuccessIsPlain(o)' /\ DeliveredIsOver(o)'
  BY <1>2, <1>3, <1>6, <1>11 DEF SuccessIsPlain, DeliveredIsOver, CalmOf
<1>13. Setbacks(budget') = Setbacks(budget) /\ Setbacks(budget') <= Setbacks(budget)
  BY <1>1, BudgetsType
<1>14. ASSUME NEW i \in DOMAIN SupplierChain, IsNext(o, i)'
       PROVE  u.attempt + 1 + Setbacks(budget') <= Setbacks(Budget) + i
  <2>1. t.attempt \in Nat /\ t.attempt + Setbacks(budget) <= Setbacks(Budget) + k
    BY <1>1, <1>3, <1>7, TriesLeft DEF InProgress
  <2>2. i \in Nat /\ k \in Nat /\ Setbacks(budget) \in Nat /\ Setbacks(Budget) \in Nat
    BY BudgetsType, ChainIsNumbered
  <2> QED
    BY <1>8, <1>10, <1>13, <1>14, <2>1, <2>2
<1>15. Ending(u) => NobodyNext(o)'
  BY <1>10 DEF Ending, RetryOutcomes
<1>16. \A p \in Orders \ {o} : /\ rows'[p] = rows[p]
                               /\ \A r \in Suppliers : issued'[r][p] = issued[r][p]
  BY <1>1, <1>6
<1>17. ~InProgress(u)
  BY <1>10 DEF InProgress
<1> HIDE DEF t
<1> QED
  BY <1>1, <1>3, <1>9, <1>10, <1>11, <1>12, <1>13, <1>14, <1>15, <1>16, <1>17, TaskGoesOn
  DEF t

LEMMA CalmUnknown ==
    ASSUME TypeOK, TypeOK', RunInv, CalmInv, OneWorker, PatientJobs,
           NEW w \in Workers, NEW j \in JobIds, RecordUnknown(w, j)
    PROVE  \A p \in Orders : CalmOf(p)'
<1> DEFINE t == tasks[w][j]
<1>1. t.pc = "record" /\ t.result = "unknown" /\ t \in Task
      /\ UNCHANGED <<jobs, sweeps, issued, budget>>
  BY DEF RecordUnknown, TypeOK, suppliers
<1>2. /\ t.order \in Orders /\ t.supplier \in Suppliers
      /\ CalmOf(t.order) /\ TaskOf(t.order, w, j)
  BY <1>1, RunAlone DEF TypeOK, RecordsWhole
<1>3. PICK o \in Orders, s \in Suppliers : o = t.order /\ s = t.supplier
  BY <1>2
<1>4. /\ orderStatus[o] = "delivering" /\ NextIs(o, s)
      /\ rows[o][s].status \in {"pending", "unknown"}
  BY <1>1, <1>2, <1>3 DEF RunInv, CallIsCurrent, TaskOf
<1>5. PICK k \in DOMAIN SupplierChain : IsNext(o, k) /\ SupplierChain[k] = s
  BY <1>4 DEF NextIs
<1>6. \A i \in DOMAIN SupplierChain :
          IsNext(o, i) => t.attempt \in Nat
                          /\ t.attempt + 1 + Setbacks(budget) <= Setbacks(Budget) + i
  BY <1>1, <1>3, TriesLeft DEF InProgress
<1>7. ~(t.attempt >= job_max_attempts)
  <2>1. /\ k \in Nat /\ k <= Len(SupplierChain) /\ Len(SupplierChain) \in Nat
        /\ Setbacks(budget) \in Nat /\ Setbacks(Budget) \in Nat
        /\ job_max_attempts \in Nat
    BY ChainIsNumbered, BudgetsType, DeliveryAssumption DEF DeliveryAssumption
  <2> QED
    BY <1>5, <1>6, <2>1 DEF PatientJobs
<1>8. /\ rows' = record_outcome(o, s, "unknown", NoCode, t.reason)
      /\ Become(w, j, Settling(t, "retry_same_supplier"))
  BY <1>3, <1>7 DEF RecordUnknown
<1>9. orderStatus' = orderStatus
  <2>1. orderStatus' = [orderStatus EXCEPT
            ![o] = UnknownStatus(orderStatus[o], t.attempt >= job_max_attempts)]
    BY <1>3 DEF RecordUnknown
  <2>2. UnknownStatus(orderStatus[o], t.attempt >= job_max_attempts) = orderStatus[o]
    BY <1>7 DEF UnknownStatus
  <2> QED
    BY <2>1, <2>2 DEF TypeOK
<1>10. /\ rows'[o][s].status = "unknown"
       /\ \A p \in Orders \ {o} : rows'[p] = rows[p]
       /\ \A r \in Suppliers \ {s} : rows'[o][r] = rows[o][r]
  BY <1>8 DEF record_outcome, TypeOK
<1>11. \A i \in DOMAIN SupplierChain : IsNext(o, i)' = IsNext(o, i)
  <2> SUFFICES ASSUME NEW i \in DOMAIN SupplierChain
               PROVE  IsNext(o, i)' = IsNext(o, i)
    OBVIOUS
  <2>1. \A r \in Suppliers :
            /\ rows'[o][r].status \in OpenStatuses <=> rows[o][r].status \in OpenStatuses
            /\ rows'[o][r].status \in PassedStatuses <=> rows[o][r].status \in PassedStatuses
    BY <1>4, <1>10 DEF OpenStatuses, PassedStatuses
  <2>2. \A m \in 1 .. i - 1 : SupplierChain[m] \in Suppliers
    BY ChainIsNumbered
  <2> QED
    BY <2>1, <2>2, ChainIsNumbered DEF IsNext
<1>12. \A r : NextIs(o, r)' = NextIs(o, r)
  BY <1>11 DEF NextIs
<1>13. \A r \in Suppliers : Asked(o, r)' => r = s \/ Asked(o, r)
  BY <1>1, <1>10 DEF Asked
<1>14. \A r \in Suppliers :
          Asked(o, r)' => orderStatus'[o] = "delivering" /\ NextIs(o, r)'
  BY <1>2, <1>3, <1>4, <1>9, <1>12, <1>13 DEF CalmOf, AskedIsNext
<1>15. SuccessIsPlain(o)' /\ DeliveredIsOver(o)'
  BY <1>2, <1>3, <1>4, <1>9, <1>10 DEF SuccessIsPlain, DeliveredIsOver, CalmOf
<1>16. PICK u : u = Settling(t, "retry_same_supplier")
  OBVIOUS
<1>17. /\ u.pc = "settle" /\ u.result = "retry_same_supplier"
       /\ u.order = o /\ u.attempt = t.attempt
  BY <1>1, <1>3, <1>16, TaskFields
<1>18. ~Ending(u) /\ ~InProgress(u)
  BY <1>17 DEF Ending, InProgress, RetryOutcomes
<1>19. Setbacks(budget') = Setbacks(budget) /\ Setbacks(budget') <= Setbacks(budget)
  BY <1>1, BudgetsType
<1>20. \A i \in DOMAIN SupplierChain :
          IsNext(o, i)' => u.attempt + 1 + Setbacks(budget') <= Setbacks(Budget) + i
  BY <1>6, <1>11, <1>17, <1>19
<1>21. Become(w, j, u)
  BY <1>8, <1>16
<1>22. \A p \in Orders \ {o} : /\ orderStatus'[p] = orderStatus[p]
                               /\ rows'[p] = rows[p]
                               /\ \A r \in Suppliers : issued'[r][p] = issued[r][p]
  BY <1>1, <1>9, <1>10
<1>23. orderStatus'[o] \notin {"created", "payment_failed", "paid"}
  BY <1>4, <1>9
<1> HIDE DEF t
<1> QED
  BY <1>1, <1>3, <1>14, <1>15, <1>17, <1>18, <1>19, <1>20, <1>21, <1>22, <1>23, TaskGoesOn
  DEF t

\* A failed transaction costs the task its attempt, and a disturbance.
LEMMA CalmFails ==
    ASSUME TypeOK, TypeOK', RunInv, CalmInv, OneWorker,
           NEW w \in Workers, NEW j \in JobIds, DatabaseFails(w, j)
    PROVE  \A p \in Orders : CalmOf(p)'
<1> DEFINE t == tasks[w][j]
<1>1. /\ t.pc # "idle" /\ t \in Task
      /\ Become(w, j, Settling(t, "crashed")) /\ Spend({"db_error"})
      /\ UNCHANGED <<orderStatus, rows, jobs, sweeps, issued>>
  BY DEF DatabaseFails, TypeOK, suppliers, database
<1>2. t.order \in Orders /\ CalmOf(t.order)
  BY <1>1, RunAlone
<1>3. PICK o \in Orders : o = t.order
  BY <1>2
<1>4. Setbacks(budget') + 1 = Setbacks(budget) /\ Setbacks(budget') <= Setbacks(budget)
  BY <1>1, SpendSetback
<1>5. \A i : IsNext(o, i)' = IsNext(o, i)
  BY <1>1 DEF IsNext
<1>6. /\ \A r : NextIs(o, r)' = NextIs(o, r)
      /\ NobodyNext(o)' = NobodyNext(o)
  BY <1>5 DEF NextIs, NobodyNext
<1>7. \A r \in Suppliers : Asked(o, r)' = Asked(o, r)
  BY <1>1 DEF Asked
<1>8. \A r \in Suppliers : Asked(o, r)' => orderStatus'[o] = "delivering" /\ NextIs(o, r)'
  BY <1>1, <1>2, <1>3, <1>6, <1>7 DEF CalmOf, AskedIsNext
<1>9. SuccessIsPlain(o)' /\ DeliveredIsOver(o)'
  BY <1>1, <1>2, <1>3, <1>6 DEF SuccessIsPlain, DeliveredIsOver, CalmOf
<1>10. PICK u : u = Settling(t, "crashed")
  OBVIOUS
<1>11. u.pc = "settle" /\ u.result = "crashed" /\ u.order = o /\ u.attempt = t.attempt
  BY <1>1, <1>3, <1>10, TaskFields
<1>12. ~Ending(u) /\ ~InProgress(u)
  BY <1>11 DEF Ending, InProgress
<1>13. ASSUME NEW i \in DOMAIN SupplierChain, IsNext(o, i)'
       PROVE  u.attempt + 1 + Setbacks(budget') <= Setbacks(Budget) + i
  <2>1. t.attempt \in Nat /\ t.attempt + Setbacks(budget) <= Setbacks(Budget) + i
    <3>1. (IF InProgress(t) THEN t.attempt ELSE t.attempt + 1) + Setbacks(budget)
              <= Setbacks(Budget) + i /\ t.attempt \in Nat
      BY <1>1, <1>3, <1>5, <1>13, TriesLeft
    <3> QED
      BY <3>1, BudgetsType, ChainIsNumbered
  <2>2. /\ i \in Nat /\ Setbacks(budget) \in Nat /\ Setbacks(Budget) \in Nat
        /\ Setbacks(budget') \in Nat
    BY BudgetsType, SetbacksType, ChainIsNumbered DEF TypeOK
  <2> QED
    BY <1>4, <1>11, <2>1, <2>2
<1>14. Become(w, j, u)
  BY <1>1, <1>10
<1>15. \A p \in Orders \ {o} : /\ orderStatus'[p] = orderStatus[p]
                               /\ rows'[p] = rows[p]
                               /\ \A r \in Suppliers : issued'[r][p] = issued[r][p]
  BY <1>1
<1>16. orderStatus'[o] = orderStatus[o] /\ rows'[o] = rows[o]
  BY <1>1
<1> HIDE DEF t
<1> QED
  BY <1>1, <1>3, <1>4, <1>8, <1>9, <1>11, <1>12, <1>13, <1>14, <1>15, <1>16, TaskGoesOn
  DEF t

-----------------------------------------------------------------------------
(* Steps of the queue *)

\* The jobs and tasks of an order move on, its rows and its codes do not.
LEMMA JobsMove ==
    ASSUME TypeOK, TypeOK', NEW o \in Orders, CalmOf(o),
           orderStatus'[o] = orderStatus[o], rows'[o] = rows[o],
           \A s \in Suppliers : issued'[s][o] = issued[s][o],
           \A j \in JobIds : jobs'[j].order = o =>
               \/ jobs[j].order = o
               \/ orderStatus[o] \notin {"created", "payment_failed"},
           \/ ActiveJobs(o)' # {}
           \/ ActiveJobs(o) = {}
           \/ orderStatus[o] # "paid" /\ \A s \in Suppliers : ~Asked(o, s),
           \A w \in Workers, j \in JobIds :
               tasks'[w][j].pc # "idle" /\ tasks'[w][j].order = o =>
                   \/ tasks'[w][j] = tasks[w][j] /\ jobs'[j].attempts = jobs[j].attempts
                   \/ tasks'[w][j].pc = "prepare" /\ tasks'[w][j].attempt = jobs'[j].attempts,
           \A j \in JobIds : jobs'[j].order = o /\ jobs'[j].state \in ActiveStates =>
               \A i \in DOMAIN SupplierChain :
                   IsNext(o, i) => Tries(j)' + Setbacks(budget') <= Setbacks(Budget) + i,
           \A w \in Workers : SweptRests(o, w)'
    PROVE  CalmOf(o)'
<1>1. \A i : IsNext(o, i)' = IsNext(o, i)
  BY DEF IsNext
<1>2. /\ \A s : NextIs(o, s)' = NextIs(o, s)
      /\ NobodyNext(o)' = NobodyNext(o)
  BY <1>1 DEF NextIs, NobodyNext
<1>3. \A s \in Suppliers : Asked(o, s)' = Asked(o, s)
  BY DEF Asked
<1>4. UnpaidHasNoJob(o)' /\ DeliveredIsOver(o)' /\ SuccessIsPlain(o)'
  BY <1>2 DEF CalmOf, UnpaidHasNoJob, DeliveredIsOver, SuccessIsPlain
<1>5. PaidIsFresh(o)' /\ AskedIsNext(o)'
  BY <1>2, <1>3 DEF CalmOf, PaidIsFresh, AskedIsNext
<1>6. ASSUME NEW w \in Workers, NEW j \in JobIds PROVE TaskOf(o, w, j)'
  BY <1>2 DEF CalmOf, TaskOf, Ending
<1>7. \A j \in JobIds : EnoughTries(o, j)'
  BY <1>1 DEF EnoughTries, Setbacks
<1> QED
  BY <1>4, <1>5, <1>6, <1>7 DEF CalmOf

\* An attempt that ends for good leaves nobody to ask, and so nothing to wait for.
LEMMA CalmFinishes ==
    ASSUME TypeOK, TypeOK', RunInv, CalmInv, OneWorker, PatientJobs, Suppliers # {},
           NEW w \in Workers, NEW j \in JobIds, FinishJob(w, j)
    PROVE  \A p \in Orders : CalmOf(p)'
<1> DEFINE t == tasks[w][j]
           js == [jobs EXCEPT ![j].state = FinalState(t)]
<1>1. /\ t.pc = "settle" /\ ~Reschedules(t) /\ Become(w, j, Idle)
      /\ jobs' = Retain(js, tasks')
      /\ UNCHANGED <<orderStatus, rows, sweeps, issued, budget>>
  BY DEF FinishJob, suppliers
<1>2. PICK o \in Orders : o = t.order
  BY <1>1, RunAlone
<1>3. /\ jobs[j].order = o /\ ActiveJobs(o) = {j} /\ CalmOf(o) /\ TaskOf(o, w, j)
      /\ \A v \in Workers, k \in JobIds :
            tasks[v][k].pc # "idle" /\ tasks[v][k].order = o => v = w /\ k = j
      /\ \A v \in Workers : sweeps[v].pc = "off"
  BY <1>1, <1>2, RunAlone
<1>4. NobodyNext(o)
  <2>1. CASE Ending(t)
    BY <1>1, <1>2, <1>3, <2>1 DEF TaskOf
  <2>2. CASE ~Ending(t)
    <3>1. t.attempt \in Nat /\ ~(t.attempt < job_max_attempts)
      BY <1>1, <2>2 DEF Ending, Reschedules, TypeOK, Task
    <3> SUFFICES ASSUME NEW i \in DOMAIN SupplierChain, IsNext(o, i)
                 PROVE  FALSE
      BY DEF NobodyNext
    <3>2. t.attempt + 1 + Setbacks(budget) <= Setbacks(Budget) + i
      BY <1>1, <1>2, TriesLeft DEF InProgress
    <3>3. /\ i \in Nat /\ i <= Len(SupplierChain) /\ Len(SupplierChain) \in Nat
          /\ Setbacks(budget) \in Nat /\ Setbacks(Budget) \in Nat
          /\ job_max_attempts \in Nat
      BY ChainIsNumbered, BudgetsType, DeliveryAssumption DEF DeliveryAssumption
    <3> QED
      BY <3>1, <3>2, <3>3 DEF PatientJobs
  <2> QED
    BY <2>1, <2>2
<1>5. /\ tasks'[w][j] = Idle /\ Idle.pc = "idle"
      /\ \A v \in Workers, k \in JobIds : v # w \/ k # j => tasks'[v][k] = tasks[v][k]
  BY <1>1 DEF Become, TypeOK, Idle
<1>6. /\ \A k \in JobIds : jobs'[k] \in {js[k], NoJob}
      /\ \A k \in JobIds : Held(tasks', k) => jobs'[k] = js[k]
  BY <1>1 DEF Retain
<1>7. /\ \A k \in JobIds \ {j} : js[k] = jobs[k]
      /\ js[j].order = o /\ js[j].state \notin ActiveStates
  BY <1>3 DEF TypeOK, Job, FinalState, ActiveStates
<1>8. NoJob.order \notin Orders /\ NoJob.state \notin ActiveStates
  BY DeliveryAssumption DEF DeliveryAssumption, NoJob, ActiveStates
<1>9. \A p \in Orders, v \in Workers : SweptRests(p, v)'
  BY <1>1, <1>3 DEF SweptRests
<1>10. Setbacks(budget') = Setbacks(budget) /\ Setbacks(budget') <= Setbacks(budget)
  BY <1>1, BudgetsType
<1> HIDE DEF t, js
<1>11. ASSUME NEW p \in Orders \ {o} PROVE CalmOf(p)'
  <2>1. CalmOf(p)
    BY DEF CalmInv
  <2>2. \A k \in JobIds : jobs'[k].order = p => jobs'[k] = jobs[k] /\ k # j
    BY <1>6, <1>7, <1>8
  <2>3. \A k \in JobIds : jobs[k].order = p /\ jobs[k].state \in ActiveStates =>
            jobs'[k] = jobs[k]
    <3>1. \A k \in JobIds : js[k].state \in ActiveStates => jobs'[k] = js[k]
      BY <1>1 DEF Retain
    <3> QED
      BY <1>3, <1>7, <3>1
  <2> QED
    BY <1>1, <1>5, <1>9, <1>10, <2>1, <2>2, <2>3, OrderKept
<1>12. CalmOf(o)'
  <2>1. orderStatus[o] # "paid" /\ \A s \in Suppliers : ~Asked(o, s)
    BY <1>3, <1>4, NobodyLeft
  <2>2. \A k \in JobIds : jobs'[k].order = o => jobs[k].order = o
    BY <1>3, <1>6, <1>7, <1>8
  <2>3. \A v \in Workers, k \in JobIds :
            tasks'[v][k].pc # "idle" => tasks'[v][k] = tasks[v][k] /\ (v # w \/ k # j)
    BY <1>5
  <2>4. \A v \in Workers, k \in JobIds :
            ~(tasks'[v][k].pc # "idle" /\ tasks'[v][k].order = o)
    BY <1>3, <2>3
  <2>5. \A i \in DOMAIN SupplierChain : ~IsNext(o, i)
    BY <1>4 DEF NobodyNext
  <2> QED
    BY <1>1, <1>3, <1>9, <2>1, <2>2, <2>4, <2>5, JobsMove
<1> QED
  BY <1>11, <1>12

\* An attempt without a result puts its job back into the queue.
LEMMA CalmReschedules ==
    ASSUME TypeOK, TypeOK', RunInv, CalmInv, OneWorker,
           NEW w \in Workers, NEW j \in JobIds, RescheduleJob(w, j)
    PROVE  \A p \in Orders : CalmOf(p)'
<1> DEFINE t == tasks[w][j]
<1>1. /\ t.pc = "settle" /\ Become(w, j, Idle)
      /\ jobs' = [jobs EXCEPT ![j].state = "queued"]
      /\ UNCHANGED <<orderStatus, rows, sweeps, issued, budget>>
  BY DEF RescheduleJob, suppliers
<1>2. PICK o \in Orders : o = t.order
  BY <1>1, RunAlone
<1>3. /\ jobs[j].order = o /\ CalmOf(o)
      /\ \A v \in Workers, k \in JobIds :
            tasks[v][k].pc # "idle" /\ tasks[v][k].order = o => v = w /\ k = j
      /\ \A v \in Workers : sweeps[v].pc = "off"
  BY <1>1, <1>2, RunAlone
<1>4. /\ tasks'[w][j] = Idle /\ Idle.pc = "idle"
      /\ \A v \in Workers, k \in JobIds : v # w \/ k # j => tasks'[v][k] = tasks[v][k]
  BY <1>1 DEF Become, TypeOK, Idle
<1>5. /\ \A k \in JobIds \ {j} : jobs'[k] = jobs[k]
      /\ jobs'[j].order = o /\ jobs'[j].state = "queued"
      /\ jobs'[j].attempts = jobs[j].attempts
  BY <1>1, <1>3 DEF TypeOK, Job
<1>6. \A p \in Orders, v \in Workers : SweptRests(p, v)'
  BY <1>1, <1>3 DEF SweptRests
<1>7. Setbacks(budget') = Setbacks(budget) /\ Setbacks(budget') <= Setbacks(budget)
  BY <1>1, BudgetsType
<1>8. \A i \in DOMAIN SupplierChain :
          IsNext(o, i) => t.attempt + 1 + Setbacks(budget) <= Setbacks(Budget) + i
                          /\ t.attempt = jobs[j].attempts
  BY <1>1, <1>2, TriesLeft DEF InProgress
<1> HIDE DEF t
<1>9. ASSUME NEW p \in Orders \ {o} PROVE CalmOf(p)'
  <2>1. CalmOf(p)
    BY DEF CalmInv
  <2>2. \A k \in JobIds : jobs'[k].order = p \/ jobs[k].order = p =>
            k # j /\ jobs'[k] = jobs[k]
    BY <1>3, <1>5
  <2> QED
    BY <1>1, <1>4, <1>6, <1>7, <2>1, <2>2, OrderKept
<1>10. CalmOf(o)'
  <2>1. ActiveJobs(o)' # {}
    BY <1>5 DEF ActiveJobs, ActiveStates
  <2>2. \A k \in JobIds : jobs'[k].order = o => jobs[k].order = o
    BY <1>3, <1>5
  <2>3. \A v \in Workers, k \in JobIds :
            ~(tasks'[v][k].pc # "idle" /\ tasks'[v][k].order = o)
    BY <1>3, <1>4
  <2>4. ASSUME NEW k \in JobIds, jobs'[k].order = o, jobs'[k].state \in ActiveStates,
               NEW i \in DOMAIN SupplierChain, IsNext(o, i)
        PROVE  Tries(k)' + Setbacks(budget') <= Setbacks(Budget) + i
    <3>1. CASE k = j
      <4>1. \A v \in Workers : ~InProgress(tasks'[v][j])
        BY <1>3, <1>4 DEF OneWorker, InProgress
      <4>2. Tries(j)' = jobs[j].attempts + 1
        BY <1>5, <4>1 DEF Tries, InProgress
      <4> QED
        BY <1>7, <1>8, <2>4, <3>1, <4>2
    <3>2. CASE k # j
      <4>1. Tries(k)' = Tries(k)
        BY <1>4, <1>5, <3>2 DEF Tries, InProgress
      <4>2. Tries(k) + Setbacks(budget) <= Setbacks(Budget) + i
        BY <1>3, <1>5, <2>4, <3>2 DEF CalmOf, EnoughTries
      <4> QED
        BY <1>7, <4>1, <4>2
    <3> QED
      BY <3>1, <3>2
  <2> QED
    BY <1>1, <1>3, <1>6, <2>1, <2>2, <2>3, <2>4, JobsMove
<1> QED
  BY <1>9, <1>10

\* Nothing changes for a task's attempts by claiming its job: the attempt is
\* counted where the bound had counted it before.
LEMMA CalmClaims ==
    ASSUME TypeOK, TypeOK', CalmInv, OneWorker, NEW w \in Workers, Claim(w)
    PROVE  \A p \in Orders : CalmOf(p)'
<1>1. PICK batch \in SUBSET ReadyJobs :
          /\ jobs' = [j \in JobIds |-> IF j \in batch THEN Running(jobs[j]) ELSE jobs[j]]
          /\ tasks' = [tasks EXCEPT ![w] = [j \in JobIds |->
                IF j \in batch THEN Claimed(jobs[j].order, jobs[j].attempts + 1) ELSE Idle]]
  BY DEF Claim
<1>2. /\ ~Busy(w) /\ sweeps[w].pc = "off"
      /\ UNCHANGED <<orderStatus, rows, sweeps, issued, budget>>
  BY DEF Claim, AtLoopTop, suppliers
<1>3. \A j \in JobIds \ batch : /\ jobs'[j] = jobs[j]
                                /\ tasks'[w][j].pc = "idle"
  BY <1>1 DEF TypeOK, Idle
<1>4. \A j \in batch : /\ j \in JobIds
                       /\ jobs[j].state = "queued"
                       /\ jobs'[j].order = jobs[j].order
                       /\ jobs'[j].state = "running"
                       /\ jobs'[j].attempts = jobs[j].attempts + 1
                       /\ tasks'[w][j].pc = "prepare"
                       /\ tasks'[w][j].attempt = jobs[j].attempts + 1
  BY <1>1 DEF ReadyJobs, Running, Claimed, Idle, TypeOK, Job
<1>5. \A v \in Workers : v = w
  BY DEF OneWorker
<1>6. \A p \in Orders, v \in Workers : SweptRests(p, v)'
  BY <1>2, <1>5 DEF SweptRests
<1>7. Setbacks(budget') = Setbacks(budget)
  BY <1>2
<1>8. \A j \in JobIds : tasks[w][j].pc = "idle"
  BY <1>2 DEF Busy
<1>9. \A j \in JobIds : Tries(j)' = Tries(j)
  <2> SUFFICES ASSUME NEW j \in JobIds PROVE Tries(j)' = Tries(j)
    OBVIOUS
  <2>1. Tries(j) = jobs[j].attempts + 1
    BY <1>5, <1>8 DEF Tries, InProgress
  <2>2. CASE j \in batch
    <3>1. InProgress(tasks'[w][j])
      BY <1>4, <2>2 DEF InProgress
    <3> QED
      BY <1>4, <2>1, <2>2, <3>1 DEF Tries, InProgress
  <2>3. CASE j \notin batch
    <3>1. \A v \in Workers : ~InProgress(tasks'[v][j])
      BY <1>3, <1>5, <2>3 DEF InProgress
    <3> QED
      BY <1>3, <2>1, <2>3, <3>1 DEF Tries, InProgress
  <2> QED
    BY <2>2, <2>3
<1> SUFFICES ASSUME NEW o \in Orders PROVE CalmOf(o)'
  OBVIOUS
<1>10. CalmOf(o)
  BY DEF CalmInv
<1>11. \A j \in JobIds :
          /\ jobs'[j].order = jobs[j].order
          /\ jobs'[j].state \in ActiveStates <=> jobs[j].state \in ActiveStates
  BY <1>3, <1>4 DEF ActiveStates
<1>12. ActiveJobs(o)' = ActiveJobs(o)
  BY <1>11 DEF ActiveJobs
<1>13. \A v \in Workers, j \in JobIds : tasks'[v][j].pc # "idle" =>
           tasks'[v][j].pc = "prepare" /\ tasks'[v][j].attempt = jobs'[j].attempts
  BY <1>3, <1>4, <1>5
<1>14. \A j \in JobIds : jobs'[j].order = o /\ jobs'[j].state \in ActiveStates =>
           \A i \in DOMAIN SupplierChain :
               IsNext(o, i) => Tries(j)' + Setbacks(budget') <= Setbacks(Budget) + i
  BY <1>7, <1>9, <1>10, <1>11 DEF CalmOf, EnoughTries
<1> QED
  BY <1>2, <1>6, <1>10, <1>11, <1>12, <1>13, <1>14, JobsMove

\* A death costs every attempt in hand, and a disturbance.
LEMMA CalmCrashes ==
    ASSUME TypeOK, TypeOK', RefusalInv, CalmInv, OneWorker, NEW w \in Workers, Crash(w)
    PROVE  \A p \in Orders : CalmOf(p)'
<1>1. Drop(w) /\ Spend({"crash"})
  <2>1. ~\E j \in JobIds : Spend({"crash", "delayed"})
    BY CannotSpend DEF RefusalInv
  <2> QED
    BY <2>1 DEF Crash
<1>2. /\ tasks' = [tasks EXCEPT ![w] = [j \in JobIds |-> Idle]]
      /\ sweeps' = [sweeps EXCEPT ![w] = SweepOff]
      /\ jobs' = Retain(jobs, tasks')
      /\ UNCHANGED <<orderStatus, rows, issued>>
  BY <1>1 DEF Drop
<1>3. \A v \in Workers : v = w
  BY DEF OneWorker
<1>4. \A v \in Workers : /\ sweeps'[v].pc = "off"
                         /\ \A j \in JobIds : tasks'[v][j].pc = "idle"
  BY <1>2, <1>3 DEF SweepOff, Idle, TypeOK
<1>5. \A p \in Orders, v \in Workers : SweptRests(p, v)'
  BY <1>4 DEF SweptRests
<1>6. Setbacks(budget') + 1 = Setbacks(budget)
  BY <1>1, SpendSetback
<1>7. /\ \A j \in JobIds : jobs'[j] \in {jobs[j], NoJob}
      /\ \A j \in JobIds : jobs[j].state \in ActiveStates => jobs'[j] = jobs[j]
  BY <1>2 DEF Retain
<1>8. NoJob.order \notin Orders
  BY DeliveryAssumption DEF DeliveryAssumption, NoJob
<1> SUFFICES ASSUME NEW o \in Orders PROVE CalmOf(o)'
  OBVIOUS
<1>9. CalmOf(o)
  BY DEF CalmInv
<1>10. \A j \in JobIds : jobs'[j].order = o => jobs'[j] = jobs[j]
  BY <1>7, <1>8
<1>11. ActiveJobs(o)' # {} \/ ActiveJobs(o) = {}
  BY <1>7 DEF ActiveJobs
<1>12. ASSUME NEW j \in JobIds, jobs'[j].order = o, jobs'[j].state \in ActiveStates,
              NEW i \in DOMAIN SupplierChain, IsNext(o, i)
       PROVE  Tries(j)' + Setbacks(budget') <= Setbacks(Budget) + i
  <2>1. jobs'[j] = jobs[j] /\ jobs[j].attempts \in Nat
    BY <1>10, <1>12 DEF TypeOK, Job
  <2>2. Tries(j)' = jobs[j].attempts + 1
    BY <1>4, <2>1 DEF Tries, InProgress
  <2>3. Tries(j) + Setbacks(budget) <= Setbacks(Budget) + i
    BY <1>9, <1>12, <2>1 DEF CalmOf, EnoughTries
  <2>4. Tries(j) \in Nat /\ jobs[j].attempts <= Tries(j)
    BY <2>1 DEF Tries
  <2>5. /\ i \in Nat /\ Setbacks(budget) \in Nat /\ Setbacks(Budget) \in Nat
        /\ Setbacks(budget') \in Nat
    BY BudgetsType, SetbacksType, ChainIsNumbered DEF TypeOK
  <2> QED
    BY <1>6, <2>1, <2>2, <2>3, <2>4, <2>5
<1>13. \A j \in JobIds : jobs'[j].order = o => jobs[j].order = o
  BY <1>10
<1>14. \A v \in Workers, j \in JobIds : ~(tasks'[v][j].pc # "idle" /\ tasks'[v][j].order = o)
  BY <1>4
<1>15. /\ orderStatus'[o] = orderStatus[o] /\ rows'[o] = rows[o]
       /\ \A s \in Suppliers : issued'[s][o] = issued[s][o]
  BY <1>2
<1> QED
  BY <1>5, <1>9, <1>11, <1>12, <1>13, <1>14, <1>15, JobsMove

-----------------------------------------------------------------------------
(* Steps of the sweeper *)

\* A sweep that neither writes rows nor queues a job.
LEMMA CalmLooks ==
    ASSUME TypeOK, TypeOK', CalmInv, OneWorker, NEW w \in Workers,
           SweepRequeue(w) \/ SweepCollect(w) \/ SweepFails(w)
    PROVE  \A p \in Orders : CalmOf(p)'
<1>1. /\ \A v \in Workers : v = w
      /\ UNCHANGED <<orderStatus, rows, tasks, issued>>
  BY DEF OneWorker, SweepRequeue, SweepCollect, SweepFails, database, suppliers
<1>2. \A p \in Orders : CalmOf(p)
  BY DEF CalmInv
<1>3. CASE SweepRequeue(w)
  <2>1. ~Busy(w) /\ sweeps'[w].pc = "collect"
    BY <1>3 DEF SweepRequeue, AtLoopTop, TypeOK, Sweep
  <2>2. \A j \in JobIds : ~Held(tasks, j)
    BY <1>1, <2>1 DEF Held, Busy
  <2>3. PICK stale \in SUBSET {j \in JobIds : jobs[j].state = "running"} :
            /\ IF \E j \in stale : Held(tasks, j) THEN Spend({"stall"})
                                                  ELSE UNCHANGED budget
            /\ jobs' = [j \in JobIds |-> IF j \in stale
                                         THEN [jobs[j] EXCEPT !.state = "queued"]
                                         ELSE jobs[j]]
    BY <1>3 DEF SweepRequeue
  <2>4. UNCHANGED budget
    BY <2>2, <2>3
  <2>5. \A j \in JobIds :
            /\ jobs'[j].order = jobs[j].order
            /\ jobs'[j].attempts = jobs[j].attempts
            /\ jobs'[j].state \in ActiveStates <=> jobs[j].state \in ActiveStates
    BY <2>3 DEF TypeOK, Job, ActiveStates
  <2>6. \A p \in Orders, v \in Workers : SweptRests(p, v)'
    BY <1>1, <2>1 DEF SweptRests
  <2>7. \A j \in JobIds : Tries(j)' = Tries(j)
    BY <1>1, <2>5 DEF Tries, InProgress
  <2> SUFFICES ASSUME NEW o \in Orders PROVE CalmOf(o)'
    OBVIOUS
  <2>8. ActiveJobs(o)' = ActiveJobs(o)
    BY <2>5 DEF ActiveJobs
  <2>9. \A j \in JobIds : jobs'[j].order = o => jobs[j].order = o
    BY <2>5
  <2>10. \A v \in Workers, j \in JobIds :
             tasks'[v][j] = tasks[v][j] /\ jobs'[j].attempts = jobs[j].attempts
    BY <1>1, <2>5
  <2>11. \A j \in JobIds : jobs'[j].order = o /\ jobs'[j].state \in ActiveStates =>
             \A i \in DOMAIN SupplierChain :
                 IsNext(o, i) => Tries(j)' + Setbacks(budget') <= Setbacks(Budget) + i
    BY <1>2, <2>4, <2>5, <2>7 DEF CalmOf, EnoughTries
  <2> QED
    BY <1>1, <1>2, <2>6, <2>8, <2>9, <2>10, <2>11, JobsMove
<1>4. CASE SweepCollect(w)
  <2>1. PICK stuck \in SUBSET StuckOrders :
            sweeps' = [sweeps EXCEPT ![w] =
                          IF stuck = {} THEN SweepOff
                          ELSE [pc |-> "reset", todo |-> stuck, current |-> NoOrder]]
    BY <1>4 DEF SweepCollect
  <2>2. UNCHANGED <<jobs, budget>> /\ Setbacks(budget') <= Setbacks(budget)
    BY <1>4, BudgetsType DEF SweepCollect, database
  <2>3. sweeps'[w].pc \in {"off", "reset"} /\ sweeps'[w].todo \subseteq StuckOrders
    BY <2>1 DEF SweepOff, TypeOK
  <2>4. \A p \in Orders, v \in Workers : SweptRests(p, v)'
    BY <1>1, <2>2, <2>3 DEF SweptRests, Resting, StuckOrders, ActiveJobs
  <2> QED
    BY <1>1, <1>2, <2>2, <2>4, OrderKept
<1>5. CASE SweepFails(w)
  <2>1. sweeps'[w].pc = "off" /\ UNCHANGED jobs /\ Spend({"db_error"})
    BY <1>5 DEF SweepFails, SweepOff, TypeOK, database
  <2>2. \A p \in Orders, v \in Workers : SweptRests(p, v)'
    BY <1>1, <2>1 DEF SweptRests
  <2>3. Setbacks(budget') <= Setbacks(budget)
    BY <2>1, SpendSetback
  <2> QED
    BY <1>1, <1>2, <2>1, <2>2, <2>3, OrderKept
<1> QED
  BY <1>3, <1>4, <1>5

\* Refusals are forgotten of orders at rest: nothing is asked for them.
LEMMA CalmResets ==
    ASSUME TypeOK, TypeOK', CalmInv, OneWorker, NEW w \in Workers, SweepReset(w)
    PROVE  \A p \in Orders : CalmOf(p)'
<1>1. PICK o \in sweeps[w].todo :
          /\ rows' = reset_known_negatives(o)
          /\ sweeps' = [sweeps EXCEPT ![w] = [pc |-> "enqueue",
                                              todo |-> sweeps[w].todo \ {o}, current |-> o]]
  BY DEF SweepReset
<1>2. /\ sweeps[w].pc = "reset" /\ o \in Orders
      /\ UNCHANGED <<orderStatus, jobs, tasks, issued, budget>>
      /\ Setbacks(budget') <= Setbacks(budget)
  BY <1>1, BudgetsType DEF SweepReset, suppliers, TypeOK, Sweep
<1>3. \A v \in Workers : v = w
  BY DEF OneWorker
<1>4. ~Busy(w) /\ \A p \in Orders : CalmOf(p)
  BY <1>2 DEF CalmInv
<1>5. \A p \in sweeps[w].todo : p \in Orders /\ Resting(p)
  BY <1>2, <1>4 DEF CalmOf, SweptRests, TypeOK, Sweep
<1>6. \A p \in Orders, v \in Workers : SweptRests(p, v)'
  <2>1. sweeps'[w].todo \subseteq sweeps[w].todo /\ sweeps'[w].current = o
    BY <1>1, <1>2 DEF TypeOK
  <2>2. \A p : Resting(p)' = Resting(p)
    BY <1>2 DEF Resting, ActiveJobs
  <2> QED
    BY <1>1, <1>3, <1>5, <2>1, <2>2 DEF SweptRests
<1>7. \A p \in Orders \ {o} : CalmOf(p)'
  <2>1. \A p \in Orders \ {o} : rows'[p] = rows[p]
    BY <1>1, <1>2 DEF reset_known_negatives, TypeOK
  <2> QED
    BY <1>2, <1>4, <1>6, <2>1, OrderKept
<1>8. CalmOf(o)'
  <2>1. /\ orderStatus[o] \in UNSETTLED_STATUSES /\ ActiveJobs(o) = {}
        /\ CalmOf(o) /\ Resting(o)
    BY <1>1, <1>4, <1>5 DEF Resting
  <2>2. ActiveJobs(o)' = {}
    BY <1>2, <2>1 DEF ActiveJobs
  <2>3. \A s \in Suppliers :
            \/ rows'[o][s] = rows[o][s]
            \/ rows[o][s].status = "known_negative" /\ rows'[o][s].status = "pending"
    BY <1>1, <1>2, ResetType DEF TypeOK
  <2>4. \A s \in Suppliers : ~Asked(o, s)'
    <3>1. \A s \in Suppliers : ~Asked(o, s)
      BY <2>1 DEF CalmOf, AskedIsNext
    <3> QED
      BY <1>2, <2>3, <3>1 DEF Asked
  <2>5. orderStatus'[o] \notin {"created", "payment_failed", "paid", "delivered"}
    BY <1>2, <2>1
    DEF CalmOf, PaidIsFresh, UNSETTLED_STATUSES, RECOVERABLE_STATUSES
  <2>6. /\ UnpaidHasNoJob(o)' /\ PaidIsFresh(o)' /\ AskedIsNext(o)' /\ DeliveredIsOver(o)'
    BY <2>4, <2>5 DEF UnpaidHasNoJob, PaidIsFresh, AskedIsNext, DeliveredIsOver
  <2>7. SuccessIsPlain(o)'
    BY <2>1, <2>3 DEF CalmOf, SuccessIsPlain
  <2>8. \A v \in Workers, j \in JobIds : TaskOf(o, v, j)'
    BY <1>2, <1>3, <1>4 DEF TaskOf, Busy
  <2>9. \A j \in JobIds : EnoughTries(o, j)'
    BY <2>2 DEF EnoughTries, ActiveJobs
  <2> QED
    BY <1>2, <1>6, <2>6, <2>7, <2>8, <2>9 DEF CalmOf
<1> QED
  BY <1>7, <1>8

\* A fresh job has every attempt before it.
LEMMA FreshTries ==
    ASSUME TypeOK, TypeOK', CalmInv, Setbacks(budget') <= Setbacks(Budget),
           NEW j \in JobIds, jobs'[j].attempts = 0,
           \A w \in Workers : tasks'[w][j].pc = "idle",
           NEW i \in DOMAIN SupplierChain
    PROVE  Tries(j)' + Setbacks(budget') <= Setbacks(Budget) + i
<1>1. Tries(j)' = 1
  BY DEF Tries, InProgress
<1>2. i \in Nat /\ i >= 1 /\ Setbacks(Budget) \in Nat /\ Setbacks(budget') \in Nat
  BY ChainIsNumbered, BudgetsType, SetbacksType DEF TypeOK
<1> QED
  BY <1>1, <1>2

\* What enqueue adds: a queued job in a row that nobody holds.
LEMMA EnqueueAdds ==
    ASSUME TypeOK, NEW o \in Orders, jobs' \in enqueue(o), ActiveJobs(o) = {}
    PROVE  \E j \in JobIds :
              /\ jobs'[j] = [order |-> o, state |-> "queued", attempts |-> 0]
              /\ jobs[j] = NoJob
              /\ \A k \in JobIds \ {j} : jobs'[k] = jobs[k]
              /\ \A w \in Workers : tasks[w][j].pc = "idle"
<1>1. PICK j \in JobIds :
          /\ jobs[j] = NoJob
          /\ jobs' = [jobs EXCEPT ![j] = [order |-> o, state |-> "queued", attempts |-> 0]]
  BY DEF enqueue
<1>2. NoJob.order \notin Orders
  BY DeliveryAssumption DEF DeliveryAssumption, NoJob
<1>3. \A w \in Workers : tasks[w][j].pc = "idle"
  BY <1>1, <1>2 DEF TypeOK, RecordsWhole
<1> QED
  BY <1>1, <1>3 DEF TypeOK

LEMMA CalmEnqueues ==
    ASSUME TypeOK, TypeOK', CalmInv, OneWorker, NEW w \in Workers, SweepEnqueue(w)
    PROVE  \A p \in Orders : CalmOf(p)'
<1>1. PICK o \in Orders : o = sweeps[w].current
  BY DEF SweepEnqueue, TypeOK, RecordsWhole
<1>2. /\ sweeps[w].pc = "enqueue" /\ jobs' \in enqueue(o)
      /\ sweeps' = [sweeps EXCEPT ![w] =
                     IF sweeps[w].todo = {} THEN SweepOff
                     ELSE [sweeps[w] EXCEPT !.pc = "reset", !.current = NoOrder]]
      /\ UNCHANGED <<orderStatus, rows, tasks, issued, budget>>
      /\ Setbacks(budget') = Setbacks(budget) /\ Setbacks(budget') <= Setbacks(budget)
  BY <1>1, BudgetsType DEF SweepEnqueue, suppliers
<1>3. \A v \in Workers : v = w
  BY DEF OneWorker
<1>4. /\ ~Busy(w) /\ o \notin sweeps[w].todo /\ \A p \in Orders : CalmOf(p)
      /\ Setbacks(budget') <= Setbacks(Budget)
  BY <1>1, <1>2 DEF CalmInv, NotTwice
<1>5. \A v \in Workers, k \in JobIds : tasks'[v][k] = tasks[v][k] /\ tasks[v][k].pc = "idle"
  BY <1>2, <1>3, <1>4 DEF Busy
<1>6. Resting(o) /\ ActiveJobs(o) = {} /\ orderStatus[o] \in UNSETTLED_STATUSES
  BY <1>1, <1>2, <1>4 DEF CalmOf, SweptRests, Resting
<1>7. PICK j \in JobIds :
          /\ jobs'[j] = [order |-> o, state |-> "queued", attempts |-> 0]
          /\ jobs[j] = NoJob
          /\ \A k \in JobIds \ {j} : jobs'[k] = jobs[k]
  BY <1>2, <1>6, EnqueueAdds
<1>8. NoJob.order \notin Orders /\ NoJob.state \notin ActiveStates
  BY DeliveryAssumption DEF DeliveryAssumption, NoJob, ActiveStates
<1>9. \A p \in Orders \ {o} : ActiveJobs(p)' = ActiveJobs(p)
  BY <1>7, <1>8 DEF ActiveJobs
<1>10. \A p \in Orders, v \in Workers : SweptRests(p, v)'
  <2>1. sweeps'[w].todo \subseteq sweeps[w].todo /\ sweeps'[w].pc \in {"off", "reset"}
    <3>1. CASE sweeps[w].todo = {}
      BY <1>2, <3>1 DEF SweepOff, TypeOK
    <3>2. CASE sweeps[w].todo # {}
      BY <1>2, <3>2 DEF TypeOK, Sweep
    <3> QED
      BY <3>1, <3>2
  <2>2. \A p \in Orders : p \in sweeps[w].todo => p # o /\ Resting(p)
    BY <1>2, <1>4 DEF CalmOf, SweptRests
  <2>3. \A p \in Orders \ {o} : Resting(p)' = Resting(p)
    BY <1>2, <1>9 DEF Resting
  <2> QED
    BY <1>3, <2>1, <2>2, <2>3 DEF SweptRests
<1>11. ASSUME NEW p \in Orders \ {o} PROVE CalmOf(p)'
  <2>1. \A k \in JobIds : jobs'[k].order = p \/ jobs[k].order = p => jobs'[k] = jobs[k]
    BY <1>7, <1>8
  <2> QED
    BY <1>2, <1>4, <1>5, <1>10, <2>1, OrderKept
<1>12. CalmOf(o)'
  <2>1. orderStatus[o] \notin {"created", "payment_failed"}
    BY <1>6 DEF UNSETTLED_STATUSES, RECOVERABLE_STATUSES
  <2>2. \A k \in JobIds : jobs'[k].order = o /\ jobs'[k].state \in ActiveStates => k = j
    BY <1>6, <1>7 DEF ActiveJobs
  <2>3. \A i \in DOMAIN SupplierChain :
            Tries(j)' + Setbacks(budget') <= Setbacks(Budget) + i
    BY <1>4, <1>5, <1>7, FreshTries
  <2>4. \A v \in Workers, k \in JobIds : tasks'[v][k].pc = "idle"
    BY <1>5
  <2> QED
    BY <1>2, <1>4, <1>6, <1>10, <2>1, <2>2, <2>3, <2>4, JobsMove
<1> QED
  BY <1>11, <1>12

-----------------------------------------------------------------------------
(* Steps outside the worker *)

\* The payment queues the job with the status; nothing was asked before it.
LEMMA CalmPays ==
    ASSUME TypeOK, TypeOK', MoneyInv, NothingLeavesUnpaid, CalmInv,
           NEW o \in Orders, Pay(o)
    PROVE  \A p \in Orders : CalmOf(p)'
<1>1. /\ orderStatus[o] = "created" /\ jobs' \in enqueue(o)
      /\ orderStatus' = [orderStatus EXCEPT ![o] = "paid"]
      /\ UNCHANGED <<rows, tasks, sweeps, issued, budget>>
      /\ Setbacks(budget') = Setbacks(budget) /\ Setbacks(budget') <= Setbacks(budget)
  BY BudgetsType DEF Pay, suppliers
<1>2. (\A p \in Orders : CalmOf(p)) /\ Setbacks(budget') <= Setbacks(Budget)
  BY <1>1 DEF CalmInv
<1>3. \A j \in JobIds : jobs[j].order # o
  BY <1>1, <1>2 DEF CalmOf, UnpaidHasNoJob
<1>4. ActiveJobs(o) = {}
  BY <1>3 DEF ActiveJobs
<1>5. PICK j \in JobIds :
          /\ jobs'[j] = [order |-> o, state |-> "queued", attempts |-> 0]
          /\ jobs[j] = NoJob
          /\ \A k \in JobIds \ {j} : jobs'[k] = jobs[k]
          /\ \A w \in Workers : tasks[w][j].pc = "idle"
  BY <1>1, <1>4, EnqueueAdds
<1>6. NoJob.order \notin Orders /\ NoJob.state \notin ActiveStates
  BY DeliveryAssumption DEF DeliveryAssumption, NoJob, ActiveStates
<1>7. /\ orderStatus'[o] = "paid"
      /\ \A p \in Orders \ {o} : orderStatus'[p] = orderStatus[p]
  BY <1>1 DEF TypeOK
<1>8. \A p \in Orders \ {o} : ActiveJobs(p)' = ActiveJobs(p)
  BY <1>5, <1>6 DEF ActiveJobs
<1>9. \A p \in Orders, w \in Workers : SweptRests(p, w)'
  <2>1. \A p \in Orders \ {o} : Resting(p)' = Resting(p)
    BY <1>7, <1>8 DEF Resting
  <2>2. ~Resting(o)
    BY <1>1 DEF Resting, UNSETTLED_STATUSES, RECOVERABLE_STATUSES
  <2> QED
    BY <1>1, <1>2, <2>1, <2>2 DEF CalmOf, SweptRests
<1>10. ASSUME NEW p \in Orders \ {o} PROVE CalmOf(p)'
  <2>1. \A k \in JobIds : jobs'[k].order = p \/ jobs[k].order = p => jobs'[k] = jobs[k]
    BY <1>5, <1>6
  <2> QED
    BY <1>1, <1>2, <1>7, <1>9, <2>1, OrderKept
<1>11. CalmOf(o)'
  <2>1. "payment_captured" \notin ledger[o]
    BY <1>1
    DEF MoneyInv, LiabilityMatchesStatus, UNSETTLED_STATUSES, RECOVERABLE_STATUSES
  <2>2. \A s \in Suppliers : rows[o][s].status = "absent" /\ issued[s][o] = NoCode
    BY <2>1 DEF NothingLeavesUnpaid
  <2>3. ActiveJobs(o)' # {}
    BY <1>5 DEF ActiveJobs, ActiveStates
  <2>4. \A k \in JobIds : jobs'[k].order = o => k = j
    BY <1>3, <1>5
  <2>5. UnpaidHasNoJob(o)' /\ PaidIsFresh(o)' /\ DeliveredIsOver(o)' /\ SuccessIsPlain(o)'
    BY <1>1, <1>7, <2>2, <2>3
    DEF UnpaidHasNoJob, PaidIsFresh, DeliveredIsOver, SuccessIsPlain
  <2>6. AskedIsNext(o)'
    BY <1>1, <2>2 DEF AskedIsNext, Asked
  <2>7. ASSUME NEW w \in Workers, NEW k \in JobIds PROVE TaskOf(o, w, k)'
    <3>1. ~(tasks[w][k].pc # "idle" /\ tasks[w][k].order = o)
      BY <1>3 DEF TypeOK, RecordsWhole
    <3> QED
      BY <1>1, <3>1 DEF TaskOf
  <2>8. \A i \in DOMAIN SupplierChain :
            Tries(j)' + Setbacks(budget') <= Setbacks(Budget) + i
    BY <1>1, <1>2, <1>5, FreshTries
  <2>9. \A k \in JobIds : EnoughTries(o, k)'
    BY <2>4, <2>8 DEF EnoughTries, Setbacks
  <2> QED
    BY <1>9, <2>5, <2>6, <2>7, <2>9 DEF CalmOf
<1> QED
  BY <1>10, <1>11

LEMMA CalmVoids ==
    ASSUME TypeOK, TypeOK', MoneyInv, NothingLeavesUnpaid, CalmInv,
           NEW o \in Orders, FailPayment(o)
    PROVE  \A p \in Orders : CalmOf(p)'
<1>1. /\ orderStatus[o] = "created"
      /\ orderStatus' = [orderStatus EXCEPT ![o] = "payment_failed"]
      /\ UNCHANGED <<rows, jobs, tasks, sweeps, issued, budget>>
      /\ Setbacks(budget') <= Setbacks(budget)
  BY BudgetsType DEF FailPayment, suppliers
<1>2. \A p \in Orders : CalmOf(p)
  BY DEF CalmInv
<1>3. \A j \in JobIds : jobs[j].order # o
  BY <1>1, <1>2 DEF CalmOf, UnpaidHasNoJob
<1>4. /\ orderStatus'[o] = "payment_failed"
      /\ \A p \in Orders \ {o} : orderStatus'[p] = orderStatus[p]
  BY <1>1 DEF TypeOK
<1>5. \A p \in Orders, w \in Workers : SweptRests(p, w)'
  <2>1. \A p \in Orders \ {o} : Resting(p)' = Resting(p)
    BY <1>1, <1>4 DEF Resting, ActiveJobs
  <2>2. ~Resting(o)
    BY <1>1 DEF Resting, UNSETTLED_STATUSES, RECOVERABLE_STATUSES
  <2> QED
    BY <1>1, <1>2, <2>1, <2>2 DEF CalmOf, SweptRests
<1>6. ASSUME NEW p \in Orders \ {o} PROVE CalmOf(p)'
  BY <1>1, <1>2, <1>4, <1>5, OrderKept
<1>7. CalmOf(o)'
  <2>1. "payment_captured" \notin ledger[o]
    BY <1>1
    DEF MoneyInv, LiabilityMatchesStatus, UNSETTLED_STATUSES, RECOVERABLE_STATUSES
  <2>2. \A s \in Suppliers : rows[o][s].status = "absent" /\ issued[s][o] = NoCode
    BY <2>1 DEF NothingLeavesUnpaid
  <2>3. UnpaidHasNoJob(o)' /\ PaidIsFresh(o)' /\ DeliveredIsOver(o)' /\ SuccessIsPlain(o)'
    BY <1>1, <1>3, <1>4, <2>2
    DEF UnpaidHasNoJob, PaidIsFresh, DeliveredIsOver, SuccessIsPlain
  <2>4. AskedIsNext(o)'
    BY <1>1, <2>2 DEF AskedIsNext, Asked
  <2>5. ASSUME NEW w \in Workers, NEW k \in JobIds PROVE TaskOf(o, w, k)'
    <3>1. ~(tasks[w][k].pc # "idle" /\ tasks[w][k].order = o)
      BY <1>3 DEF TypeOK, RecordsWhole
    <3> QED
      BY <1>1, <3>1 DEF TaskOf
  <2>6. \A k \in JobIds : EnoughTries(o, k)'
    BY <1>1, <1>3 DEF EnoughTries
  <2> QED
    BY <1>5, <2>3, <2>4, <2>5, <2>6 DEF CalmOf
<1> QED
  BY <1>6, <1>7

LEMMA CalmRestocks ==
    ASSUME TypeOK, TypeOK', CalmInv, NEW s \in Suppliers, Restock(s)
    PROVE  \A p \in Orders : CalmOf(p)'
<1>1. /\ Spend({"restock"})
      /\ UNCHANGED <<orderStatus, rows, jobs, tasks, sweeps, issued>>
  BY DEF Restock, database
<1>2. budget'["crash"] = budget["crash"] /\ budget'["db_error"] = budget["db_error"]
      /\ budget'["no_answer"] = budget["no_answer"]
  BY <1>1 DEF Spend, Disturbance, TypeOK
<1>3. Setbacks(budget') <= Setbacks(budget)
  BY <1>2, BudgetsType DEF Setbacks
<1>4. \A p \in Orders : CalmOf(p)
  BY DEF CalmInv
<1>5. \A p \in Orders, w \in Workers : SweptRests(p, w)'
  BY <1>1, <1>4 DEF CalmOf, SweptRests, Resting, ActiveJobs
<1> QED
  BY <1>1, <1>3, <1>4, <1>5, OrderKept

LEMMA CalmStutters ==
    ASSUME TypeOK, TypeOK', CalmInv, UNCHANGED vars
    PROVE  \A p \in Orders : CalmOf(p)'
<1>1. Setbacks(budget') <= Setbacks(budget)
  BY BudgetsType DEF vars
<1>2. \A p \in Orders : CalmOf(p)
  BY DEF CalmInv
<1>3. \A p \in Orders, w \in Workers : SweptRests(p, w)'
  BY <1>2 DEF CalmOf, SweptRests, Resting, ActiveJobs, vars
<1> QED
  BY <1>1, <1>2, <1>3, OrderKept DEF vars

LEMMA CalmOfStep ==
    ASSUME TypeOK, TypeOK', MoneyInv, NothingLeavesUnpaid, CodesInv, RunInv, RefusalInv,
           CalmInv, Calm, [Next]_vars
    PROVE  \A p \in Orders : CalmOf(p)'
<1>1. OneWorker /\ PatientJobs /\ Suppliers # {} /\ StocksApart
  BY DEF Calm
<1>2. ASSUME NEW w \in Workers, NEW j \in JobIds, TaskStep(w, j)
      PROVE  \A p \in Orders : CalmOf(p)'
  <2>1. ~SuccessConflicts(w, j)
    BY <1>1, NoConflict DEF SuccessConflicts
  <2>2. ~RecordSuperseded(w, j)
    BY <1>1, RunAlone DEF RecordSuperseded, TaskOf
  <2>3. ~RescheduleBreaks(w, j)
    BY <1>1, RunAlone DEF RescheduleBreaks
  <2> QED
    BY <1>1, <1>2, <2>1, <2>2, <2>3, CalmSkips, CalmEnds, CalmTargets, CalmSuccess,
       CalmRefusal, CalmUnknown, CalmFinishes, CalmReschedules DEF TaskStep
<1>3. ASSUME NEW w \in Workers, NEW j \in JobIds, ExchangeStep(w, j) \/ DatabaseFails(w, j)
      PROVE  \A p \in Orders : CalmOf(p)'
  BY <1>1, <1>3, CalmExchange, CalmFails
<1>4. ASSUME NEW w \in Workers, Claim(w) \/ SweepStep(w) \/ SweepFails(w) \/ Crash(w)
      PROVE  \A p \in Orders : CalmOf(p)'
  BY <1>1, <1>4, CalmClaims, CalmLooks, CalmResets, CalmEnqueues, CalmCrashes DEF SweepStep
<1>5. ASSUME NEW o \in Orders,
             Pay(o) \/ FailPayment(o) \/ RetryResets(o) \/ RetryEnqueues(o)
      PROVE  \A p \in Orders : CalmOf(p)'
  <2>1. ~RetryResets(o) /\ ~RetryEnqueues(o)
    BY CannotSpend DEF CalmInv, RetryResets, RetryEnqueues
  <2> QED
    BY <1>5, <2>1, CalmPays, CalmVoids
<1>6. ASSUME \E s \in Suppliers : Restock(s)
      PROVE  \A p \in Orders : CalmOf(p)'
  BY <1>6, CalmRestocks
<1>7. ~LateRequestServed
  BY DEF RefusalInv, LateRequestServed
<1> QED
  BY <1>2, <1>3, <1>4, <1>5, <1>6, <1>7, CalmStutters DEF Next

-----------------------------------------------------------------------------
(* The whole invariant *)

LEMMA SetbacksBounded ==
    ASSUME TypeOK, TypeOK', CalmInv, [Next]_vars
    PROVE  Setbacks(budget') <= Setbacks(Budget)
<1>1. \A d \in Disturbance : budget'[d] \in Nat /\ budget[d] \in Nat /\ budget'[d] <= budget[d]
  <2>1. CASE UNCHANGED budget
    BY <2>1 DEF TypeOK
  <2>2. ASSUME NEW kinds, Spend(kinds)
        PROVE  \A d \in Disturbance : budget'[d] \in Nat /\ budget[d] \in Nat
                                      /\ budget'[d] <= budget[d]
    BY <2>2 DEF Spend, TypeOK
  <2> QED
    BY <2>1, <2>2, EveryBudget
<1>2. /\ budget'["crash"] <= budget["crash"] /\ budget'["db_error"] <= budget["db_error"]
      /\ budget'["no_answer"] <= budget["no_answer"]
      /\ budget'["crash"] \in Nat /\ budget'["db_error"] \in Nat /\ budget'["no_answer"] \in Nat
      /\ budget["crash"] \in Nat /\ budget["db_error"] \in Nat /\ budget["no_answer"] \in Nat
  BY <1>1 DEF Disturbance
<1>3. Setbacks(budget') <= Setbacks(budget)
  BY <1>2 DEF Setbacks
<1>4. Setbacks(budget) <= Setbacks(Budget)
  BY DEF CalmInv
<1>5. Setbacks(budget) \in Nat /\ Setbacks(Budget) \in Nat /\ Setbacks(budget') \in Nat
  BY BudgetsType, SetbacksType DEF TypeOK
<1> QED
  BY <1>3, <1>4, <1>5

LEMMA NoRetries ==
    ASSUME TypeOK, CalmInv, [Next]_vars
    PROVE  budget'["retry"] = 0 /\ retrying' = {}
<1>1. budget'["retry"] = 0
  BY SpentStaysSpent DEF CalmInv, Disturbance
<1>2. \A o \in Orders : ~RetryResets(o) /\ ~RetryEnqueues(o)
  BY CannotSpend DEF CalmInv, RetryResets, RetryEnqueues
<1>3. ASSUME NEW w \in Workers, NEW j \in JobIds,
             TaskStep(w, j) \/ ExchangeStep(w, j) \/ DatabaseFails(w, j)
      PROVE  UNCHANGED retrying
  BY <1>3 DEF TaskStep, PrepareSkips, PrepareEnds, PrepareTargets,
     SuccessConflicts, RecordSuccess, RecordSuperseded, RecordRefusal, RecordUnknown,
     FinishJob, RescheduleJob, RescheduleBreaks, Drop, ExchangeStep, SupplierIssues,
     SupplierRefuses, ConnectFails, AnswerLost, RequestLost, RequestDelayed, NothingLearnt,
     DatabaseFails
<1>4. ASSUME NEW w \in Workers, Claim(w) \/ SweepStep(w) \/ SweepFails(w) \/ Crash(w)
      PROVE  UNCHANGED retrying
  BY <1>4 DEF Claim, SweepStep, SweepRequeue, SweepCollect, SweepReset, SweepEnqueue,
     SweepFails, Crash, Drop
<1>5. ASSUME \/ UNCHANGED vars
             \/ \E o \in Orders : Pay(o) \/ FailPayment(o)
             \/ \E s \in Suppliers : Restock(s)
             \/ LateRequestServed
      PROVE  UNCHANGED retrying
  BY <1>5 DEF vars, Pay, FailPayment, Restock, LateRequestServed
<1>6. UNCHANGED retrying
  BY <1>2, <1>3, <1>4, <1>5 DEF Next
<1> QED
  BY <1>1, <1>6 DEF CalmInv

\* One worker sweeps or works, and takes up an order once in a pass.
LEMMA SweepsOrWorks ==
    ASSUME TypeOK, RunInv, CalmInv, OneWorker, [Next]_vars
    PROVE  \A w \in Workers : NotTwice(w)' /\ (sweeps'[w].pc # "off" => ~Busy(w)')
<1> USE DEF NotTwice
<1>1. \A w \in Workers : NotTwice(w) /\ (sweeps[w].pc # "off" => ~Busy(w))
  BY DEF CalmInv
<1>2. \A w, v \in Workers : w = v
  BY DEF OneWorker
<1>3. ASSUME NEW w \in Workers, NEW j \in JobIds,
             TaskStep(w, j) \/ ExchangeStep(w, j) \/ DatabaseFails(w, j)
      PROVE  sweeps'[w].pc = "off"
  <2>1. tasks[w][j].pc # "idle"
    BY <1>3, StepOfTask
  <2>2. sweeps[w].pc = "off"
    BY <1>1, <2>1 DEF Busy
  <2>3. UNCHANGED sweeps \/ sweeps' = [sweeps EXCEPT ![w] = SweepOff]
    BY <1>3 DEF TaskStep, PrepareSkips, PrepareEnds, PrepareTargets,
     SuccessConflicts, RecordSuccess, RecordSuperseded, RecordRefusal, RecordUnknown,
     FinishJob, RescheduleJob, RescheduleBreaks, Drop, ExchangeStep, SupplierIssues,
     SupplierRefuses, ConnectFails, AnswerLost, RequestLost, RequestDelayed, NothingLearnt,
     DatabaseFails
  <2> QED
    BY <2>2, <2>3 DEF SweepOff, TypeOK
<1>4. ASSUME NEW w \in Workers, Claim(w) \/ SweepFails(w) \/ Crash(w)
      PROVE  sweeps'[w].pc = "off"
  BY <1>4 DEF Claim, AtLoopTop, SweepFails, Crash, Drop, SweepOff, TypeOK
<1>5. ASSUME NEW w \in Workers, SweepStep(w)
      PROVE  NotTwice(w)' /\ ~Busy(w)'
  <2>1. ~Busy(w) /\ UNCHANGED tasks
    BY <1>1, <1>5 DEF SweepStep, SweepRequeue, AtLoopTop, SweepCollect, SweepReset,
       SweepEnqueue
  <2>2. ~Busy(w)'
    BY <2>1 DEF Busy
  <2>3. CASE SweepRequeue(w)
    <3>1. sweeps'[w].pc = "collect"
      BY <2>3 DEF SweepRequeue, TypeOK, Sweep
    <3> QED
      BY <2>2, <3>1
  <2>4. CASE SweepCollect(w)
    <3>1. PICK stuck : sweeps'[w] =
              IF stuck = {} THEN SweepOff
              ELSE [pc |-> "reset", todo |-> stuck, current |-> NoOrder]
      BY <2>4 DEF SweepCollect, TypeOK
    <3>2. sweeps'[w].pc \in {"off", "reset"}
      BY <3>1 DEF SweepOff
    <3> QED
      BY <2>2, <3>2
  <2>5. CASE SweepReset(w)
    <3>1. PICK o : sweeps'[w] = [pc |-> "enqueue", todo |-> sweeps[w].todo \ {o},
                                 current |-> o]
      BY <2>5 DEF SweepReset, TypeOK
    <3>2. sweeps'[w].current \notin sweeps'[w].todo
      BY <3>1
    <3> QED
      BY <2>2, <3>2
  <2>6. CASE SweepEnqueue(w)
    <3>1. sweeps'[w] = IF sweeps[w].todo = {} THEN SweepOff
                       ELSE [sweeps[w] EXCEPT !.pc = "reset", !.current = NoOrder]
      BY <2>6 DEF SweepEnqueue, TypeOK
    <3>2. sweeps'[w].pc \in {"off", "reset"}
      BY <3>1 DEF SweepOff, TypeOK, Sweep
    <3> QED
      BY <2>2, <3>2
  <2> QED
    BY <1>5, <2>2, <2>3, <2>4, <2>5, <2>6 DEF SweepStep
<1>6. ASSUME \/ UNCHANGED vars
             \/ \E o \in Orders : Pay(o) \/ FailPayment(o) \/ RetryResets(o) \/ RetryEnqueues(o)
             \/ \E s \in Suppliers : Restock(s)
             \/ LateRequestServed
      PROVE  UNCHANGED <<tasks, sweeps>>
  BY <1>6 DEF vars, Pay, FailPayment, RetryResets, RetryEnqueues, Restock, LateRequestServed
<1>7. UNCHANGED <<tasks, sweeps>> =>
          \A w \in Workers : NotTwice(w)' /\ (sweeps'[w].pc # "off" => ~Busy(w)')
  BY <1>1 DEF Busy
<1> QED
  BY <1>2, <1>3, <1>4, <1>5, <1>6, <1>7 DEF Next

\* A key that is bound comes from its supplier's pool, where nobody else has it.
LEMMA StockStep ==
    ASSUME TypeOK, TypeOK', KeysApart, KeysInStock, [Next]_vars
    PROVE  KeysInStock'
<1>1. CASE UNCHANGED <<free, issued>>
  BY <1>1 DEF KeysInStock
<1>2. ASSUME NEW s \in Suppliers, NEW o \in Orders, CanIssue(s, o), KeyStoreIssue(s, o)
      PROVE  KeysInStock'
  <2>1. CASE issued[s][o] # NoCode
    BY <1>1, <1>2, <2>1 DEF KeyStoreIssue
  <2>2. CASE issued[s][o] = NoCode
    <3> DEFINE c == Head(free[s])
    <3>1. /\ free[s] # <<>> /\ free[s] \in Seq(Codes)
          /\ issued' = [issued EXCEPT ![s][o] = c]
          /\ free' = [free EXCEPT ![s] = Tail(free[s])]
      BY <1>2, <2>2 DEF KeyStoreIssue, CanIssue, TypeOK
    <3>2. 1 \in DOMAIN free[s] /\ c = free[s][1]
      BY <3>1
    <3>3. c \in Stock(s) /\ \A p \in Orders : issued[s][p] # c
      BY <3>2 DEF KeysInStock, KeysApart
    <3>4. /\ issued'[s][o] = c
          /\ \A r \in Suppliers, p \in Orders : r # s \/ p # o => issued'[r][p] = issued[r][p]
      BY <3>1 DEF TypeOK
    <3>5. \A i \in DOMAIN Tail(free[s]) :
              i + 1 \in DOMAIN free[s] /\ Tail(free[s])[i] = free[s][i + 1]
      BY <3>1
    <3>6. /\ free'[s] = Tail(free[s])
          /\ \A r \in Suppliers \ {s} : free'[r] = free[r]
      BY <3>1 DEF TypeOK
    <3>7. \A r \in Suppliers : \A i \in DOMAIN free'[r] : free'[r][i] \in Stock(r)
      <4>1. \A r \in Suppliers : \A i \in DOMAIN free[r] : free[r][i] \in Stock(r)
        BY DEF KeysInStock
      <4>2. \A i \in DOMAIN free'[s] : free'[s][i] \in Stock(s)
        BY <3>5, <3>6, <4>1
      <4> QED
        BY <3>6, <4>1, <4>2
    <3> HIDE DEF c
    <3>8. \A r \in Suppliers : \A p \in Orders : issued'[r][p] \in Stock(r) \cup {NoCode}
      BY <3>3, <3>4 DEF KeysInStock
    <3>9. \A r \in Suppliers : \A p, q \in Orders :
              issued'[r][p] = issued'[r][q] /\ issued'[r][p] # NoCode => p = q
      BY <3>3, <3>4 DEF KeysInStock
    <3> QED
      BY <3>7, <3>8, <3>9 DEF KeysInStock, Stock
  <2> QED
    BY <2>1, <2>2
<1>3. ASSUME NEW s \in Suppliers, Restock(s)
      PROVE  KeysInStock'
  <2>1. PICK key \in RestockKeys[s] : free' = [free EXCEPT ![s] = Append(@, key)]
    BY <1>3 DEF Restock
  <2>2. UNCHANGED issued /\ key \in Stock(s)
    BY <1>3 DEF Restock, Stock
  <2>3. /\ free'[s] = Append(free[s], key) /\ free[s] \in Seq(Codes)
        /\ \A r \in Suppliers \ {s} : free'[r] = free[r]
    BY <2>1 DEF TypeOK
  <2>4. \A i \in DOMAIN Append(free[s], key) :
            \/ Append(free[s], key)[i] = key
            \/ i \in DOMAIN free[s] /\ Append(free[s], key)[i] = free[s][i]
    BY <2>3
  <2>5. \A r \in Suppliers : \A i \in DOMAIN free'[r] : free'[r][i] \in Stock(r)
    BY <2>2, <2>3, <2>4 DEF KeysInStock
  <2> QED
    BY <2>2, <2>5 DEF KeysInStock, Stock
<1> QED
  BY <1>1, <1>2, <1>3, EveryPool

LEMMA CalmStep ==
    ASSUME TypeOK, TypeOK', MoneyInv, NothingLeavesUnpaid, CodesInv, RunInv, RefusalInv,
           CalmInv, Calm, [Next]_vars
    PROVE  CalmInv'
<1>1. OneWorker /\ KeysApart /\ KeysInStock
  BY DEF Calm, CalmInv
<1>2. KeysApart' /\ KeysInStock'
  BY <1>1, PoolStep, StockStep
<1>3. Setbacks(budget)' <= Setbacks(Budget)
  BY SetbacksBounded DEF Setbacks
<1>4. budget'["retry"] = 0 /\ retrying' = {}
  BY NoRetries
<1>5. \A w \in Workers : NotTwice(w)' /\ (sweeps'[w].pc # "off" => ~Busy(w)')
  BY <1>1, SweepsOrWorks
<1>6. \A o \in Orders : CalmOf(o)'
  BY CalmOfStep
<1> QED
  BY <1>2, <1>3, <1>4, <1>5, <1>6 DEF CalmInv, Setbacks

LEMMA CalmInit == Init /\ Calm => CalmInv
<1> SUFFICES ASSUME Init, Calm PROVE CalmInv
  OBVIOUS
<1>1. TypeOK
  BY TypeInit
<1>2. Setbacks(budget) <= Setbacks(Budget) /\ budget["retry"] = 0 /\ retrying = {}
  BY <1>1, BudgetsType DEF Init, Calm
<1>3. \A w \in Workers : NotTwice(w) /\ sweeps[w].pc = "off"
  BY DEF Init, NotTwice, SweepOff
<1>4. KeysApart
  BY DeliveryAssumption DEF Init, Calm, KeysDistinct, KeysApart, DeliveryAssumption
<1>5. KeysInStock
  BY DeliveryAssumption DEF Init, KeysInStock, Stock, DeliveryAssumption
<1>6. ASSUME NEW o \in Orders PROVE CalmOf(o)
  <2>1. /\ orderStatus[o] = "created"
        /\ \A s \in Suppliers : rows[o][s] = NoRow /\ issued[s][o] = NoCode
        /\ \A j \in JobIds : jobs[j] = NoJob
        /\ \A w \in Workers, j \in JobIds : tasks[w][j] = Idle
    BY DEF Init
  <2>2. NoJob.order # o /\ NoRow.status = "absent" /\ Idle.pc = "idle"
    BY DeliveryAssumption DEF DeliveryAssumption, NoJob, NoRow, Idle
  <2>3. /\ UnpaidHasNoJob(o) /\ PaidIsFresh(o) /\ AskedIsNext(o)
        /\ DeliveredIsOver(o) /\ SuccessIsPlain(o)
    BY <2>1, <2>2 DEF UnpaidHasNoJob, PaidIsFresh, AskedIsNext, Asked, DeliveredIsOver,
       SuccessIsPlain
  <2>4. /\ \A w \in Workers, j \in JobIds : TaskOf(o, w, j)
        /\ \A j \in JobIds : EnoughTries(o, j)
        /\ \A w \in Workers : SweptRests(o, w)
    BY <1>3, <2>1, <2>2 DEF TaskOf, EnoughTries, SweptRests
  <2> QED
    BY <2>3, <2>4 DEF CalmOf
<1> QED
  BY <1>2, <1>3, <1>4, <1>5, <1>6 DEF CalmInv

\* Everything the calm theorems rest on, at once.
AllInv == /\ TypeOK /\ MoneyInv /\ NothingLeavesUnpaid /\ CodesInv
          /\ RunInv /\ RefusalInv /\ CalmInv

LEMMA CalmInvariant == Calm => (Spec => []AllInv)
<1>1. NothingLeavesUnpaid /\ TypeOK /\ TypeOK' /\ MoneyInv /\ CodesInv /\ RunInv
          /\ RefusalInv /\ CalmInv /\ Calm /\ [Next]_vars => CalmInv' /\ RefusalInv'
  BY CalmStep, RefusalStep
<1>2. ASSUME Calm PROVE Spec => []AllInv
  <2>1. NoStall /\ NoLateIssue
    BY <1>2 DEF Calm
  <2>2. Init => RefusalInv
    BY <2>1 DEF Init, NoLateIssue, RefusalInv, KnownNegativeIsProof, Idle, NoRow
  <2>3. Init => CalmInv
    BY <1>2, CalmInit
  <2>4. TypeOK /\ TypeOK' /\ NothingLeavesUnpaid /\ MoneyInv /\ CodesInv /\ RunInv
            /\ RefusalInv /\ CalmInv /\ [Next]_vars => CalmInv' /\ RefusalInv'
    BY <1>1, <1>2
  <2> QED
    BY <2>1, <2>2, <2>3, <2>4, TypeCorrect, MoneyInvariant, UnpaidStaysUntouched,
       CodesInvariant, RunInvariant, PTL DEF Spec, AllInv
<1> QED
  BY <1>2

-----------------------------------------------------------------------------
(* What the design promises *)

\* models/delivery.py:65-67: the job is queued in the transaction that marks the
\* order paid, and it leaves the queue only when its order has left "paid": no
\* crash, failed transaction, requeue or sweep loses it.
THEOREM PaidOrderHasJob == Calm => (Spec => []PaidHasJob)
<1>1. AllInv => PaidHasJob
  BY DEF AllInv, CalmInv, CalmOf, PaidIsFresh, PaidHasJob
<1> QED
  BY <1>1, CalmInvariant, PTL

\* domain/fallback.py:7-10: while the outcome of one supplier is unknown, that
\* supplier is the one that is asked, by the same job or, after a crash, by the
\* next attempt: no other gets the order.
THEOREM UnknownAsksAgain == Calm => (Spec => []UnknownIsSticky)
<1>1. AllInv /\ OneWorker => UnknownIsSticky
  <2> SUFFICES ASSUME AllInv, OneWorker,
                      NEW w \in Workers, NEW j \in JobIds, tasks[w][j].pc = "call",
                      NEW s \in Suppliers, s # tasks[w][j].supplier,
                      rows[tasks[w][j].order][s].status = "unknown"
               PROVE  FALSE
    BY DEF UnknownIsSticky
  <2>1. PICK o \in Orders : o = tasks[w][j].order
    BY RunAlone DEF AllInv
  <2>2. NextIs(o, tasks[w][j].supplier) /\ AskedIsNext(o)
    BY <2>1, RunAlone DEF AllInv, TaskOf, CalmOf
  <2>3. NextIs(o, s)
    BY <2>1, <2>2 DEF AskedIsNext, Asked
  <2> QED
    BY <2>2, <2>3, OneIsNext
<1>2. ASSUME Calm PROVE Spec => []UnknownIsSticky
  <2>1. AllInv => UnknownIsSticky
    BY <1>1, <1>2 DEF Calm
  <2> QED
    BY <1>2, <2>1, CalmInvariant, PTL
<1> QED
  BY <1>2

\* A code that a supplier has bound is never out of reach: until the order has
\* it, the next attempt asks that supplier, and so no second key is spent.
THEOREM BoundCodeIsReachable == Calm => (Spec => []IssuedCodeStaysReachable)
<1>1. AllInv => IssuedCodeStaysReachable
  <2> SUFFICES ASSUME AllInv, NEW o \in Orders, NEW s \in Suppliers, issued[s][o] # NoCode
               PROVE  \/ /\ orderStatus[o] \in UNSETTLED_STATUSES
                         /\ choose_supplier(statuses(o)) = s
                      \/ rows[o][s] = [status |-> "succeeded", code |-> issued[s][o],
                                       reason |-> "none"]
    BY DEF IssuedCodeStaysReachable
  <2>1. AskedIsNext(o) /\ SuccessIsPlain(o)
    BY DEF AllInv, CalmInv, CalmOf
  <2>2. CASE rows[o][s].status = "succeeded"
    <3>1. rows[o][s].code = issued[s][o] /\ rows[o][s].reason = "none"
      BY <2>1, <2>2 DEF AllInv, CodesInv, SuccessIsIssued, SuccessIsPlain
    <3>2. rows[o][s] \in Row
      BY DEF AllInv, TypeOK
    <3> QED
      BY <2>2, <3>1, <3>2 DEF Row
  <2>3. CASE rows[o][s].status # "succeeded"
    <3>1. orderStatus[o] = "delivering" /\ NextIs(o, s)
      BY <2>1, <2>3 DEF AskedIsNext, Asked
    <3>2. choose_supplier(statuses(o)) = s
      BY <3>1, ChosenIsNext DEF NextIs
    <3> QED
      BY <3>1, <3>2 DEF UNSETTLED_STATUSES
  <2> QED
    BY <2>2, <2>3
<1> QED
  BY <1>1, CalmInvariant, PTL

-----------------------------------------------------------------------------
(* Exactly once *)

\* The phase of an order is read off its status.
PhaseIn(status) == CASE status = "created" -> "open"
                     [] status = "payment_failed" -> "void"
                     [] status \in UNSETTLED_STATUSES -> "owed"
                     [] status = "delivered" -> "settled"

LEMMA PhaseOfStatus ==
    /\ PhaseIn("created") = "open"
    /\ PhaseIn("payment_failed") = "void"
    /\ \A status \in UNSETTLED_STATUSES : PhaseIn(status) = "owed"
    /\ PhaseIn("delivered") = "settled"
<1>1. /\ "created" \notin UNSETTLED_STATUSES
      /\ "payment_failed" \notin UNSETTLED_STATUSES
      /\ "delivered" \notin UNSETTLED_STATUSES
  BY DEF UNSETTLED_STATUSES, RECOVERABLE_STATUSES
<1>2. \A status \in UNSETTLED_STATUSES :
          status # "created" /\ status # "payment_failed" /\ status # "delivered"
  BY <1>1
<1> QED
  BY <1>1, <1>2 DEF PhaseIn

LEMMA PhaseReads ==
    /\ Phase = [o \in Orders |-> PhaseIn(orderStatus[o])]
    /\ Phase' = [o \in Orders |-> PhaseIn(orderStatus'[o])]
BY DEF Phase, PhaseIn

LEMMA PhaseMoves ==
    ASSUME NEW o \in Orders, \A p \in Orders \ {o} : orderStatus'[p] = orderStatus[p]
    PROVE  Phase' = [Phase EXCEPT ![o] = PhaseIn(orderStatus'[o])]
BY PhaseReads

\* The code that is handed over is the one its supplier has bound.
LEMMA HandedIsIssued ==
    ASSUME CodesInv, NEW o \in Orders, NEW s \in Suppliers, rows[o][s].status = "succeeded"
    PROVE  HandedCode[o] = issued[s][o] /\ HandedCode[o] # NoCode
<1>1. Succeeded(o) = {s}
  BY DEF CodesInv, OneSuccess, Succeeded
<1>2. HandedCode[o] = rows[o][s].code
  BY <1>1 DEF HandedCode
<1> QED
  BY <1>2 DEF CodesInv, SuccessIsIssued

\* A success is never overwritten.
LEMMA SuccessStays ==
    ASSUME TypeOK, MoneyInv, RunInv, [Next]_vars,
           NEW o \in Orders, NEW s \in Suppliers, rows[o][s].status = "succeeded"
    PROVE  rows'[o][s] = rows[o][s]
<1>1. orderStatus[o] = "delivered"
  BY DEF MoneyInv, SucceededImpliesDelivered, Succeeded
<1>2. ~\E w \in Workers, j \in JobIds : AnswerRecorded(w, j, o, s)
  BY <1>1 DEF AnswerRecorded, RunInv, CallIsCurrent
<1> QED
  BY <1>2, EveryRow DEF RowStep

\* What a customer has is his until the end, and nobody has a code but by being
\* delivered.
LEMMA HandedStays ==
    ASSUME AllInv, CodesInv', MoneyInv', [Next]_vars, NEW o \in Orders,
           orderStatus'[o] = "delivered" => orderStatus[o] = "delivered"
    PROVE  HandedCode'[o] = HandedCode[o]
<1>1. CASE Succeeded(o) = {}
  <2>1. orderStatus[o] # "delivered"
    BY <1>1 DEF AllInv, RunInv, DeliveredHasCode
  <2>2. Succeeded(o)' = {}
    BY <2>1 DEF MoneyInv, SucceededImpliesDelivered
  <2> QED
    BY <1>1, <2>2 DEF HandedCode
<1>2. CASE Succeeded(o) # {}
  <2>1. PICK s \in Suppliers : rows[o][s].status = "succeeded"
    BY <1>2 DEF Succeeded
  <2>2. rows'[o][s] = rows[o][s]
    BY <2>1, SuccessStays DEF AllInv
  <2>3. Succeeded(o) = {s} /\ Succeeded(o)' = {s}
    BY <2>1, <2>2 DEF AllInv, CodesInv, OneSuccess, Succeeded
  <2> QED
    BY <2>2, <2>3 DEF HandedCode
<1> QED
  BY <1>1, <1>2

LEMMA HandedKept ==
    ASSUME AllInv, CodesInv', MoneyInv', [Next]_vars, NEW S \in SUBSET Orders,
           \A o \in S : orderStatus'[o] = "delivered" => orderStatus[o] = "delivered"
    PROVE  /\ \A o \in S : HandedCode'[o] = HandedCode[o]
           /\ S = Orders => HandedCode' = HandedCode
<1>1. \A o \in S : HandedCode'[o] = HandedCode[o]
  BY HandedStays
<1>2. HandedCode' = [o \in Orders |-> HandedCode'[o]]
      /\ HandedCode = [o \in Orders |-> HandedCode[o]]
  BY DEF HandedCode
<1> HIDE DEF HandedCode
<1> QED
  BY <1>1, <1>2

\* A supplier that binds a code is the first to do so for the order.
LEMMA BindsOnce ==
    ASSUME AllInv, AllInv', [Next]_vars, NEW o \in Orders, NEW s \in Suppliers,
           issued'[s][o] # issued[s][o]
    PROVE  [Promise!Next]_Promise!vars
<1>1. PICK w \in Workers, j \in JobIds :
          /\ ExchangeStep(w, j) /\ UNCHANGED rows
          /\ tasks[w][j].order = o /\ tasks[w][j].supplier = s
  BY IssuedByCall DEF AllInv, RefusalInv
<1>2. tasks[w][j].pc = "call"
  BY <1>1, ExchangeLeaves DEF AllInv
<1>3. orderStatus[o] = "delivering" /\ issued[s][o] = NoCode
  BY <1>1, <1>2, IssuedOnce DEF AllInv, RunInv, CallIsCurrent
<1>4. UNCHANGED orderStatus /\ KeyStoreIssue(s, o)
  BY <1>1 DEF ExchangeStep, SupplierIssues, SupplierRefuses, ConnectFails, AnswerLost,
     RequestLost, RequestDelayed, NothingLearnt, database, suppliers
<1>5. PICK c : c = issued'[s][o]
  OBVIOUS
<1>6. /\ c \in Codes /\ c # NoCode
      /\ \A r \in Suppliers, p \in Orders : r # s \/ p # o => issued'[r][p] = issued[r][p]
  BY <1>3, <1>4, <1>5 DEF AllInv, TypeOK, KeyStoreIssue
<1>7. \A r \in Suppliers \ {s} : issued'[r][o] = NoCode /\ issued[r][o] = NoCode
  <2> SUFFICES ASSUME NEW r \in Suppliers \ {s}, issued[r][o] # NoCode
               PROVE  FALSE
    BY <1>6
  <2>1. rows'[o][r].status # "succeeded"
    BY <1>3, <1>4 DEF AllInv, MoneyInv, SucceededImpliesDelivered, Succeeded
  <2>2. Asked(o, r)' /\ Asked(o, s)'
    <3>1. rows'[o][s].status # "succeeded"
      BY <1>3, <1>4 DEF AllInv, MoneyInv, SucceededImpliesDelivered, Succeeded
    <3> QED
      BY <1>5, <1>6, <2>1, <3>1 DEF Asked
  <2>3. Asked(o, r)
    BY <1>1, <2>1 DEF Asked
  <2>4. NextIs(o, r) /\ CalmOf(o)
    BY <2>3 DEF AllInv, CalmInv, CalmOf, AskedIsNext
  <2>5. NextIs(o, s)
    BY <1>1, <1>2, <2>4 DEF AllInv, CalmInv, CalmOf, TaskOf
  <2> QED
    BY <2>4, <2>5, OneIsNext
<1>8. BoundCodes[o] = {}
  BY <1>3, <1>7 DEF BoundCodes
<1>9. BoundCodes' = [BoundCodes EXCEPT ![o] = {c}]
  <2>1. BoundCodes'[o] = {c}
    BY <1>5, <1>6, <1>7 DEF BoundCodes
  <2>2. \A p \in Orders \ {o} : BoundCodes'[p] = BoundCodes[p]
    BY <1>6 DEF BoundCodes
  <2>3. BoundCodes' = [p \in Orders |-> BoundCodes'[p]]
        /\ BoundCodes = [p \in Orders |-> BoundCodes[p]]
    BY DEF BoundCodes
  <2> HIDE DEF BoundCodes
  <2> QED
    BY <2>1, <2>2, <2>3
<1>10. Phase[o] = "owed" /\ Phase' = Phase
  BY <1>3, <1>4, PhaseReads, PhaseOfStatus DEF UNSETTLED_STATUSES
<1>11. HandedCode' = HandedCode
  BY <1>4, HandedKept DEF AllInv
<1>12. Promise!Bind(o, c)
  BY <1>8, <1>9, <1>10, <1>11 DEF Promise!Bind
<1> QED
  BY <1>6, <1>12 DEF Promise!Next

\* The code of an order that has just been delivered is the only one that any
\* supplier has bound to it.
LEMMA DeliveredIsBound ==
    ASSUME AllInv, AllInv', NEW o \in Orders, UNCHANGED issued,
           orderStatus'[o] = "delivered"
    PROVE  \E c \in Codes : BoundCodes[o] = {c} /\ HandedCode'[o] = c
<1>1. PICK s \in Suppliers : rows'[o][s].status = "succeeded"
  BY DEF AllInv, RunInv, DeliveredHasCode, Succeeded
<1>2. Succeeded(o)' = {s}
  BY <1>1 DEF AllInv, CodesInv, OneSuccess, Succeeded
<1>3. rows'[o][s].code = issued[s][o] /\ issued[s][o] # NoCode
  BY <1>1 DEF AllInv, CodesInv, SuccessIsIssued
<1>4. HandedCode'[o] = issued[s][o]
  <2>1. HandedCode'[o] = rows'[o][s].code
    BY <1>2 DEF HandedCode
  <2> QED
    BY <1>3, <2>1
<1>5. ASSUME NEW r \in Suppliers, issued[r][o] # NoCode PROVE r = s
  <2> SUFFICES ASSUME r # s PROVE FALSE
    OBVIOUS
  <2>1. rows'[o][r].status # "succeeded"
    BY <1>2 DEF Succeeded
  <2>2. Asked(o, r)'
    BY <1>5, <2>1 DEF Asked
  <2> QED
    BY <2>2 DEF AllInv, CalmInv, CalmOf, AskedIsNext
<1>6. issued[s][o] \in Codes
  BY <1>3 DEF AllInv, TypeOK
<1>7. BoundCodes[o] = {issued[s][o]}
  BY <1>3, <1>5 DEF BoundCodes
<1> QED
  BY <1>4, <1>6, <1>7

\* A step that binds nothing captures, voids or settles an order, or leaves the
\* promise as it stands.
LEMMA SettlesOnce ==
    ASSUME AllInv, AllInv', [Next]_vars, UNCHANGED issued
    PROVE  [Promise!Next]_Promise!vars
<1>1. UNCHANGED BoundCodes
  BY DEF BoundCodes
<1>2. CASE UNCHANGED orderStatus
  <2>1. UNCHANGED Phase
    BY <1>2, PhaseReads
  <2>2. UNCHANGED HandedCode
    BY <1>2, HandedKept DEF AllInv
  <2> QED
    BY <1>1, <2>1, <2>2 DEF Promise!vars
<1>3. ASSUME NEW o \in Orders, OrderStep(o), orderStatus' # orderStatus
      PROVE  [Promise!Next]_Promise!vars
  <2>1. /\ \A p \in Orders \ {o} : orderStatus'[p] = orderStatus[p]
        /\ orderStatus'[o] # orderStatus[o] => can_transition(orderStatus[o], orderStatus'[o])
    BY <1>3, MoneyOfOrder DEF AllInv
  <2>2. orderStatus[o] \in OrderStatus /\ orderStatus'[o] \in OrderStatus
    BY DEF AllInv, TypeOK
  <2>3. orderStatus'[o] # orderStatus[o]
    BY <1>3, <2>1 DEF AllInv, TypeOK
  <2>4. orderStatus'[o] \in ALLOWED_TRANSITIONS[orderStatus[o]]
    BY <2>1, <2>3 DEF can_transition
  <2>5. Phase' = [Phase EXCEPT ![o] = PhaseIn(orderStatus'[o])]
        /\ Phase[o] = PhaseIn(orderStatus[o])
    BY <2>1, PhaseMoves, PhaseReads
  <2>6. \/ orderStatus[o] = "created" /\ orderStatus'[o] = "paid"
        \/ orderStatus[o] = "created" /\ orderStatus'[o] = "payment_failed"
        \/ orderStatus[o] \in UNSETTLED_STATUSES /\ orderStatus'[o] \in UNSETTLED_STATUSES
        \/ orderStatus[o] = "delivering" /\ orderStatus'[o] = "delivered"
    BY <2>2, <2>4
    DEF OrderStatus, ALLOWED_TRANSITIONS, UNSETTLED_STATUSES, RECOVERABLE_STATUSES
  <2>7. "paid" \in UNSETTLED_STATUSES /\ "delivering" \in UNSETTLED_STATUSES
        /\ "delivered" \notin UNSETTLED_STATUSES
    BY DEF UNSETTLED_STATUSES, RECOVERABLE_STATUSES
  <2>8. orderStatus'[o] # "delivered" => UNCHANGED HandedCode
    BY <2>1, HandedKept DEF AllInv
  <2>9. CASE orderStatus[o] = "created" /\ orderStatus'[o] = "paid"
    <3>1. Promise!Capture(o)
      BY <1>1, <2>5, <2>7, <2>8, <2>9, PhaseOfStatus DEF Promise!Capture
    <3> QED
      BY <3>1 DEF Promise!Next
  <2>10. CASE orderStatus[o] = "created" /\ orderStatus'[o] = "payment_failed"
    <3>1. Promise!Void(o)
      BY <1>1, <2>5, <2>8, <2>10, PhaseOfStatus DEF Promise!Void
    <3> QED
      BY <3>1 DEF Promise!Next
  <2>11. CASE orderStatus[o] \in UNSETTLED_STATUSES /\ orderStatus'[o] \in UNSETTLED_STATUSES
    <3>1. Phase' = [Phase EXCEPT ![o] = Phase[o]]
      BY <2>5, <2>11, PhaseOfStatus
    <3>2. UNCHANGED Phase
      BY <3>1, PhaseReads
    <3> QED
      BY <1>1, <2>7, <2>8, <2>11, <3>2 DEF Promise!vars
  <2>12. CASE orderStatus[o] = "delivering" /\ orderStatus'[o] = "delivered"
    <3>1. PICK c \in Codes : BoundCodes[o] = {c} /\ HandedCode'[o] = c
      BY <2>12, DeliveredIsBound
    <3>2. \A p \in Orders \ {o} : HandedCode'[p] = HandedCode[p]
      BY <2>1, HandedKept DEF AllInv
    <3>3. HandedCode' = [p \in Orders |-> HandedCode'[p]]
          /\ HandedCode = [p \in Orders |-> HandedCode[p]]
      BY DEF HandedCode
    <3>4. HandedCode' = [HandedCode EXCEPT ![o] = c]
      <4> HIDE DEF HandedCode
      <4> QED
        BY <3>1, <3>2, <3>3
    <3>5. Promise!Settle(o, c)
      BY <1>1, <2>5, <2>7, <2>12, <3>1, <3>4, PhaseOfStatus DEF Promise!Settle
    <3> QED
      BY <3>5 DEF Promise!Next
  <2> QED
    BY <2>6, <2>9, <2>10, <2>11, <2>12
<1>4. Idles => UNCHANGED orderStatus
  BY DEF Idles
<1>5. (\E o \in Orders : OrderStep(o)) \/ UNCHANGED orderStatus
  BY <1>4, EveryStep DEF AllInv
<1> QED
  BY <1>2, <1>3, <1>5

\* Under the assumptions of the design every run of the pipeline is a run of
\* ExactlyOnce: whatever crashes, failed transactions, lost answers, refusals and
\* restocks there are, at most one key is ever spent on an order, and the
\* customer is given that very code, once.
THEOREM PipelineImplementsExactlyOnce == Calm => (Spec => ImplementsExactlyOnce)
<1>1. Init => Promise!Init
  <2> SUFFICES ASSUME Init PROVE Promise!Init
    OBVIOUS
  <2>1. Phase = [o \in Orders |-> "open"]
    BY PhaseReads, PhaseOfStatus DEF Init
  <2>2. BoundCodes = [o \in Orders |-> {}]
    BY DEF Init, BoundCodes
  <2>3. \A o \in Orders : Succeeded(o) = {}
    BY DEF Init, Succeeded, NoRow
  <2>4. HandedCode = [o \in Orders |-> NoCode]
    BY <2>3 DEF HandedCode
  <2> QED
    BY <2>1, <2>2, <2>4 DEF Promise!Init
<1>2. ASSUME AllInv, AllInv', [Next]_vars
      PROVE  [Promise!Next]_Promise!vars
  <2>1. CASE \E o \in Orders, s \in Suppliers : issued'[s][o] # issued[s][o]
    BY <1>2, <2>1, BindsOnce
  <2>2. CASE \A o \in Orders, s \in Suppliers : issued'[s][o] = issued[s][o]
    <3>1. UNCHANGED issued
      BY <1>2, <2>2 DEF AllInv, TypeOK
    <3> QED
      BY <1>2, <3>1, SettlesOnce
  <2> QED
    BY <2>1, <2>2
<1>3. ASSUME Calm PROVE Spec => Promise!Spec
  <2>1. Spec => []AllInv
    BY <1>3, CalmInvariant
  <2> QED
    BY <1>1, <1>2, <2>1, PTL DEF Spec, Promise!Spec
<1> QED
  BY <1>3 DEF ImplementsExactlyOnce
===============================================================================
