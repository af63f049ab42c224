---------------------------- MODULE ExchangeProofs ----------------------------
(***************************************************************************)
(* Theorems about Exchange: a key is bound to one request and every answer *)
(* is the bound one; the conversation between client and supplier          *)
(* implements the single step that Delivery takes it for, so that what is  *)
(* proved of Delivery holds of it.                                         *)
(***************************************************************************)
EXTENDS Exchange, DeliveryCalm

-----------------------------------------------------------------------------
(* Types *)

Body == [status : {"ok", "error", "other"}, code : Codes \cup {NoCode}, reason : Reasons]

Wire == [at : {"quiet", "sent", "silent", "answered"}, body : Body]

WireTypeOK == TypeOK /\ wire \in [Workers -> [JobIds -> Wire]]

LEMMA BodiesType ==
    /\ Broken \in Body
    /\ Quiet \in Wire /\ Sent \in Wire /\ Silence \in Wire
    /\ \A body \in Body : Answer(body) \in Wire
BY DEF Broken, Quiet, Sent, Silence, Answer, Body, Wire, Reasons

\* What the handler answers: a code if there is one, a refusal only for a
\* request_id that has none.
LEMMA IssueAnswers ==
    ASSUME TypeOK, NEW s \in Suppliers, NEW o \in Orders, NEW behaviour \in Behaviour
    PROVE  \/ /\ CanIssue(s, o)
              /\ issue(s, o, behaviour) = Issued(CodeFor(s, o))
           \/ /\ issued[s][o] = NoCode
              /\ \E reason \in {"out_of_stock", "other"} :
                    issue(s, o, behaviour) = _error(reason)
<1>1. CASE WantsKey(s, o, behaviour) /\ CanIssue(s, o)
  BY <1>1 DEF issue
<1>2. CASE WantsKey(s, o, behaviour) /\ ~CanIssue(s, o)
  BY <1>2 DEF issue, CanIssue
<1>3. CASE ~WantsKey(s, o, behaviour)
  BY <1>3 DEF issue, WantsKey
<1> QED
  BY <1>1, <1>2, <1>3

\* The records of a conversation.
LEMMA BodyFields ==
    /\ \A c : Issued(c).status = "ok" /\ Issued(c).code = c /\ Issued(c).reason = "none"
    /\ \A r : _error(r).status = "error" /\ _error(r).code = NoCode /\ _error(r).reason = r
    /\ Broken.status = "other" /\ Broken.code = NoCode
    /\ \A b : Answer(b).at = "answered" /\ Answer(b).body = b
    /\ Silence.at = "silent" /\ Sent.at = "sent" /\ Quiet.at = "quiet"
BY DEF Issued, _error, Broken, Answer, Silence, Sent, Quiet

\* What a task goes on with.
LEMMA AfterType ==
    ASSUME NEW t \in Task, t.pc = "call", NEW x \in Wire
    PROVE  /\ AfterExchange(t, x) \in Task
           /\ AfterExchange(t, x).order = t.order
           /\ AfterExchange(t, x).supplier = t.supplier
           /\ AfterExchange(t, x).pc \in {"call", "record"}
           /\ AfterExchange(t, x) # t
           /\ AfterExchange(t, x).code \in {t.code, x.body.code, NoCode}
<1>1. x.body.code \in Codes \cup {NoCode} /\ x.body.reason \in Reasons
  BY DEF Wire, Body
<1>2. /\ [t EXCEPT !.call = @ + 1] \in Task
      /\ [t EXCEPT !.call = @ + 1].order = t.order
      /\ [t EXCEPT !.call = @ + 1].supplier = t.supplier
      /\ [t EXCEPT !.call = @ + 1].pc = "call"
      /\ [t EXCEPT !.call = @ + 1].code = t.code
      /\ [t EXCEPT !.call = @ + 1] # t
  <2>1. [t EXCEPT !.call = @ + 1].call = t.call + 1 /\ t.call \in Nat
    BY DEF Task
  <2> QED
    BY <2>1 DEF Task
<1>3. ASSUME NEW a \in Answers, NEW c \in Codes \cup {NoCode}, NEW r \in Reasons
      PROVE  /\ Answered(t, a, c, r) \in Task
             /\ Answered(t, a, c, r).order = t.order
             /\ Answered(t, a, c, r).supplier = t.supplier
             /\ Answered(t, a, c, r).pc = "record"
             /\ Answered(t, a, c, r).code = c
             /\ Answered(t, a, c, r) # t
  BY <1>3 DEF Answered, Task
<1>4. "unknown" \in Answers /\ "other" \in Reasons /\ _parse(x.body) \in Answers
  BY DEF Answers, Reasons, _parse
<1>5. CASE x.at = "silent" \/ _parse(x.body) = "unknown"
  <2>1. AfterExchange(t, x) = Unanswered(t)
    BY <1>5 DEF AfterExchange
  <2>2. CASE t.call < supplier_max_attempts
    <3> DEFINE u == [t EXCEPT !.call = @ + 1]
    <3>1. AfterExchange(t, x) = u
      BY <2>1, <2>2 DEF Unanswered
    <3>2. /\ u \in Task /\ u.order = t.order /\ u.supplier = t.supplier
          /\ u.pc = "call" /\ u.code = t.code /\ u # t
      BY <1>2
    <3> HIDE DEF u
    <3> QED
      BY <3>1, <3>2
  <2>3. CASE ~(t.call < supplier_max_attempts)
    <3>1. AfterExchange(t, x) = Answered(t, "unknown", NoCode, "other")
      BY <2>1, <2>3 DEF Unanswered, GivesUp
    <3> QED
      BY <1>3, <1>4, <3>1
  <2> QED
    BY <2>2, <2>3
<1>6. CASE ~(x.at = "silent" \/ _parse(x.body) = "unknown")
  <2>1. PICK a \in Answers, c \in Codes \cup {NoCode}, r \in Reasons :
            AfterExchange(t, x) = Answered(t, a, c, r) /\ c = x.body.code
    BY <1>1, <1>4, <1>6 DEF AfterExchange
  <2> QED
    BY <1>3, <2>1
<1> QED
  BY <1>5, <1>6

LEMMA FollowsType == Follows /\ wire \in [Workers -> [JobIds -> Wire]] =>
                         wire' \in [Workers -> [JobIds -> Wire]]
BY BodiesType DEF Follows

\* A step of Exchange is one of Delivery that the wire follows, or a step of a
\* conversation.
Conversation(w, j) ==
    \/ \E behaviour \in Behaviour : Serve(w, j, behaviour)
    \/ LoseRequest(w, j) \/ DelayRequest(w, j)
    \/ Receive(w, j) \/ TimesOut(w, j)

LEMMA EveryWireStep ==
    ASSUME [WireNext]_wireVars
    PROVE  \/ [Next]_vars /\ (Follows \/ UNCHANGED <<tasks, wire>>)
           \/ \E w \in Workers, j \in JobIds : Conversation(w, j)
<1>1. CASE UNCHANGED wireVars
  BY <1>1 DEF wireVars, vars
<1>2. ASSUME NEW w \in Workers, NEW j \in JobIds, FailConnect(w, j) \/ WorksOn(w, j)
      PROVE  Next /\ Follows
  BY <1>2 DEF FailConnect, WorksOn, Next, ExchangeStep
<1>3. ASSUME NEW w \in Workers, Dies(w)
      PROVE  Next /\ Follows
  <2>1. Crash(w) /\ Follows
    BY <1>3 DEF Dies, Crash, Awaiting
  <2> QED
    BY <2>1 DEF Next
<1>4. CASE Elsewhere
  BY <1>4 DEF Elsewhere, Next
<1> QED
  BY <1>1, <1>2, <1>3, <1>4 DEF WireNext, Conversation

LEMMA ConversationType ==
    ASSUME WireTypeOK, NEW w \in Workers, NEW j \in JobIds, Conversation(w, j)
    PROVE  WireTypeOK'
<1> DEFINE t == tasks[w][j]
           x == wire[w][j]
<1>1. /\ t \in Task /\ t.pc = "call" /\ x \in Wire
      /\ t.order \in Orders /\ t.supplier \in Suppliers
  BY DEF WireTypeOK, TypeOK, RecordsWhole, Conversation, Serve, LoseRequest,
     DelayRequest, Receive, TimesOut, Hears, Awaiting
<1>2. ASSUME NEW behaviour \in Behaviour, Serve(w, j, behaviour)
      PROVE  WireTypeOK'
  <2> DEFINE body == issue(t.supplier, t.order, behaviour)
  <2>1. UNCHANGED <<orderStatus, ledger, rows, jobs, tasks, sweeps, retrying, late>>
    BY <1>2 DEF Serve, database
  <2>2. /\ body \in Body
        /\ free' \in [Suppliers -> Seq(Codes)]
        /\ issued' \in [Suppliers -> [Orders -> Codes \cup {NoCode}]]
    <3>1. CASE CanIssue(t.supplier, t.order) /\ body = Issued(CodeFor(t.supplier, t.order))
      <4>1. KeyStoreIssue(t.supplier, t.order)
        BY <1>2, <3>1, BodyFields DEF Serve
      <4>2. CodeFor(t.supplier, t.order) \in Codes
        BY <1>1, <3>1, <4>1, TypeKeyStoreIssue DEF WireTypeOK
      <4>3. body \in Body
        BY <3>1, <4>2 DEF Issued, Body, Reasons
      <4> QED
        BY <1>1, <3>1, <4>1, <4>3, TypeKeyStoreIssue DEF WireTypeOK
    <3>2. ASSUME NEW reason \in {"out_of_stock", "other"}, body = _error(reason)
          PROVE  /\ body \in Body
                 /\ UNCHANGED <<free, issued>>
      <4>1. body.status # "ok"
        BY <3>2, BodyFields
      <4>2. body \in Body
        BY <3>2 DEF _error, Body, Reasons
      <4> QED
        BY <1>2, <4>1, <4>2 DEF Serve
    <3> QED
      BY <1>1, <3>1, <3>2, IssueAnswers DEF WireTypeOK, TypeOK
  <2> HIDE DEF body
  <2>3. budget' \in [Disturbance -> Nat]
    BY <1>2, SpendType DEF Serve, Disturbance, WireTypeOK, TypeOK
  <2>4. wire' \in [Workers -> [JobIds -> Wire]]
    <3>1. \E y \in Wire : wire' = [wire EXCEPT ![w][j] = y]
      BY <1>2, <2>2, BodiesType DEF Serve, body
    <3> QED
      BY <3>1 DEF WireTypeOK
  <2> QED
    BY <2>1, <2>2, <2>3, <2>4 DEF WireTypeOK, TypeOK, RecordsWhole
<1>3. CASE LoseRequest(w, j) \/ DelayRequest(w, j)
  <2>1. UNCHANGED <<orderStatus, ledger, rows, jobs, tasks, sweeps, retrying, free, issued>>
    BY <1>3 DEF LoseRequest, DelayRequest, database, suppliers
  <2>a. budget' \in [Disturbance -> Nat]
    BY <1>3, SpendType DEF LoseRequest, DelayRequest, Disturbance, WireTypeOK, TypeOK
  <2>b. late' \in {late, late \cup {<<t.order, t.supplier>>}}
    BY <1>3 DEF LoseRequest, DelayRequest, suppliers
  <2>2. budget' \in [Disturbance -> Nat] /\ late' \subseteq Orders \X Suppliers
    BY <1>1, <2>a, <2>b DEF WireTypeOK, TypeOK
  <2>3. wire' \in [Workers -> [JobIds -> Wire]]
    BY <1>3, BodiesType DEF LoseRequest, DelayRequest, WireTypeOK
  <2> QED
    BY <2>1, <2>2, <2>3 DEF WireTypeOK, TypeOK, RecordsWhole
<1>4. CASE Receive(w, j) \/ TimesOut(w, j)
  <2>1. /\ Become(w, j, AfterExchange(t, x)) /\ Follows
        /\ UNCHANGED <<orderStatus, ledger, rows, jobs, sweeps, retrying,
                       free, issued, late, budget>>
    BY <1>4 DEF Receive, TimesOut, Hears, database, suppliers
  <2>2. tasks' \in [Workers -> [JobIds -> Task]] /\ RecordsWhole'
    <3>1. /\ AfterExchange(t, x) \in Task
          /\ AfterExchange(t, x).order = t.order
          /\ AfterExchange(t, x).supplier \in Suppliers
      BY <1>1, AfterType
    <3> QED
      BY <1>1, <2>1, <3>1, BecomeWhole DEF WireTypeOK
  <2> QED
    BY <2>1, <2>2, FollowsType DEF WireTypeOK, TypeOK
<1> QED
  BY <1>2, <1>3, <1>4 DEF Conversation

LEMMA WireTypeStep == WireTypeOK /\ [WireNext]_wireVars => WireTypeOK'
<1> SUFFICES ASSUME WireTypeOK, [WireNext]_wireVars PROVE WireTypeOK'
  OBVIOUS
<1>1. CASE [Next]_vars /\ (Follows \/ UNCHANGED <<tasks, wire>>)
  BY <1>1, TypeStep, FollowsType DEF WireTypeOK
<1> QED
  BY <1>1, EveryWireStep, ConversationType

\* The tables, the tasks and what is under way are well typed.
LEMMA WireTypeCorrect == WireSpec => []WireTypeOK
<1>1. WireInit => WireTypeOK
  BY TypeInit, BodiesType DEF WireInit, WireTypeOK
<1> QED
  BY <1>1, WireTypeStep, PTL DEF WireSpec

-----------------------------------------------------------------------------
(* The refinement.  What does not look at tasks is the same in both modules. *)

LEMMA SameRules ==
    /\ Coarse!Suppliers = Suppliers
    /\ Coarse!DELIVERABLE_STATUSES = DELIVERABLE_STATUSES
    /\ Coarse!UNSETTLED_STATUSES = UNSETTLED_STATUSES
    /\ Coarse!ActiveStates = ActiveStates
    /\ \A f : Coarse!choose_supplier(f) = choose_supplier(f)
    /\ \A s, r : Coarse!can_transition(s, r) = can_transition(s, r)
<1>1. /\ Coarse!Suppliers = Suppliers
      /\ Coarse!DELIVERABLE_STATUSES = DELIVERABLE_STATUSES
      /\ Coarse!UNSETTLED_STATUSES = UNSETTLED_STATUSES
      /\ Coarse!ActiveStates = ActiveStates
  BY DEF Coarse!Suppliers, Suppliers, Coarse!DELIVERABLE_STATUSES, DELIVERABLE_STATUSES,
     Coarse!UNSETTLED_STATUSES, UNSETTLED_STATUSES, Coarse!RECOVERABLE_STATUSES,
     RECOVERABLE_STATUSES, Coarse!ActiveStates, ActiveStates
<1>2. ASSUME NEW f PROVE Coarse!choose_supplier(f) = choose_supplier(f)
  BY DEF Coarse!choose_supplier, choose_supplier, Coarse!OpenStatuses, OpenStatuses,
     Coarse!PassedStatuses, PassedStatuses
<1>3. ASSUME NEW s, NEW r PROVE Coarse!can_transition(s, r) = can_transition(s, r)
  BY DEF Coarse!can_transition, can_transition, Coarse!ALLOWED_TRANSITIONS,
     ALLOWED_TRANSITIONS
<1> QED
  BY <1>1, <1>2, <1>3

LEMMA SameRecords ==
    /\ Coarse!NoJob = NoJob /\ Coarse!Idle = Idle /\ Coarse!SweepOff = SweepOff
    /\ Coarse!NoRow = NoRow
    /\ \A job : Coarse!Running(job) = Running(job)
    /\ \A o, n : Coarse!Claimed(o, n) = Claimed(o, n)
    /\ \A t, s : Coarse!Asking(t, s) = Asking(t, s)
    /\ \A t, a, c, r : Coarse!Answered(t, a, c, r) = Answered(t, a, c, r)
    /\ \A t, r : Coarse!Settling(t, r) = Settling(t, r)
    /\ \A t : Coarse!GivesUp(t) = GivesUp(t)
    /\ \A t : Coarse!Reschedules(t) = Reschedules(t)
    /\ \A t : Coarse!FinalState(t) = FinalState(t)
BY DEF Coarse!NoJob, NoJob, Coarse!Idle, Idle, Coarse!SweepOff, SweepOff, Coarse!NoRow, NoRow,
   Coarse!Running, Running, Coarse!Claimed, Claimed, Coarse!Asking, Asking,
   Coarse!Answered, Answered, Coarse!Settling, Settling, Coarse!GivesUp, GivesUp,
   Coarse!Reschedules, Reschedules, Coarse!FinalState, FinalState,
   Coarse!RetryOutcomes, RetryOutcomes, Coarse!TERMINAL_OK, TERMINAL_OK

LEMMA SameReads ==
    /\ \A o : Coarse!statuses(o) = statuses(o)
    /\ \A o : Coarse!Succeeded(o) = Succeeded(o)
    /\ \A o : Coarse!ActiveJobs(o) = ActiveJobs(o)
    /\ \A ts, k : Coarse!Held(ts, k) = Held(ts, k)
    /\ \A js, ts : Coarse!Retain(js, ts) = Retain(js, ts)
    /\ Coarse!ReadyJobs = ReadyJobs
    /\ Coarse!StuckOrders = StuckOrders
    /\ \A s, o : Coarse!CodeFor(s, o) = CodeFor(s, o)
    /\ \A s, o : Coarse!CanIssue(s, o) = CanIssue(s, o)
    /\ \A o, s, c : Coarse!BreaksUniqueIndex(o, s, c) = BreaksUniqueIndex(o, s, c)
BY SameRules, SameRecords
DEF Coarse!statuses, statuses, Coarse!Succeeded, Succeeded, Coarse!ActiveJobs, ActiveJobs,
    Coarse!Held, Held, Coarse!Retain, Retain, Coarse!ReadyJobs, ReadyJobs,
    Coarse!StuckOrders, StuckOrders, Coarse!CodeFor, CodeFor, Coarse!CanIssue, CanIssue,
    Coarse!BreaksUniqueIndex, BreaksUniqueIndex

LEMMA SameWrites ==
    /\ \A o : Coarse!enqueue(o) = enqueue(o)
    /\ \A o, s, x, c, r : Coarse!record_outcome(o, s, x, c, r) = record_outcome(o, s, x, c, r)
    /\ \A o : Coarse!reset_known_negatives(o) = reset_known_negatives(o)
    /\ \A o, e : Coarse!post(o, e) = post(o, e)
    /\ \A rs : Coarse!ExhaustedOutcome(rs) = ExhaustedOutcome(rs)
    /\ \A o, rs : Coarse!finalize_exhausted(o, rs) = finalize_exhausted(o, rs)
    /\ \A x, e : Coarse!UnknownStatus(x, e) = UnknownStatus(x, e)
    /\ \A kinds : Coarse!Spend(kinds) = Spend(kinds)
    /\ \A s, o : Coarse!KeyStoreIssue(s, o) = KeyStoreIssue(s, o)
BY SameRules, SameRecords, SameReads
DEF Coarse!enqueue, enqueue, Coarse!record_outcome, record_outcome,
    Coarse!reset_known_negatives, reset_known_negatives, Coarse!post, post,
    Coarse!ExhaustedOutcome, ExhaustedOutcome, Coarse!ExhaustedStatus, ExhaustedStatus,
    Coarse!finalize_exhausted, finalize_exhausted, Coarse!UnknownStatus, UnknownStatus,
    Coarse!Spend, Spend, Coarse!Disturbance, Disturbance, Coarse!KeyStoreIssue, KeyStoreIssue

\* A task with an answer under way has it already; any other is what it is.
LEMMA OutcomeOf ==
    ASSUME WireTypeOK, NEW w \in Workers, NEW j \in JobIds
    PROVE  /\ tasks[w][j].pc # "call" \/ wire[w][j].at \notin {"answered", "silent"} =>
                 Outcome[w][j] = tasks[w][j]
           /\ tasks[w][j].pc = "call" /\ wire[w][j].at \in {"answered", "silent"} =>
                 Outcome[w][j] = AfterExchange(tasks[w][j], wire[w][j])
           /\ Outcome[w][j].order = tasks[w][j].order
           /\ Outcome[w][j].supplier = tasks[w][j].supplier
           /\ (Outcome[w][j].pc = "idle") <=> (tasks[w][j].pc = "idle")
<1>1. /\ tasks[w][j] \in Task /\ wire[w][j] \in Wire
      /\ Outcome[w][j] =
             IF tasks[w][j].pc = "call" /\ wire[w][j].at \in {"answered", "silent"}
             THEN AfterExchange(tasks[w][j], wire[w][j])
             ELSE tasks[w][j]
  BY DEF WireTypeOK, TypeOK, Outcome
<1>2. CASE tasks[w][j].pc = "call" /\ wire[w][j].at \in {"answered", "silent"}
  <2>1. /\ AfterExchange(tasks[w][j], wire[w][j]).order = tasks[w][j].order
        /\ AfterExchange(tasks[w][j], wire[w][j]).supplier = tasks[w][j].supplier
        /\ AfterExchange(tasks[w][j], wire[w][j]).pc # "idle"
    BY <1>1, <1>2, AfterType
  <2> QED
    BY <1>1, <1>2, <2>1
<1>3. CASE ~(tasks[w][j].pc = "call" /\ wire[w][j].at \in {"answered", "silent"})
  BY <1>1, <1>3
<1> QED
  BY <1>2, <1>3

LEMMA OutcomeType == Outcome = [w \in Workers |-> [j \in JobIds |-> Outcome[w][j]]]
BY DEF Outcome

LEMMA SameHeld ==
    ASSUME WireTypeOK
    PROVE  /\ \A k \in JobIds : Held(Outcome, k) <=> Held(tasks, k)
           /\ \A w \in Workers : Coarse!Busy(w) <=> Busy(w)
           /\ \A w \in Workers : Coarse!AtLoopTop(w) <=> AtLoopTop(w)
           /\ \A js : Retain(js, Outcome) = Retain(js, tasks)
<1>1. \A k \in JobIds : Held(Outcome, k) <=> Held(tasks, k)
  BY OutcomeOf DEF Held
<1>2. \A w \in Workers : Coarse!Busy(w) <=> Busy(w)
  BY OutcomeOf DEF Coarse!Busy, Busy
<1>3. \A js : Retain(js, Outcome) = Retain(js, tasks)
  BY <1>1 DEF Retain
<1> QED
  BY <1>1, <1>2, <1>3 DEF Coarse!AtLoopTop, AtLoopTop

\* The wire follows the tasks: whoever goes on is seen to go on.
LEMMA OutcomeFollows ==
    ASSUME WireTypeOK, Follows, NEW w \in Workers, NEW j \in JobIds
    PROVE  Outcome'[w][j] = IF tasks'[w][j] = tasks[w][j] THEN Outcome[w][j]
                                                          ELSE tasks'[w][j]
<1>1. /\ Outcome[w][j] =
             IF tasks[w][j].pc = "call" /\ wire[w][j].at \in {"answered", "silent"}
             THEN AfterExchange(tasks[w][j], wire[w][j])
             ELSE tasks[w][j]
      /\ Outcome'[w][j] =
             IF tasks'[w][j].pc = "call" /\ wire'[w][j].at \in {"answered", "silent"}
             THEN AfterExchange(tasks'[w][j], wire'[w][j])
             ELSE tasks'[w][j]
  BY DEF Outcome
<1>2. wire'[w][j] = IF tasks'[w][j].pc # "call" THEN Quiet
                    ELSE IF tasks'[w][j] # tasks[w][j] THEN Sent
                    ELSE wire[w][j]
  BY DEF Follows
<1> QED
  BY <1>1, <1>2, BodyFields

LEMMA BecomeFollows ==
    ASSUME WireTypeOK, Follows, NEW w \in Workers, NEW j \in JobIds,
           Outcome[w][j] = tasks[w][j], NEW u, Become(w, j, u)
    PROVE  Coarse!Become(w, j, u)
<1>1. /\ tasks'[w][j] = u
      /\ \A v \in Workers, k \in JobIds : v # w \/ k # j => tasks'[v][k] = tasks[v][k]
  BY DEF Become, WireTypeOK, TypeOK
<1>2. /\ Outcome'[w][j] = u
      /\ \A v \in Workers, k \in JobIds : v # w \/ k # j => Outcome'[v][k] = Outcome[v][k]
  BY <1>1, OutcomeFollows
<1>3. /\ Outcome = [v \in Workers |-> [k \in JobIds |-> Outcome[v][k]]]
      /\ Outcome' = [v \in Workers |-> [k \in JobIds |-> Outcome'[v][k]]]
  BY DEF Outcome
<1>4. [Outcome EXCEPT ![w][j] = u] =
          [v \in Workers |-> [k \in JobIds |-> IF v = w /\ k = j THEN u ELSE Outcome[v][k]]]
  BY <1>3
<1> QED
  BY <1>2, <1>3, <1>4 DEF Coarse!Become

\* The tasks of one worker replaced by g, where what g keeps has no answer.
LEMMA RowFollows ==
    ASSUME WireTypeOK, Follows, NEW w \in Workers, NEW g,
           g = [k \in JobIds |-> g[k]], tasks' = [tasks EXCEPT ![w] = g],
           \A k \in JobIds : g[k] = tasks[w][k] => Outcome[w][k] = g[k]
    PROVE  Outcome' = [Outcome EXCEPT ![w] = g]
<1>1. /\ \A k \in JobIds : tasks'[w][k] = g[k]
      /\ \A v \in Workers \ {w}, k \in JobIds : tasks'[v][k] = tasks[v][k]
  BY DEF WireTypeOK, TypeOK
<1>2. \A k \in JobIds : Outcome'[w][k] = g[k]
  BY <1>1, OutcomeFollows
<1>3. \A v \in Workers \ {w}, k \in JobIds : Outcome'[v][k] = Outcome[v][k]
  BY <1>1, OutcomeFollows
<1>4. /\ Outcome = [v \in Workers |-> [k \in JobIds |-> Outcome[v][k]]]
      /\ Outcome' = [v \in Workers |-> [k \in JobIds |-> Outcome'[v][k]]]
  BY DEF Outcome
<1>5. ASSUME NEW v \in Workers PROVE Outcome'[v] = [Outcome EXCEPT ![w] = g][v]
  <2>1. CASE v = w
    <3>1. Outcome'[w] = [k \in JobIds |-> Outcome'[w][k]]
      BY <1>4
    <3>2. [Outcome EXCEPT ![w] = g][w] = g
      BY <1>4
    <3> QED
      BY <1>2, <2>1, <3>1, <3>2
  <2>2. CASE v # w
    <3>1. /\ Outcome'[v] = [k \in JobIds |-> Outcome'[v][k]]
          /\ Outcome[v] = [k \in JobIds |-> Outcome[v][k]]
      BY <1>4
    <3>2. [Outcome EXCEPT ![w] = g][v] = Outcome[v]
      BY <1>4, <2>2
    <3> QED
      BY <1>3, <2>2, <3>1, <3>2
  <2> QED
    BY <2>1, <2>2
<1>6. /\ Outcome' = [v \in Workers |-> Outcome'[v]]
      /\ [Outcome EXCEPT ![w] = g] = [v \in Workers |-> [Outcome EXCEPT ![w] = g][v]]
  BY <1>4
<1> QED
  BY <1>5, <1>6

LEMMA TasksKept ==
    ASSUME WireTypeOK, Follows, UNCHANGED tasks
    PROVE  Outcome' = Outcome
<1>1. \A v \in Workers, k \in JobIds : Outcome'[v][k] = Outcome[v][k]
  BY OutcomeFollows
<1> QED
  BY <1>1, OutcomeType DEF Outcome

\* What is held is held, whether its answer is under way or not.
LEMMA SameRetain ==
    ASSUME WireTypeOK, Follows
    PROVE  \A js : Retain(js, Outcome') = Retain(js, tasks')
<1>1. ASSUME NEW v \in Workers, NEW k \in JobIds
      PROVE  (Outcome'[v][k].pc = "idle") <=> (tasks'[v][k].pc = "idle")
  BY OutcomeOf, OutcomeFollows
<1>2. \A k \in JobIds : Held(Outcome', k) <=> Held(tasks', k)
  BY <1>1 DEF Held
<1> QED
  BY <1>2 DEF Retain

LEMMA DropFollows ==
    ASSUME WireTypeOK, Follows, NEW w \in Workers, Drop(w)
    PROVE  Coarse!Drop(w)
<1>1. Outcome' = [Outcome EXCEPT ![w] = [k \in JobIds |-> Idle]]
  <2> DEFINE g == [k \in JobIds |-> Idle]
  <2>1. ASSUME NEW k \in JobIds, g[k] = tasks[w][k] PROVE Outcome[w][k] = g[k]
    BY <2>1, OutcomeOf DEF Idle
  <2>2. g = [k \in JobIds |-> g[k]] /\ tasks' = [tasks EXCEPT ![w] = g]
    BY DEF Drop
  <2> HIDE DEF g
  <2>3. Outcome' = [Outcome EXCEPT ![w] = g]
    BY <2>1, <2>2, RowFollows
  <2> QED
    BY <2>3 DEF g
<1> QED
  BY <1>1, SameRetain, SameRecords, SameReads DEF Drop, Coarse!Drop

LEMMA CoarseInit == WireInit => Coarse!Init
<1> SUFFICES ASSUME WireInit PROVE Coarse!Init
  OBVIOUS
<1>1. Outcome = [w \in Workers |-> [j \in JobIds |-> Idle]]
  BY DEF WireInit, Init, Outcome, Idle
<1> QED
  BY <1>1, SameRules, SameRecords DEF WireInit, Init, Coarse!Init

\* A task at work is not waiting, and does as it does in Delivery.
LEMMA WorkRefined ==
    ASSUME WireTypeOK, NEW w \in Workers, NEW j \in JobIds, WorksOn(w, j)
    PROVE  Coarse!TaskStep(w, j)
<1>1. TaskStep(w, j) /\ Follows
  BY DEF WorksOn
<1>2. tasks[w][j].pc # "call"
  BY <1>1 DEF TaskStep, PrepareSkips, PrepareEnds, PrepareTargets, SuccessConflicts,
     RecordSuccess, RecordSuperseded, RecordRefusal, RecordUnknown, FinishJob,
     RescheduleJob, RescheduleBreaks
<1>3. Outcome[w][j] = tasks[w][j]
  BY <1>2, OutcomeOf
<1>4. \A u : Become(w, j, u) => Coarse!Become(w, j, u)
  BY <1>1, <1>3, BecomeFollows
<1>5. CASE PrepareSkips(w, j)
  <2>1. Coarse!PrepareSkips(w, j)
    BY <1>3, <1>4, <1>5, SameRules, SameRecords
    DEF PrepareSkips, Coarse!PrepareSkips, database, suppliers,
        Coarse!database, Coarse!suppliers
  <2> QED
    BY <2>1 DEF Coarse!TaskStep
<1>6. CASE PrepareEnds(w, j)
  <2>1. Coarse!PrepareEnds(w, j)
    BY <1>3, <1>4, <1>6, SameRules, SameRecords, SameReads, SameWrites
    DEF PrepareEnds, Coarse!PrepareEnds, database, suppliers,
        Coarse!database, Coarse!suppliers
  <2> QED
    BY <2>1 DEF Coarse!TaskStep
<1>7. CASE PrepareTargets(w, j)
  <2>1. Coarse!PrepareTargets(w, j)
    BY <1>3, <1>4, <1>7, SameRules, SameRecords, SameReads, SameWrites
    DEF PrepareTargets, Coarse!PrepareTargets, database, suppliers,
        Coarse!database, Coarse!suppliers
  <2> QED
    BY <2>1 DEF Coarse!TaskStep
<1>8. CASE SuccessConflicts(w, j)
  <2>1. Coarse!SuccessConflicts(w, j)
    BY <1>3, <1>4, <1>8, SameReads
    DEF SuccessConflicts, Coarse!SuccessConflicts, database, suppliers,
        Coarse!database, Coarse!suppliers
  <2> QED
    BY <2>1 DEF Coarse!TaskStep
<1>9. CASE RecordSuccess(w, j)
  <2>1. Coarse!RecordSuccess(w, j)
    BY <1>3, <1>4, <1>9, SameRules, SameRecords, SameReads, SameWrites
    DEF RecordSuccess, Coarse!RecordSuccess, database, suppliers,
        Coarse!database, Coarse!suppliers
  <2> QED
    BY <2>1 DEF Coarse!TaskStep
<1>10. CASE RecordSuperseded(w, j)
  <2>1. Coarse!RecordSuperseded(w, j)
    BY <1>3, <1>4, <1>10, SameRecords, SameWrites
    DEF RecordSuperseded, Coarse!RecordSuperseded, database, suppliers,
        Coarse!database, Coarse!suppliers
  <2> QED
    BY <2>1 DEF Coarse!TaskStep
<1>11. CASE RecordRefusal(w, j)
  <2>1. Coarse!RecordRefusal(w, j)
    BY <1>3, <1>4, <1>11, SameRules, SameRecords, SameWrites
    DEF RecordRefusal, Coarse!RecordRefusal, database, suppliers,
        Coarse!database, Coarse!suppliers
  <2> QED
    BY <2>1 DEF Coarse!TaskStep
<1>12. CASE RecordUnknown(w, j)
  <2>1. Coarse!RecordUnknown(w, j)
    BY <1>3, <1>4, <1>12, SameRecords, SameWrites
    DEF RecordUnknown, Coarse!RecordUnknown, database, suppliers,
        Coarse!database, Coarse!suppliers
  <2> QED
    BY <2>1 DEF Coarse!TaskStep
<1>13. CASE FinishJob(w, j)
  <2>1. Coarse!FinishJob(w, j)
    BY <1>1, <1>3, <1>4, <1>13, SameRecords, SameReads, SameRetain
    DEF FinishJob, Coarse!FinishJob, database, suppliers,
        Coarse!database, Coarse!suppliers
  <2> QED
    BY <2>1 DEF Coarse!TaskStep
<1>14. CASE RescheduleJob(w, j)
  <2>1. Coarse!RescheduleJob(w, j)
    BY <1>3, <1>4, <1>14, SameRecords, SameReads
    DEF RescheduleJob, Coarse!RescheduleJob, database, suppliers,
        Coarse!database, Coarse!suppliers
  <2> QED
    BY <2>1 DEF Coarse!TaskStep
<1>15. CASE RescheduleBreaks(w, j)
  <2>1. Coarse!Drop(w)
    BY <1>1, <1>15, DropFollows DEF RescheduleBreaks
  <2>2. Coarse!RescheduleBreaks(w, j)
    BY <1>3, <1>15, <2>1, SameRecords, SameReads
    DEF RescheduleBreaks, Coarse!RescheduleBreaks
  <2> QED
    BY <2>2 DEF Coarse!TaskStep
<1> QED
  BY <1>1, <1>5, <1>6, <1>7, <1>8, <1>9, <1>10, <1>11, <1>12, <1>13, <1>14, <1>15 DEF TaskStep

LEMMA SameCardinality == \A S : Coarse!Cardinality(S) = Cardinality(S)
BY DEF Coarse!Cardinality, Cardinality

LEMMA ClaimRefined ==
    ASSUME WireTypeOK, Follows, NEW w \in Workers, Claim(w)
    PROVE  Coarse!Claim(w)
<1>1. PICK batch \in SUBSET ReadyJobs :
          /\ batch # {}
          /\ Cardinality(batch) <= worker_batch_size
          /\ jobs' = [j \in JobIds |-> IF j \in batch THEN Running(jobs[j]) ELSE jobs[j]]
          /\ tasks' = [tasks EXCEPT ![w] = [j \in JobIds |->
                         IF j \in batch
                         THEN Claimed(jobs[j].order, jobs[j].attempts + 1)
                         ELSE Idle]]
  BY DEF Claim
<1> DEFINE g == [j \in JobIds |->
                   IF j \in batch THEN Claimed(jobs[j].order, jobs[j].attempts + 1)
                                  ELSE Idle]
<1>2. Outcome' = [Outcome EXCEPT ![w] = g]
  <2>1. \A k \in JobIds : tasks[w][k].pc = "idle"
    BY DEF Claim, AtLoopTop, Busy
  <2>2. \A k \in JobIds : Outcome[w][k] = tasks[w][k]
    BY <2>1, OutcomeOf
  <2>3. g = [k \in JobIds |-> g[k]] /\ tasks' = [tasks EXCEPT ![w] = g]
    BY <1>1
  <2> HIDE DEF g
  <2> QED
    BY <2>2, <2>3, RowFollows
<1>3. Coarse!AtLoopTop(w)
  BY SameHeld DEF Claim
<1>4. UNCHANGED <<orderStatus, ledger, rows, sweeps, retrying, Coarse!suppliers, budget>>
  BY DEF Claim, suppliers, Coarse!suppliers
<1>5. /\ batch \in SUBSET Coarse!ReadyJobs
      /\ jobs' = [j \in JobIds |-> IF j \in batch THEN Coarse!Running(jobs[j]) ELSE jobs[j]]
      /\ Outcome' = [Outcome EXCEPT ![w] = [j \in JobIds |->
                         IF j \in batch
                         THEN Coarse!Claimed(jobs[j].order, jobs[j].attempts + 1)
                         ELSE Coarse!Idle]]
  BY <1>1, <1>2, SameReads, SameRecords
<1> DEFINE Takes(b) ==
          /\ b # {}
          /\ Cardinality(b) <= worker_batch_size
          /\ jobs' = [j \in JobIds |-> IF j \in b THEN Coarse!Running(jobs[j]) ELSE jobs[j]]
          /\ Outcome' = [Outcome EXCEPT ![w] = [j \in JobIds |->
                            IF j \in b
                            THEN Coarse!Claimed(jobs[j].order, jobs[j].attempts + 1)
                            ELSE Coarse!Idle]]
<1>6. Takes(batch)
  BY <1>1, <1>5
<1>7. \E b \in SUBSET Coarse!ReadyJobs : Takes(b)
  <2> HIDE DEF Takes
  <2> QED
    BY <1>5, <1>6
<1> HIDE DEF g
<1> QED
  BY <1>3, <1>4, <1>7, SameCardinality DEF Coarse!Claim

LEMMA SweepRefined ==
    ASSUME WireTypeOK, Follows, NEW w \in Workers, SweepStep(w) \/ SweepFails(w)
    PROVE  Coarse!SweepStep(w) \/ Coarse!SweepFails(w)
<1>1. Outcome' = Outcome
  BY TasksKept DEF SweepStep, SweepRequeue, SweepCollect, SweepReset, SweepEnqueue, SweepFails
<1>2. CASE SweepRequeue(w)
  <2>1. Coarse!AtLoopTop(w)
    BY <1>2, SameHeld DEF SweepRequeue
  <2>2. PICK stale \in SUBSET {j \in JobIds : jobs[j].state = "running"} :
          /\ IF \E j \in stale : Held(tasks, j) THEN Spend({"stall"}) ELSE UNCHANGED budget
          /\ jobs' = [j \in JobIds |-> IF j \in stale
                                       THEN [jobs[j] EXCEPT !.state = "queued"]
                                       ELSE jobs[j]]
    BY <1>2 DEF SweepRequeue
  <2>3. (\E j \in stale : Coarse!Held(Outcome, j)) <=> (\E j \in stale : Held(tasks, j))
    BY SameHeld, SameReads
  <2>4. IF \E j \in stale : Coarse!Held(Outcome, j) THEN Coarse!Spend({"stall"})
                                                    ELSE UNCHANGED budget
    BY <2>2, <2>3, SameWrites
  <2>5. /\ sweeps' = [sweeps EXCEPT ![w].pc = "collect"]
        /\ UNCHANGED <<orderStatus, ledger, rows, Outcome, retrying, Coarse!suppliers>>
    BY <1>1, <1>2 DEF SweepRequeue, suppliers, Coarse!suppliers
  <2> QED
    BY <2>1, <2>2, <2>4, <2>5 DEF Coarse!SweepStep, Coarse!SweepRequeue
<1>3. CASE SweepCollect(w)
  <2>1. Coarse!SweepCollect(w)
    BY <1>1, <1>3, SameReads, SameRecords
    DEF SweepCollect, Coarse!SweepCollect, database, suppliers,
        Coarse!database, Coarse!suppliers
  <2> QED
    BY <2>1 DEF Coarse!SweepStep
<1>4. CASE SweepReset(w)
  <2>1. Coarse!SweepReset(w)
    BY <1>1, <1>4, SameWrites
    DEF SweepReset, Coarse!SweepReset, suppliers, Coarse!suppliers
  <2> QED
    BY <2>1 DEF Coarse!SweepStep
<1>5. CASE SweepEnqueue(w)
  <2>1. Coarse!SweepEnqueue(w)
    BY <1>1, <1>5, SameWrites, SameRecords
    DEF SweepEnqueue, Coarse!SweepEnqueue, suppliers, Coarse!suppliers
  <2> QED
    BY <2>1 DEF Coarse!SweepStep
<1>6. CASE SweepFails(w)
  BY <1>1, <1>6, SameWrites, SameRecords
  DEF SweepFails, Coarse!SweepFails, database, suppliers, Coarse!database, Coarse!suppliers
<1> QED
  BY <1>2, <1>3, <1>4, <1>5, <1>6 DEF SweepStep

LEMMA ElsewhereRefined == WireTypeOK /\ Elsewhere => Coarse!Next
<1> SUFFICES ASSUME WireTypeOK, Elsewhere PROVE Coarse!Next
  OBVIOUS
<1>1. Follows
  BY DEF Elsewhere
<1>2. ASSUME NEW w \in Workers, NEW j \in JobIds, DatabaseFails(w, j)
      PROVE  Coarse!DatabaseFails(w, j)
  <2>1. Outcome[w][j] = tasks[w][j]
    BY <1>2, OutcomeOf DEF DatabaseFails
  <2>2. \A u : Become(w, j, u) => Coarse!Become(w, j, u)
    BY <1>1, <2>1, BecomeFollows
  <2> QED
    BY <1>2, <2>1, <2>2, SameRecords, SameWrites
    DEF DatabaseFails, Coarse!DatabaseFails, database, suppliers,
        Coarse!database, Coarse!suppliers
<1>3. ASSUME NEW o \in Orders, Pay(o) \/ FailPayment(o) \/ RetryResets(o) \/ RetryEnqueues(o)
      PROVE  Coarse!Pay(o) \/ Coarse!FailPayment(o)
                \/ Coarse!RetryResets(o) \/ Coarse!RetryEnqueues(o)
  <2>1. Outcome' = Outcome
    BY <1>1, <1>3, TasksKept DEF Pay, FailPayment, RetryResets, RetryEnqueues
  <2>2. CASE Pay(o)
    BY <2>1, <2>2, SameWrites DEF Pay, Coarse!Pay, suppliers, Coarse!suppliers
  <2>3. CASE FailPayment(o)
    BY <2>1, <2>3 DEF FailPayment, Coarse!FailPayment, suppliers, Coarse!suppliers
  <2>4. CASE RetryResets(o)
    BY <2>1, <2>4, SameWrites DEF RetryResets, Coarse!RetryResets, suppliers, Coarse!suppliers
  <2>5. CASE RetryEnqueues(o)
    BY <2>1, <2>5, SameWrites
    DEF RetryEnqueues, Coarse!RetryEnqueues, suppliers, Coarse!suppliers
  <2> QED
    BY <1>3, <2>2, <2>3, <2>4, <2>5
<1>4. ASSUME NEW s \in Suppliers, Restock(s)
      PROVE  Coarse!Restock(s)
  <2>1. Outcome' = Outcome
    BY <1>1, <1>4, TasksKept DEF Restock
  <2> QED
    BY <1>4, <2>1, SameWrites DEF Restock, Coarse!Restock, database, Coarse!database
<1>5. ASSUME LateRequestServed
      PROVE  Coarse!LateRequestServed
  <2>1. Outcome' = Outcome
    BY <1>1, <1>5, TasksKept DEF LateRequestServed
  <2> QED
    BY <1>5, <2>1, SameReads, SameWrites
    DEF LateRequestServed, Coarse!LateRequestServed, database, Coarse!database
<1>6. CASE \E w \in Workers, j \in JobIds : DatabaseFails(w, j)
  BY <1>2, <1>6 DEF Coarse!Next
<1>7. CASE \E w \in Workers : Claim(w) \/ SweepStep(w) \/ SweepFails(w)
  BY <1>1, <1>7, ClaimRefined, SweepRefined DEF Coarse!Next
<1>8. CASE \E o \in Orders : Pay(o) \/ FailPayment(o) \/ RetryResets(o) \/ RetryEnqueues(o)
  BY <1>3, <1>8 DEF Coarse!Next
<1>9. CASE \E s \in Suppliers : Restock(s)
  BY <1>4, <1>9, SameRules DEF Coarse!Next
<1>10. CASE LateRequestServed
  BY <1>5, <1>10 DEF Coarse!Next
<1> QED
  BY <1>6, <1>7, <1>8, <1>9, <1>10 DEF Elsewhere

\* A connection that is not established, and a death.
LEMMA FaultRefined ==
    ASSUME WireTypeOK, NEW w \in Workers,
           Dies(w) \/ \E j \in JobIds : FailConnect(w, j)
    PROVE  Coarse!Crash(w) \/ \E j \in JobIds : Coarse!ConnectFails(w, j)
<1>1. ASSUME NEW j \in JobIds, FailConnect(w, j)
      PROVE  Coarse!ConnectFails(w, j)
  <2>1. Outcome[w][j] = tasks[w][j]
    BY <1>1, OutcomeOf DEF FailConnect, Awaiting
  <2>2. \A u : Become(w, j, u) => Coarse!Become(w, j, u)
    BY <1>1, <2>1, BecomeFollows DEF FailConnect
  <2> QED
    BY <1>1, <2>1, <2>2, SameRecords, SameWrites
    DEF FailConnect, ConnectFails, Coarse!ConnectFails, database, suppliers,
        Coarse!database, Coarse!suppliers
<1>2. ASSUME Dies(w)
      PROVE  Coarse!Crash(w)
  <2>1. Coarse!Busy(w) \/ sweeps[w].pc # "off"
    BY <1>2, SameHeld DEF Dies
  <2>2. Coarse!Drop(w)
    BY <1>2, DropFollows DEF Dies
  <2>3. \/ Coarse!Spend({"crash"}) /\ UNCHANGED late
        \/ \E j \in JobIds :
              /\ Outcome[w][j].pc = "call"
              /\ Coarse!Spend({"crash", "delayed"})
              /\ late' = late \cup {<<Outcome[w][j].order, Outcome[w][j].supplier>>}
    <3>1. CASE Spend({"crash"}) /\ UNCHANGED late
      BY <3>1, SameWrites
    <3>2. ASSUME NEW j \in JobIds, Awaiting(w, j, "sent"), Spend({"crash", "delayed"}),
                 late' = late \cup {<<tasks[w][j].order, tasks[w][j].supplier>>}
          PROVE  /\ Outcome[w][j].pc = "call"
                 /\ Coarse!Spend({"crash", "delayed"})
                 /\ late' = late \cup {<<Outcome[w][j].order, Outcome[w][j].supplier>>}
      <4>1. Outcome[w][j] = tasks[w][j] /\ tasks[w][j].pc = "call"
        BY <3>2, OutcomeOf DEF Awaiting
      <4> QED
        BY <3>2, <4>1, SameWrites
    <3> QED
      BY <1>2, <3>1, <3>2 DEF Dies
  <2> QED
    BY <2>1, <2>2, <2>3 DEF Coarse!Crash
<1> QED
  BY <1>1, <1>2

\* What the client hears, or that it hears nothing, is the end of the exchange
\* Delivery takes it for, as soon as it is certain.
LEMMA HeardBecomes ==
    ASSUME WireTypeOK, NEW w \in Workers, NEW j \in JobIds, Awaiting(w, j, "sent"),
           NEW y \in Wire, y.at \in {"answered", "silent"},
           wire' = [wire EXCEPT ![w][j] = y], UNCHANGED tasks
    PROVE  Coarse!Become(w, j, AfterExchange(tasks[w][j], y))
<1> DEFINE u == AfterExchange(tasks[w][j], y)
<1>1. /\ wire'[w][j] = y
      /\ \A v \in Workers, k \in JobIds : v # w \/ k # j => wire'[v][k] = wire[v][k]
  BY DEF WireTypeOK
<1>2. \A v \in Workers, k \in JobIds :
          /\ Outcome[v][k] =
                 IF tasks[v][k].pc = "call" /\ wire[v][k].at \in {"answered", "silent"}
                 THEN AfterExchange(tasks[v][k], wire[v][k])
                 ELSE tasks[v][k]
          /\ Outcome'[v][k] =
                 IF tasks[v][k].pc = "call" /\ wire'[v][k].at \in {"answered", "silent"}
                 THEN AfterExchange(tasks[v][k], wire'[v][k])
                 ELSE tasks[v][k]
  BY DEF Outcome
<1>3. Outcome'[w][j] = u
  BY <1>1, <1>2 DEF Awaiting
<1>4. \A v \in Workers, k \in JobIds : v # w \/ k # j => Outcome'[v][k] = Outcome[v][k]
  BY <1>1, <1>2
<1>5. /\ Outcome = [v \in Workers |-> [k \in JobIds |-> Outcome[v][k]]]
      /\ Outcome' = [v \in Workers |-> [k \in JobIds |-> Outcome'[v][k]]]
  BY DEF Outcome
<1> HIDE DEF u
<1>6. [Outcome EXCEPT ![w][j] = u] =
          [v \in Workers |-> [k \in JobIds |-> IF v = w /\ k = j THEN u ELSE Outcome[v][k]]]
  BY <1>5
<1>7. Outcome' = [Outcome EXCEPT ![w][j] = u]
  BY <1>3, <1>4, <1>5, <1>6
<1> QED
  BY <1>7 DEF Coarse!Become, u

\* How each of them reads.
LEMMA ReadsAs ==
    ASSUME NEW t
    PROVE  /\ \A c \in Codes : AfterExchange(t, Answer(Issued(c))) = Answered(t, "ok", c, "none")
           /\ \A r : AfterExchange(t, Answer(_error(r))) = Answered(t, "refused", NoCode, r)
           /\ AfterExchange(t, Silence) = Unanswered(t)
           /\ AfterExchange(t, Answer(Broken)) = Unanswered(t)
<1>1. \A c \in Codes : c # NoCode
  BY DeliveryAssumption DEF DeliveryAssumption
<1>2. /\ \A c \in Codes : _parse(Issued(c)) = "ok"
      /\ \A r : _parse(_error(r)) = "refused"
      /\ _parse(Broken) = "unknown"
  BY <1>1, BodyFields DEF _parse
<1> QED
  BY <1>2, BodyFields DEF AfterExchange

\* The exchange ends without an answer.
LEMMA NothingHeard ==
    ASSUME WireTypeOK, NEW w \in Workers, NEW j \in JobIds, Awaiting(w, j, "sent"),
           NEW y \in {Silence, Answer(Broken)},
           wire' = [wire EXCEPT ![w][j] = y],
           UNCHANGED <<database, tasks, sweeps, retrying>>
    PROVE  Coarse!NothingLearnt(w, j)
<1>1. /\ tasks[w][j].pc = "call" /\ Outcome[w][j] = tasks[w][j]
  BY OutcomeOf DEF Awaiting
<1>2. Coarse!Become(w, j, Unanswered(tasks[w][j]))
  <2>1. y \in Wire /\ y.at \in {"answered", "silent"}
    BY BodiesType, BodyFields
  <2>2. Coarse!Become(w, j, AfterExchange(tasks[w][j], y))
    BY <2>1, HeardBecomes
  <2> QED
    BY <2>2, ReadsAs
<1>3. UNCHANGED <<Coarse!database, sweeps, retrying>>
  BY DEF database, Coarse!database
<1> QED
  BY <1>1, <1>2, <1>3, SameRecords DEF Unanswered, Coarse!NothingLearnt

\* The supplier's handler: its answer arrives, or it might as well not have
\* given any.
LEMMA ServeRefined ==
    ASSUME WireTypeOK, NEW w \in Workers, NEW j \in JobIds, NEW behaviour \in Behaviour,
           Serve(w, j, behaviour)
    PROVE  Coarse!ExchangeStep(w, j)
<1> DEFINE t == tasks[w][j]
           body == issue(t.supplier, t.order, behaviour)
<1>1. /\ Awaiting(w, j, "sent") /\ t.pc = "call" /\ t \in Task
      /\ t.order \in Orders /\ t.supplier \in Suppliers
  BY DEF WireTypeOK, TypeOK, RecordsWhole, Serve, Awaiting
<1>2. Outcome[w][j] = t
  BY <1>1, OutcomeOf DEF Awaiting
<1>3. /\ UNCHANGED <<database, tasks, sweeps, retrying, late>>
      /\ UNCHANGED <<Coarse!database, sweeps, retrying, late>>
  BY DEF Serve, database, Coarse!database
<1>4. /\ IF body.status = "ok" THEN KeyStoreIssue(t.supplier, t.order)
                               ELSE UNCHANGED <<free, issued>>
      /\ \/ wire' = [wire EXCEPT ![w][j] = Answer(body)] /\ UNCHANGED budget
         \/ /\ Spend({"no_answer"})
            /\ \E y \in {Silence, Answer(Broken)} : wire' = [wire EXCEPT ![w][j] = y]
  BY DEF Serve
<1>5. \/ CanIssue(t.supplier, t.order) /\ body = Issued(CodeFor(t.supplier, t.order))
      \/ /\ issued[t.supplier][t.order] = NoCode
         /\ \E reason \in {"out_of_stock", "other"} : body = _error(reason)
  BY <1>1, IssueAnswers DEF WireTypeOK
<1> HIDE DEF body
<1>6. CASE CanIssue(t.supplier, t.order) /\ body = Issued(CodeFor(t.supplier, t.order))
  <2>1. KeyStoreIssue(t.supplier, t.order)
    BY <1>4, <1>6, BodyFields
  <2>2. CodeFor(t.supplier, t.order) \in Codes
    BY <1>1, <1>6, <2>1, TypeKeyStoreIssue DEF WireTypeOK
  <2>3. CASE wire' = [wire EXCEPT ![w][j] = Answer(body)] /\ UNCHANGED budget
    <3>1. Answer(body) \in Wire /\ Answer(body).at \in {"answered", "silent"}
      <4>1. body \in Body
        BY <1>6, <2>2 DEF Issued, Body, Reasons
      <4> QED
        BY <4>1, BodiesType, BodyFields
    <3>2. Coarse!Become(w, j, AfterExchange(t, Answer(body)))
      BY <1>1, <1>3, <2>3, <3>1, HeardBecomes
    <3>3. Coarse!Become(w, j, Answered(t, "ok", CodeFor(t.supplier, t.order), "none"))
      BY <1>6, <2>2, <3>2, ReadsAs
    <3>4. Coarse!SupplierIssues(w, j)
      BY <1>1, <1>2, <1>3, <1>6, <2>1, <2>3, <3>3, SameRecords, SameReads, SameWrites
      DEF Coarse!SupplierIssues
    <3> QED
      BY <3>4 DEF Coarse!ExchangeStep
  <2>4. ASSUME NEW y \in {Silence, Answer(Broken)}, Spend({"no_answer"}),
               wire' = [wire EXCEPT ![w][j] = y]
        PROVE  Coarse!AnswerLost(w, j)
    <3>1. Coarse!NothingLearnt(w, j)
      BY <1>1, <1>3, <2>4, NothingHeard
    <3> QED
      BY <1>2, <1>3, <1>6, <2>1, <2>4, <3>1, SameReads, SameWrites DEF Coarse!AnswerLost
  <2> QED
    BY <1>4, <2>3, <2>4 DEF Coarse!ExchangeStep
<1>7. ASSUME NEW reason \in {"out_of_stock", "other"}, body = _error(reason),
             issued[t.supplier][t.order] = NoCode
      PROVE  Coarse!ExchangeStep(w, j)
  <2>1. UNCHANGED suppliers /\ UNCHANGED Coarse!suppliers
    BY <1>3, <1>4, <1>7, BodyFields DEF suppliers, Coarse!suppliers
  <2>2. CASE wire' = [wire EXCEPT ![w][j] = Answer(body)] /\ UNCHANGED budget
    <3>1. Answer(body) \in Wire /\ Answer(body).at \in {"answered", "silent"}
      <4>1. body \in Body
        BY <1>7 DEF _error, Body, Reasons
      <4> QED
        BY <4>1, BodiesType, BodyFields
    <3>2. Coarse!Become(w, j, AfterExchange(t, Answer(body)))
      BY <1>1, <1>3, <2>2, <3>1, HeardBecomes
    <3>3. Coarse!Become(w, j, Answered(t, "refused", NoCode, reason))
      BY <1>7, <3>2, ReadsAs
    <3>4. Coarse!SupplierRefuses(w, j)
      BY <1>1, <1>2, <1>3, <1>7, <2>1, <2>2, <3>3, SameRecords DEF Coarse!SupplierRefuses
    <3> QED
      BY <3>4 DEF Coarse!ExchangeStep
  <2>3. ASSUME NEW y \in {Silence, Answer(Broken)}, Spend({"no_answer"}),
               wire' = [wire EXCEPT ![w][j] = y]
        PROVE  Coarse!RequestLost(w, j)
    <3>1. Coarse!NothingLearnt(w, j)
      BY <1>1, <1>3, <2>3, NothingHeard
    <3> QED
      BY <2>1, <2>3, <3>1, SameWrites DEF Coarse!RequestLost
  <2> QED
    BY <1>4, <2>2, <2>3 DEF Coarse!ExchangeStep
<1> QED
  BY <1>5, <1>6, <1>7

LEMMA TravelRefined ==
    ASSUME WireTypeOK, NEW w \in Workers, NEW j \in JobIds,
           LoseRequest(w, j) \/ DelayRequest(w, j)
    PROVE  Coarse!ExchangeStep(w, j)
<1>1. /\ Awaiting(w, j, "sent")
      /\ wire' = [wire EXCEPT ![w][j] = Silence]
      /\ UNCHANGED <<database, tasks, sweeps, retrying>>
  BY DEF LoseRequest, DelayRequest
<1>2. Coarse!NothingLearnt(w, j)
  BY <1>1, NothingHeard
<1>3. Outcome[w][j] = tasks[w][j]
  BY <1>1, OutcomeOf DEF Awaiting
<1>4. CASE LoseRequest(w, j)
  <2>1. Coarse!RequestLost(w, j)
    BY <1>2, <1>4, SameWrites
    DEF LoseRequest, Coarse!RequestLost, suppliers, Coarse!suppliers
  <2> QED
    BY <2>1 DEF Coarse!ExchangeStep
<1>5. CASE DelayRequest(w, j)
  <2>1. Coarse!RequestDelayed(w, j)
    BY <1>2, <1>3, <1>5, SameWrites DEF DelayRequest, Coarse!RequestDelayed
  <2> QED
    BY <2>1 DEF Coarse!ExchangeStep
<1> QED
  BY <1>4, <1>5

\* The client goes on with what it has heard: for Delivery it already has.
LEMMA HearsStutters ==
    ASSUME WireTypeOK, NEW w \in Workers, NEW j \in JobIds,
           Receive(w, j) \/ TimesOut(w, j)
    PROVE  Outcome' = Outcome
<1> DEFINE u == AfterExchange(tasks[w][j], wire[w][j])
<1>1. /\ tasks[w][j].pc = "call" /\ wire[w][j].at \in {"answered", "silent"}
      /\ Become(w, j, u) /\ Follows
  BY DEF Receive, TimesOut, Hears, Awaiting
<1>2. /\ Outcome[w][j] = u /\ u # tasks[w][j]
  <2>1. tasks[w][j] \in Task /\ wire[w][j] \in Wire
    BY DEF WireTypeOK, TypeOK
  <2> QED
    BY <1>1, <2>1, OutcomeOf, AfterType
<1> HIDE DEF u
<1>3. /\ tasks'[w][j] = u
      /\ \A v \in Workers, k \in JobIds : v # w \/ k # j => tasks'[v][k] = tasks[v][k]
  BY <1>1 DEF Become, WireTypeOK, TypeOK
<1>4. \A v \in Workers, k \in JobIds : Outcome'[v][k] = Outcome[v][k]
  BY <1>1, <1>2, <1>3, OutcomeFollows
<1> QED
  BY <1>4 DEF Outcome

\* Every step is a step of Delivery or none.
LEMMA WireStepRefined ==
    ASSUME WireTypeOK, [WireNext]_wireVars
    PROVE  [Coarse!Next]_(Coarse!vars)
<1>1. CASE UNCHANGED wireVars
  <2>1. Outcome' = Outcome
    BY <1>1 DEF wireVars, vars, Outcome
  <2> QED
    BY <1>1, <2>1 DEF wireVars, vars, Coarse!vars
<1>2. ASSUME NEW w \in Workers, NEW j \in JobIds, NEW behaviour \in Behaviour,
             Serve(w, j, behaviour)
      PROVE  Coarse!Next
  BY <1>2, ServeRefined DEF Coarse!Next
<1>3. ASSUME NEW w \in Workers, NEW j \in JobIds, LoseRequest(w, j) \/ DelayRequest(w, j)
      PROVE  Coarse!Next
  BY <1>3, TravelRefined DEF Coarse!Next
<1>4. ASSUME NEW w \in Workers, NEW j \in JobIds, Receive(w, j) \/ TimesOut(w, j)
      PROVE  UNCHANGED Coarse!vars
  <2>1. Outcome' = Outcome
    BY <1>4, HearsStutters
  <2> QED
    BY <1>4, <2>1 DEF Receive, TimesOut, Hears, database, suppliers, Coarse!vars
<1>5. ASSUME NEW w \in Workers, NEW j \in JobIds, FailConnect(w, j)
      PROVE  Coarse!Next
  BY <1>5, FaultRefined DEF Coarse!Next, Coarse!ExchangeStep
<1>6. ASSUME NEW w \in Workers, Dies(w)
      PROVE  Coarse!Next
  BY <1>6, FaultRefined DEF Coarse!Next, Coarse!ExchangeStep
<1>7. ASSUME NEW w \in Workers, NEW j \in JobIds, WorksOn(w, j)
      PROVE  Coarse!Next
  BY <1>7, WorkRefined DEF Coarse!Next
<1>8. CASE Elsewhere
  BY <1>8, ElsewhereRefined
<1> QED
  BY <1>1, <1>2, <1>3, <1>4, <1>5, <1>6, <1>7, <1>8 DEF WireNext

\* A request that travels, is served by a handler that may hang, and is answered
\* into a client that may have given up, loses and repeats nothing that the
\* single step of Delivery does not (client.py:92-211, app.py:84-144).
THEOREM ExchangeIsOneStep == WireSpec => ImplementsDelivery
<1>1. WireTypeOK /\ [WireNext]_wireVars => [Coarse!Next]_(Coarse!vars)
  BY WireStepRefined
<1> QED
  BY <1>1, CoarseInit, WireTypeCorrect, PTL DEF WireSpec, ImplementsDelivery, Coarse!Spec

-----------------------------------------------------------------------------
(* Keys *)

\* Only an answer in hand is a code, and it is the bound one.
CodeIsBound(w, j) ==
    LET t == tasks[w][j]
    IN  t.code # NoCode => /\ t.pc \in {"record", "supersede"}
                           /\ t.code = issued[t.supplier][t.order]

AnswerIsBound(w, j) ==
    LET t == tasks[w][j]
        body == wire[w][j].body
    IN  /\ body.status = "ok" => body.code # NoCode
        /\ Awaiting(w, j, "answered") /\ body.code # NoCode =>
              body.code = issued[t.supplier][t.order]

RowsAreBound ==
    \A o \in Orders, s \in Suppliers :
        rows[o][s].code # NoCode => rows[o][s].code = issued[s][o]

KeysInv == /\ KeysApart
           /\ \A w \in Workers, j \in JobIds : CodeIsBound(w, j) /\ AnswerIsBound(w, j)
           /\ RowsAreBound

\* A task of Delivery gets its code from the key store and hands it on.
LEMMA CodeBoundStep ==
    ASSUME TypeOK, [Next]_vars, NEW w \in Workers, NEW j \in JobIds, CodeIsBound(w, j)
    PROVE  CodeIsBound(w, j)'
<1> DEFINE t == tasks[w][j]
<1>1. t \in Task /\ (t.pc \in {"call", "record", "supersede"} =>
                        t.supplier \in Suppliers /\ t.order \in Orders)
  BY DEF TypeOK, RecordsWhole
<1>2. CASE tasks'[w][j] = t
  BY <1>1, <1>2, IssuedOnce DEF CodeIsBound
<1>3. CASE tasks'[w][j].code = NoCode
  BY <1>3 DEF CodeIsBound
<1>4. CASE PrepareTargets(w, j)
  <2>1. PICK s : Become(w, j, Asking(t, s))
    BY <1>4 DEF PrepareTargets
  <2>2. tasks'[w][j].code = t.code /\ t.pc = "prepare"
    BY <1>1, <1>4, <2>1 DEF Become, Asking, Task, TypeOK, PrepareTargets
  <2> QED
    BY <1>3, <2>2 DEF CodeIsBound
<1>5. CASE ExchangeStep(w, j)
  <2>1. t.pc = "call" /\ t.code = NoCode
    BY <1>5, ExchangeLeaves DEF CodeIsBound
  <2>2. CASE SupplierIssues(w, j)
    <3>1. tasks'[w][j].pc = "record"
      BY <1>1, <2>2 DEF SupplierIssues, Become, Answered, Task, TypeOK
    <3> QED
      BY <1>5, <2>2, <3>1, ExchangeLeaves, AnswerIsIssued DEF CodeIsBound
  <2>3. CASE ~SupplierIssues(w, j)
    BY <1>3, <1>5, <2>1, <2>3, ExchangeLeaves
  <2> QED
    BY <2>2, <2>3
<1>6. CASE SuccessConflicts(w, j)
  <2>1. /\ t.pc = "record"
        /\ tasks'[w][j] = [t EXCEPT !.pc = "supersede"]
    BY <1>6 DEF SuccessConflicts, Become, TypeOK
  <2>2. /\ tasks'[w][j].code = t.code
        /\ tasks'[w][j].supplier = t.supplier
        /\ tasks'[w][j].order = t.order
        /\ tasks'[w][j].pc = "supersede"
    BY <1>1, <2>1 DEF Task
  <2> QED
    BY <1>1, <2>1, <2>2, IssuedOnce DEF CodeIsBound
<1> QED
  BY <1>2, <1>3, <1>4, <1>5, <1>6, EveryTask DEF TaskMove

LEMMA RowsBoundStep ==
    ASSUME TypeOK, [Next]_vars, RowsAreBound,
           \A w \in Workers, j \in JobIds : CodeIsBound(w, j)
    PROVE  RowsAreBound'
<1> SUFFICES ASSUME NEW o \in Orders, NEW s \in Suppliers, rows'[o][s].code # NoCode
             PROVE  rows'[o][s].code = issued'[s][o]
  BY DEF RowsAreBound
<1>1. CASE rows'[o][s].code = rows[o][s].code
  <2>1. /\ rows[o][s].code = issued[s][o] /\ issued[s][o] # NoCode
    BY <1>1 DEF RowsAreBound
  <2> QED
    BY <1>1, <2>1, IssuedOnce
<1>2. ASSUME NEW w \in Workers, NEW j \in JobIds, AnswerRecorded(w, j, o, s)
      PROVE  rows'[o][s].code = issued'[s][o]
  <2>1. rows'[o][s].code = tasks[w][j].code /\ tasks[w][j].code = issued[s][o]
    BY <1>2 DEF AnswerRecorded, CodeIsBound
  <2> QED
    BY <2>1, IssuedOnce
<1> QED
  BY <1>1, <1>2, EveryRow DEF RowStep

\* What is under way when a step of Delivery is taken stays bound.
LEMMA AnswerBoundStep ==
    ASSUME WireTypeOK, [Next]_vars, Follows \/ UNCHANGED <<tasks, wire>>,
           NEW w \in Workers, NEW j \in JobIds, AnswerIsBound(w, j)
    PROVE  AnswerIsBound(w, j)'
<1>1. \/ wire'[w][j] = Quiet \/ wire'[w][j] = Sent
      \/ wire'[w][j] = wire[w][j] /\ tasks'[w][j] = tasks[w][j]
  BY DEF Follows
<1>2. CASE wire'[w][j] = Quiet \/ wire'[w][j] = Sent
  BY <1>2, BodyFields DEF AnswerIsBound, Awaiting, Quiet, Sent
<1>3. CASE wire'[w][j] = wire[w][j] /\ tasks'[w][j] = tasks[w][j]
  <2>1. tasks[w][j].pc = "call" => tasks[w][j].supplier \in Suppliers /\ tasks[w][j].order \in Orders
    BY DEF WireTypeOK, TypeOK, RecordsWhole
  <2> QED
    BY <1>3, <2>1, IssuedOnce DEF WireTypeOK, AnswerIsBound, Awaiting
<1> QED
  BY <1>1, <1>2, <1>3

\* A step of a conversation.
LEMMA ServeKeeps ==
    ASSUME WireTypeOK, KeysInv, NEW w \in Workers, NEW j \in JobIds,
           NEW behaviour \in Behaviour, Serve(w, j, behaviour)
    PROVE  KeysInv'
<1> DEFINE s == tasks[w][j].supplier
           o == tasks[w][j].order
           body == issue(s, o, behaviour)
<1>1. /\ Awaiting(w, j, "sent") /\ s \in Suppliers /\ o \in Orders
      /\ UNCHANGED <<rows, tasks>>
      /\ IF body.status = "ok" THEN KeyStoreIssue(s, o) ELSE UNCHANGED <<free, issued>>
      /\ \E y \in {Silence, Answer(Broken), Answer(body)} : wire' = [wire EXCEPT ![w][j] = y]
  BY DEF WireTypeOK, TypeOK, RecordsWhole, Serve, Awaiting, database
<1>2. /\ KeysApart'
      /\ \A r \in Suppliers, p \in Orders : issued[r][p] # NoCode => issued'[r][p] = issued[r][p]
      /\ body.status = "ok" \/ body.code # NoCode => /\ body.code # NoCode
                                                     /\ body.code = issued'[s][o]
  <2>1. CASE CanIssue(s, o) /\ body = Issued(CodeFor(s, o))
    <3>1. KeyStoreIssue(s, o)
      BY <1>1, <2>1, BodyFields
    <3>2. CodeFor(s, o) \in Codes
      BY <1>1, <2>1, <3>1, TypeKeyStoreIssue DEF WireTypeOK
    <3>3. CodeFor(s, o) # NoCode
      BY <3>2, DeliveryAssumption DEF DeliveryAssumption
    <3>4. body.code = CodeFor(s, o)
      BY <2>1, BodyFields
    <3> QED
      BY <1>1, <2>1, <3>1, <3>3, <3>4, KeysOfIssue DEF KeysInv, WireTypeOK
  <2>2. ASSUME NEW reason \in {"out_of_stock", "other"}, body = _error(reason)
        PROVE  /\ UNCHANGED <<free, issued>>
               /\ body.status # "ok" /\ body.code = NoCode
    BY <1>1, <2>2, BodyFields
  <2> QED
    BY <1>1, <2>1, <2>2, IssueAnswers DEF WireTypeOK, KeysInv, KeysApart
<1> HIDE DEF body
<1>3. ASSUME NEW v \in Workers, NEW k \in JobIds
      PROVE  CodeIsBound(v, k)'
  <2>1. /\ CodeIsBound(v, k)
        /\ tasks[v][k].pc \in {"record", "supersede"} =>
              tasks[v][k].supplier \in Suppliers /\ tasks[v][k].order \in Orders
    BY DEF KeysInv, WireTypeOK, TypeOK, RecordsWhole
  <2> QED
    BY <1>1, <1>2, <2>1 DEF CodeIsBound
<1>4. ASSUME NEW v \in Workers, NEW k \in JobIds
      PROVE  AnswerIsBound(v, k)'
  <2>1. CASE v = w /\ k = j
    <3>1. \E y \in {Silence, Answer(Broken), Answer(body)} : wire'[w][j] = y
      BY <1>1 DEF WireTypeOK
    <3>2. CASE wire'[w][j] = Silence \/ wire'[w][j] = Answer(Broken)
      <4>1. wire'[w][j].body.status = "other" /\ wire'[w][j].body.code = NoCode
        BY <3>2, BodyFields DEF Silence
      <4> QED
        BY <2>1, <4>1 DEF AnswerIsBound
    <3>3. CASE wire'[w][j] = Answer(body)
      <4>1. wire'[w][j].body = body
        BY <3>3, BodyFields
      <4>2. tasks'[w][j].supplier = s /\ tasks'[w][j].order = o
        BY <1>1
      <4> QED
        BY <1>2, <2>1, <4>1, <4>2 DEF AnswerIsBound
    <3> QED
      BY <3>1, <3>2, <3>3
  <2>2. CASE v # w \/ k # j
    <3>1. wire'[v][k] = wire[v][k] /\ tasks'[v][k] = tasks[v][k]
      BY <1>1, <2>2 DEF WireTypeOK
    <3>2. /\ AnswerIsBound(v, k)
          /\ tasks[v][k].pc = "call" =>
                tasks[v][k].supplier \in Suppliers /\ tasks[v][k].order \in Orders
      BY DEF KeysInv, WireTypeOK, TypeOK, RecordsWhole
    <3> QED
      BY <1>2, <3>1, <3>2 DEF AnswerIsBound, Awaiting
  <2> QED
    BY <2>1, <2>2
<1>5. RowsAreBound'
  BY <1>1, <1>2 DEF KeysInv, RowsAreBound
<1> QED
  BY <1>2, <1>3, <1>4, <1>5 DEF KeysInv

\* A task goes on with a code only if it heard one.
LEMMA AfterCode ==
    ASSUME NEW t \in Task, t.pc = "call", t.code = NoCode, NEW x \in Wire
    PROVE  \/ AfterExchange(t, x).code = NoCode
           \/ /\ x.at # "silent"
              /\ AfterExchange(t, x).pc = "record"
              /\ AfterExchange(t, x).code = x.body.code
<1>1. \A a, c, r : Answered(t, a, c, r).code = c /\ Answered(t, a, c, r).pc = "record"
  BY DEF Answered, Task
<1>2. Unanswered(t).code = NoCode
  <2>1. [t EXCEPT !.call = @ + 1].code = t.code
    BY DEF Task
  <2> QED
    BY <1>1, <2>1 DEF Unanswered, GivesUp
<1>3. CASE x.at = "silent" \/ _parse(x.body) = "unknown"
  BY <1>2, <1>3 DEF AfterExchange
<1>4. CASE ~(x.at = "silent" \/ _parse(x.body) = "unknown")
  BY <1>1, <1>4 DEF AfterExchange
<1> QED
  BY <1>3, <1>4

LEMMA HearsKeeps ==
    ASSUME WireTypeOK, KeysInv, NEW w \in Workers, NEW j \in JobIds,
           Receive(w, j) \/ TimesOut(w, j)
    PROVE  KeysInv'
<1> DEFINE t == tasks[w][j]
           u == AfterExchange(t, wire[w][j])
<1>1. /\ t.pc = "call" /\ wire[w][j].at \in {"answered", "silent"}
      /\ Become(w, j, u) /\ Follows
      /\ UNCHANGED <<rows, free, issued>>
  BY DEF Receive, TimesOut, Hears, Awaiting, database, suppliers
<1>2. /\ t \in Task /\ wire[w][j] \in Wire
      /\ u.order = t.order /\ u.supplier = t.supplier
  <2>1. t \in Task /\ wire[w][j] \in Wire
    BY DEF WireTypeOK, TypeOK
  <2> QED
    BY <1>1, <2>1, AfterType
<1>3. CodeIsBound(w, j) /\ AnswerIsBound(w, j)
  BY DEF KeysInv
<1>4. u.code = NoCode \/ (u.pc = "record" /\ u.code = issued[t.supplier][t.order])
  <2>1. t.code = NoCode
    BY <1>1, <1>3 DEF CodeIsBound
  <2>2. CASE u.code = NoCode
    BY <2>2
  <2>3. CASE /\ wire[w][j].at # "silent" /\ u.pc = "record"
             /\ u.code = wire[w][j].body.code
    BY <1>1, <1>3, <2>3 DEF AnswerIsBound, Awaiting
  <2> QED
    BY <1>1, <1>2, <2>1, <2>2, <2>3, AfterCode
<1> HIDE DEF u
<1>5. /\ tasks'[w][j] = u
      /\ \A v \in Workers, k \in JobIds : v # w \/ k # j => tasks'[v][k] = tasks[v][k]
  BY <1>1 DEF Become, WireTypeOK, TypeOK
<1>6. ASSUME NEW v \in Workers, NEW k \in JobIds
      PROVE  CodeIsBound(v, k)'
  <2>1. CASE v = w /\ k = j
    BY <1>1, <1>2, <1>4, <1>5, <2>1 DEF CodeIsBound
  <2>2. CASE v # w \/ k # j
    BY <1>1, <1>5, <2>2 DEF KeysInv, CodeIsBound
  <2> QED
    BY <2>1, <2>2
<1>7. ASSUME NEW v \in Workers, NEW k \in JobIds
      PROVE  AnswerIsBound(v, k)'
  <2>1. \/ wire'[v][k] = Quiet \/ wire'[v][k] = Sent
        \/ wire'[v][k] = wire[v][k] /\ tasks'[v][k] = tasks[v][k]
    BY <1>1 DEF Follows
  <2>2. CASE wire'[v][k] = Quiet \/ wire'[v][k] = Sent
    BY <2>2, BodyFields DEF AnswerIsBound, Awaiting, Quiet, Sent
  <2>3. CASE wire'[v][k] = wire[v][k] /\ tasks'[v][k] = tasks[v][k]
    BY <1>1, <2>3 DEF KeysInv, AnswerIsBound, Awaiting
  <2> QED
    BY <2>1, <2>2, <2>3
<1> QED
  BY <1>1, <1>6, <1>7 DEF KeysInv, KeysApart, RowsAreBound

LEMMA TravelKeeps ==
    ASSUME WireTypeOK, KeysInv, NEW w \in Workers, NEW j \in JobIds,
           LoseRequest(w, j) \/ DelayRequest(w, j)
    PROVE  KeysInv'
<1>1. /\ UNCHANGED <<rows, tasks, free, issued>>
      /\ wire' = [wire EXCEPT ![w][j] = Silence]
  BY DEF LoseRequest, DelayRequest, database, suppliers
<1>2. ASSUME NEW v \in Workers, NEW k \in JobIds
      PROVE  AnswerIsBound(v, k)'
  <2>1. wire'[v][k] = Silence \/ wire'[v][k] = wire[v][k]
    BY <1>1 DEF WireTypeOK
  <2>2. Silence.at = "silent" /\ Silence.body.status = "other"
    BY BodyFields DEF Silence
  <2> QED
    BY <1>1, <2>1, <2>2 DEF KeysInv, AnswerIsBound, Awaiting
<1> QED
  BY <1>1, <1>2 DEF KeysInv, KeysApart, CodeIsBound, RowsAreBound

LEMMA KeysStep == WireTypeOK /\ KeysInv /\ [WireNext]_wireVars => KeysInv'
<1> SUFFICES ASSUME WireTypeOK, KeysInv, [WireNext]_wireVars PROVE KeysInv'
  OBVIOUS
<1>1. CASE [Next]_vars /\ (Follows \/ UNCHANGED <<tasks, wire>>)
  <2>1. TypeOK
    BY DEF WireTypeOK
  <2>2. KeysApart'
    BY <1>1, <2>1, PoolStep DEF KeysInv
  <2>3. \A w \in Workers, j \in JobIds : CodeIsBound(w, j)' /\ AnswerIsBound(w, j)'
    BY <1>1, <2>1, CodeBoundStep, AnswerBoundStep DEF KeysInv
  <2>4. RowsAreBound'
    BY <1>1, <2>1, RowsBoundStep DEF KeysInv
  <2> QED
    BY <2>2, <2>3, <2>4 DEF KeysInv
<1> QED
  BY <1>1, EveryWireStep, ServeKeeps, TravelKeeps, HearsKeeps DEF Conversation

\* However often a request is repeated, however late it is served and whatever
\* is lost on the way: a key is bound to one request, and every answer under
\* way, every code in hand and every code on record is the bound one
\* (store.py:3-6).  All it takes is that no key is stocked twice.
THEOREM EveryAnswerIsBound == KeysDistinct => (WireSpec => []OneKeyPerRequest)
<1>1. KeysDistinct /\ WireInit => KeysInv
  <2> SUFFICES ASSUME KeysDistinct, WireInit PROVE KeysInv
    OBVIOUS
  <2>1. KeysApart
    <3>1. \A s \in Suppliers : \A i \in DOMAIN StartKeys[s] : StartKeys[s][i] # NoCode
      BY DeliveryAssumption DEF DeliveryAssumption
    <3> QED
      BY <3>1 DEF KeysDistinct, WireInit, Init, KeysApart
  <2>2. \A w \in Workers, j \in JobIds : CodeIsBound(w, j) /\ AnswerIsBound(w, j)
    BY DEF WireInit, Init, CodeIsBound, AnswerIsBound, Awaiting, Idle, Quiet, Broken
  <2>3. RowsAreBound
    BY DEF WireInit, Init, RowsAreBound, NoRow
  <2> QED
    BY <2>1, <2>2, <2>3 DEF KeysInv
<1>2. KeysInv => OneKeyPerRequest
  <2>1. ASSUME KeysInv, NEW w \in Workers, NEW j \in JobIds
        PROVE  /\ Awaiting(w, j, "answered") /\ wire[w][j].body.status = "ok" =>
                     wire[w][j].body.code = issued[tasks[w][j].supplier][tasks[w][j].order]
               /\ tasks[w][j].code # NoCode =>
                     tasks[w][j].code = issued[tasks[w][j].supplier][tasks[w][j].order]
    BY <2>1 DEF KeysInv, CodeIsBound, AnswerIsBound
  <2> QED
    BY <2>1 DEF KeysInv, KeysApart, RowsAreBound, OneKeyPerRequest
<1>3. KeysDistinct /\ WireSpec => []KeysInv
  BY <1>1, KeysStep, WireTypeCorrect, PTL DEF WireSpec
<1> QED
  BY <1>2, <1>3, PTL

-----------------------------------------------------------------------------
(* What is proved of Delivery holds of the conversation *)

Proved == INSTANCE DeliveryCalm WITH tasks <- Outcome

LEMMA Assumed == Proved!ChainAssumption /\ Proved!DeliveryAssumption
BY ChainAssumption, DeliveryAssumption
DEF ChainAssumption, DeliveryAssumption, Suppliers, Disturbance,
    Proved!ChainAssumption, Proved!DeliveryAssumption, Proved!Suppliers, Proved!Disturbance

\* Coarse and Proved are one module under one substitution: their definitions
\* are the same, word for word.
LEMMA ConversationIsProved == WireSpec => Proved!Spec
<1>1. Coarse!Init => Proved!Init
  BY DEF Proved!Idle, Proved!Init, Proved!NoJob, Proved!NoRow, Proved!Suppliers, Proved!SweepOff,
         Coarse!Idle, Coarse!Init, Coarse!NoJob, Coarse!NoRow, Coarse!Suppliers, Coarse!SweepOff
<1>2. Coarse!Next => Proved!Next
  BY DEF Proved!ALLOWED_TRANSITIONS, Proved!ActiveJobs, Proved!ActiveStates, Proved!AnswerLost,
         Proved!Answered, Proved!Asking, Proved!AtLoopTop, Proved!Become,
         Proved!BreaksUniqueIndex, Proved!Busy, Proved!CanIssue, Proved!Claim, Proved!Claimed,
         Proved!CodeFor, Proved!ConnectFails, Proved!Crash, Proved!DELIVERABLE_STATUSES,
         Proved!DatabaseFails, Proved!Disturbance, Proved!Drop, Proved!ExchangeStep,
         Proved!ExhaustedOutcome, Proved!ExhaustedStatus, Proved!FailPayment, Proved!FinalState,
         Proved!FinishJob, Proved!GivesUp, Proved!Held, Proved!Idle, Proved!KeyStoreIssue,
         Proved!LateRequestServed, Proved!Next, Proved!NoJob, Proved!NothingLearnt,
         Proved!OpenStatuses, Proved!PassedStatuses, Proved!Pay, Proved!PrepareEnds,
         Proved!PrepareSkips, Proved!PrepareTargets, Proved!RECOVERABLE_STATUSES,
         Proved!ReadyJobs, Proved!RecordRefusal, Proved!RecordSuccess, Proved!RecordSuperseded,
         Proved!RecordUnknown, Proved!RequestDelayed, Proved!RequestLost, Proved!RescheduleBreaks,
         Proved!RescheduleJob, Proved!Reschedules, Proved!Restock, Proved!Retain,
         Proved!RetryEnqueues, Proved!RetryOutcomes, Proved!RetryResets, Proved!Running,
         Proved!Settling, Proved!Spend, Proved!StuckOrders, Proved!Succeeded,
         Proved!SuccessConflicts, Proved!SupplierIssues, Proved!SupplierRefuses, Proved!Suppliers,
         Proved!SweepCollect, Proved!SweepEnqueue, Proved!SweepFails, Proved!SweepOff,
         Proved!SweepRequeue, Proved!SweepReset, Proved!SweepStep, Proved!TERMINAL_OK,
         Proved!TaskStep, Proved!UNSETTLED_STATUSES, Proved!UnknownStatus, Proved!can_transition,
         Proved!choose_supplier, Proved!database, Proved!enqueue, Proved!finalize_exhausted,
         Proved!post, Proved!record_outcome, Proved!reset_known_negatives, Proved!statuses,
         Proved!suppliers, Proved!Cardinality, Coarse!ALLOWED_TRANSITIONS, Coarse!ActiveJobs,
         Coarse!ActiveStates, Coarse!AnswerLost, Coarse!Answered, Coarse!Asking, Coarse!AtLoopTop,
         Coarse!Become, Coarse!BreaksUniqueIndex, Coarse!Busy, Coarse!CanIssue, Coarse!Claim,
         Coarse!Claimed, Coarse!CodeFor, Coarse!ConnectFails, Coarse!Crash,
         Coarse!DELIVERABLE_STATUSES, Coarse!DatabaseFails, Coarse!Disturbance, Coarse!Drop,
         Coarse!ExchangeStep, Coarse!ExhaustedOutcome, Coarse!ExhaustedStatus, Coarse!FailPayment,
         Coarse!FinalState, Coarse!FinishJob, Coarse!GivesUp, Coarse!Held, Coarse!Idle,
         Coarse!KeyStoreIssue, Coarse!LateRequestServed, Coarse!Next, Coarse!NoJob,
         Coarse!NothingLearnt, Coarse!OpenStatuses, Coarse!PassedStatuses, Coarse!Pay,
         Coarse!PrepareEnds, Coarse!PrepareSkips, Coarse!PrepareTargets,
         Coarse!RECOVERABLE_STATUSES, Coarse!ReadyJobs, Coarse!RecordRefusal,
         Coarse!RecordSuccess, Coarse!RecordSuperseded, Coarse!RecordUnknown,
         Coarse!RequestDelayed, Coarse!RequestLost, Coarse!RescheduleBreaks, Coarse!RescheduleJob,
         Coarse!Reschedules, Coarse!Restock, Coarse!Retain, Coarse!RetryEnqueues,
         Coarse!RetryOutcomes, Coarse!RetryResets, Coarse!Running, Coarse!Settling, Coarse!Spend,
         Coarse!StuckOrders, Coarse!Succeeded, Coarse!SuccessConflicts, Coarse!SupplierIssues,
         Coarse!SupplierRefuses, Coarse!Suppliers, Coarse!SweepCollect, Coarse!SweepEnqueue,
         Coarse!SweepFails, Coarse!SweepOff, Coarse!SweepRequeue, Coarse!SweepReset,
         Coarse!SweepStep, Coarse!TERMINAL_OK, Coarse!TaskStep, Coarse!UNSETTLED_STATUSES,
         Coarse!UnknownStatus, Coarse!can_transition, Coarse!choose_supplier, Coarse!database,
         Coarse!enqueue, Coarse!finalize_exhausted, Coarse!post, Coarse!record_outcome,
         Coarse!reset_known_negatives, Coarse!statuses, Coarse!suppliers, Coarse!Cardinality
<1>3. [Coarse!Next]_(Coarse!vars) => [Proved!Next]_(Proved!vars)
  BY <1>2 DEF Coarse!vars, Proved!vars
<1> QED
  BY <1>1, <1>3, ExchangeIsOneStep, PTL DEF ImplementsDelivery, Coarse!Spec, Proved!Spec

\* With the conversation spelt out a code still means delivered, the postings
\* still follow the status, and no code is given twice, whatever is lost, repeated
\* or late between client and supplier (delivery_service.py, client.py:92-211).
THEOREM ConversationKeepsBooks ==
    WireSpec => [](/\ SucceededImpliesDelivered /\ LiabilityMatchesStatus
                   /\ CodeGivenOnce /\ OneSuccess)
<1>1. Proved!Spec => []Proved!SucceededImpliesDelivered
  BY Assumed, Proved!CodeOnlyWhenDelivered
<1>2. Proved!Spec => []Proved!LiabilityMatchesStatus
  BY Assumed, Proved!LedgerFollowsStatus
<1>3. Proved!Spec => [](Proved!CodeGivenOnce /\ Proved!OneSuccess)
  BY Assumed, Proved!CodesAreGivenOnce
<1>4. /\ Proved!SucceededImpliesDelivered => SucceededImpliesDelivered
      /\ Proved!LiabilityMatchesStatus => LiabilityMatchesStatus
      /\ Proved!CodeGivenOnce => CodeGivenOnce
      /\ Proved!OneSuccess => OneSuccess
  BY DEF SucceededImpliesDelivered, LiabilityMatchesStatus, CodeGivenOnce, OneSuccess, Succeeded,
         Suppliers, UNSETTLED_STATUSES, RECOVERABLE_STATUSES,
         Proved!SucceededImpliesDelivered, Proved!LiabilityMatchesStatus,
         Proved!CodeGivenOnce, Proved!OneSuccess, Proved!Succeeded, Proved!Suppliers,
         Proved!UNSETTLED_STATUSES, Proved!RECOVERABLE_STATUSES
<1> QED
  BY <1>1, <1>2, <1>3, <1>4, ConversationIsProved, PTL

\* Unless a live worker is taken for dead, a delivered order keeps the one code
\* that its supplier bound to the request (delivery_service.py:_record_success).
THEOREM ConversationKeepsCodes == NoStall => (WireSpec => []DeliveredKeepsCode)
<1>1. Proved!NoStall => (Proved!Spec => []Proved!DeliveredKeepsCode)
  BY Assumed, Proved!CodeOfDeliveredIsKept
<1>2. Proved!DeliveredKeepsCode => DeliveredKeepsCode
  BY DEF DeliveredKeepsCode, Succeeded, Suppliers,
         Proved!DeliveredKeepsCode, Proved!Succeeded, Proved!Suppliers
<1>3. NoStall => Proved!NoStall
  BY DEF NoStall, Proved!NoStall
<1> QED
  BY <1>1, <1>2, <1>3, ConversationIsProved, PTL

\* The conversation implements Settlement (delivery_service.py).
THEOREM ConversationSettles == WireSpec => ImplementsSettlement
<1>1. Proved!Spec => Proved!ImplementsSettlement
  BY Assumed, Proved!PipelineImplementsSettlement
<1>2. Proved!WithCode = WithCode
  BY DEF WithCode, Succeeded, Suppliers, Proved!WithCode, Proved!Succeeded, Proved!Suppliers
<1>3. Proved!Money!Init => Money!Init
  BY <1>2 DEF Proved!Money!Init, Money!Init
<1>4. [Proved!Money!Next]_(Proved!Money!vars) => [Money!Next]_(Money!vars)
  BY DEF Proved!Money!vars, Proved!Money!Init, Proved!Money!Moves, Proved!Money!Books,
         Proved!Money!Capture, Proved!Money!Void, Proved!Money!Start, Proved!Money!GiveUp,
         Proved!Money!Deliver, Proved!Money!Overwrite, Proved!Money!Next, Money!vars, Money!Init,
         Money!Moves, Money!Books, Money!Capture, Money!Void, Money!Start, Money!GiveUp,
         Money!Deliver, Money!Overwrite, Money!Next, WithCode, Succeeded, Suppliers,
         Proved!WithCode, Proved!Succeeded, Proved!Suppliers
<1> QED
  BY <1>1, <1>3, <1>4, ConversationIsProved, PTL
     DEF ImplementsSettlement, Proved!ImplementsSettlement, Money!Spec, Proved!Money!Spec

\* From the answer on the wire to the code in the customer's hands: under one
\* worker process, with established connections, no late requests and fewer
\* unknown outcomes than a job has attempts, at most one code is taken for an order
\* and it is handed over once (client.py:92-211, app.py:84-144,
\* delivery_service.py).
THEOREM ConversationIsExactlyOnce == Calm => (WireSpec => ImplementsExactlyOnce)
<1>1. Proved!Calm => (Proved!Spec => Proved!ImplementsExactlyOnce)
  BY Assumed, Proved!PipelineImplementsExactlyOnce
<1>2. Calm => Proved!Calm
  BY DEF Calm, NoStall, NoLateIssue, OneWorker, PatientJobs, Setbacks, Suppliers, KeysDistinct,
         StocksApart, Stock,
         Proved!Calm, Proved!NoStall, Proved!NoLateIssue, Proved!OneWorker, Proved!PatientJobs,
         Proved!Setbacks, Proved!Suppliers, Proved!KeysDistinct, Proved!StocksApart, Proved!Stock
<1>3. /\ Proved!Phase = Phase
      /\ Proved!BoundCodes = BoundCodes
      /\ Proved!HandedCode = HandedCode
  BY DEF Phase, BoundCodes, HandedCode, Succeeded, Suppliers, UNSETTLED_STATUSES,
         RECOVERABLE_STATUSES, Proved!Phase, Proved!BoundCodes, Proved!HandedCode,
         Proved!Succeeded, Proved!Suppliers, Proved!UNSETTLED_STATUSES,
         Proved!RECOVERABLE_STATUSES
<1>4. /\ Phase' = Proved!Phase'
      /\ BoundCodes' = Proved!BoundCodes'
      /\ HandedCode' = Proved!HandedCode'
  BY DEF Phase, BoundCodes, HandedCode, Succeeded, Suppliers, UNSETTLED_STATUSES,
         RECOVERABLE_STATUSES, Proved!Phase, Proved!BoundCodes, Proved!HandedCode,
         Proved!Succeeded, Proved!Suppliers, Proved!UNSETTLED_STATUSES,
         Proved!RECOVERABLE_STATUSES
<1>5. Proved!Promise!Init => Promise!Init
  BY <1>3 DEF Proved!Promise!Init, Promise!Init
<1>6. [Proved!Promise!Next]_(Proved!Promise!vars) => [Promise!Next]_(Promise!vars)
  BY <1>3, <1>4
  DEF Proved!Promise!Next, Proved!Promise!vars, Proved!Promise!Capture, Proved!Promise!Void,
      Proved!Promise!Bind, Proved!Promise!Settle,
      Promise!Next, Promise!vars, Promise!Capture, Promise!Void, Promise!Bind, Promise!Settle
<1> QED
  BY <1>1, <1>2, <1>5, <1>6, ConversationIsProved, PTL
     DEF ImplementsExactlyOnce, Proved!ImplementsExactlyOnce, Promise!Spec, Proved!Promise!Spec
===============================================================================
