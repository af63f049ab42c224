------------------------------ MODULE Exchange ------------------------------
(***************************************************************************)
(* The delivery pipeline with the conversation between SupplierClient and  *)
(* the supplier's POST /issue spelt out: a request travels, is served by   *)
(* the handler with its chaos, and the answer travels back, arrives,       *)
(* arrives broken or does not arrive, while the tables change, requests of *)
(* former tries are served late and processes die.  Delivery takes all of  *)
(* this for one step; ImplementsDelivery shows that it may.                *)
(***************************************************************************)
EXTENDS Delivery

VARIABLE wire   \* per worker and job, the exchange its task is waiting for

wireVars == <<vars, wire>>

\* Chaos.decide: what a supplier in that mode may do with a request.
Mode == {"random", "ok", "timeout", "error", "out_of_stock"}

decide(mode) == IF mode = "random" THEN {"ok", "timeout", "error"} ELSE {mode}

\* The mode may be changed between any two requests (POST /admin/config).
Behaviour == UNION {decide(mode) : mode \in Mode}

\* Bodies of answers; "other" is whatever the contract does not know.
Issued(code)   == [status |-> "ok", code |-> code, reason |-> "none"]
_error(reason) == [status |-> "error", code |-> NoCode, reason |-> reason]
Broken         == [status |-> "other", code |-> NoCode, reason |-> "none"]

Quiet == [at |-> "quiet", body |-> Broken]
Sent  == [at |-> "sent", body |-> Broken]
Silence == [at |-> "silent", body |-> Broken]
Answer(body) == [at |-> "answered", body |-> body]

Awaiting(w, j, at) == tasks[w][j].pc = "call" /\ wire[w][j].at = at

-----------------------------------------------------------------------------
(* The supplier: POST /issue.  The handler does not give way between its    *)
(* look at the store and its issue.                                         *)

\* A request_id that has its code is answered with it, unless the handler hangs;
\* hanging it issues first, like a request that all goes well with.
WantsKey(s, o, behaviour) == behaviour \in {"ok", "timeout"} \/ issued[s][o] # NoCode

issue(s, o, behaviour) ==
    CASE WantsKey(s, o, behaviour) /\ CanIssue(s, o)  -> Issued(CodeFor(s, o))
      [] WantsKey(s, o, behaviour) /\ ~CanIssue(s, o) -> _error("out_of_stock")
      [] ~WantsKey(s, o, behaviour) ->
             _error(IF behaviour = "error" THEN "other" ELSE "out_of_stock")

\* Of the answer the client hears at once what becomes of it: it arrives, or
\* (a hanging handler, a lost or broken answer) it is of no use.
Serve(w, j, behaviour) ==
    LET t == tasks[w][j]
        body == issue(t.supplier, t.order, behaviour)
    IN  /\ Awaiting(w, j, "sent")
        /\ IF body.status = "ok" THEN KeyStoreIssue(t.supplier, t.order)
                                 ELSE UNCHANGED <<free, issued>>
        /\ \/ /\ wire' = [wire EXCEPT ![w][j] = Answer(body)]
              /\ UNCHANGED budget
           \/ /\ Spend({"no_answer"})
              /\ wire' \in {[wire EXCEPT ![w][j] = heard] : heard \in {Silence, Answer(Broken)}}
        /\ UNCHANGED <<database, tasks, sweeps, retrying, late>>

-----------------------------------------------------------------------------
(* The network *)

\* The request does not get there.
LoseRequest(w, j) ==
    /\ Awaiting(w, j, "sent")
    /\ Spend({"no_answer"})
    /\ wire' = [wire EXCEPT ![w][j] = Silence]
    /\ UNCHANGED <<database, tasks, sweeps, retrying, suppliers>>

\* It gets there after the client has given up on it.
DelayRequest(w, j) ==
    /\ Awaiting(w, j, "sent")
    /\ Spend({"delayed"})
    /\ late' = late \cup {<<tasks[w][j].order, tasks[w][j].supplier>>}
    /\ wire' = [wire EXCEPT ![w][j] = Silence]
    /\ UNCHANGED <<database, tasks, sweeps, retrying, free, issued>>

-----------------------------------------------------------------------------
(* SupplierClient *)

\* Mutant: an answer outside the contract counts as a refusal.
_parse_lenient(body) == IF body.status = "ok" THEN "ok" ELSE "refused"

\* _parse, as the exception it raises.
_parse(body) == CASE body.status = "error" -> "refused"
                  [] body.status = "ok" /\ body.code # NoCode -> "ok"
                  [] OTHER -> "unknown"

\* The loop of SupplierClient.issue: what the task goes on with.
Unanswered(t) == IF t.call < supplier_max_attempts THEN [t EXCEPT !.call = @ + 1]
                                                   ELSE GivesUp(t)

AfterExchange(t, x) ==
    LET outcome == _parse(x.body)
    IN  IF x.at = "silent" \/ outcome = "unknown" THEN Unanswered(t)
        ELSE Answered(t, outcome, x.body.code, x.body.reason)

\* A request is on its way as soon as a task comes to its exchange or repeats it,
\* and nothing is when the task has left it.
Follows ==
    wire' = [w \in Workers |-> [j \in JobIds |->
                IF tasks'[w][j].pc # "call" THEN Quiet
                ELSE IF tasks'[w][j] # tasks[w][j] THEN Sent
                ELSE wire[w][j]]]

\* The answer arrives, or the timeout does.
Hears(w, j, at) ==
    /\ Awaiting(w, j, at)
    /\ Become(w, j, AfterExchange(tasks[w][j], wire[w][j]))
    /\ Follows
    /\ UNCHANGED <<database, sweeps, retrying, suppliers, budget>>

Receive(w, j)  == Hears(w, j, "answered")
TimesOut(w, j) == Hears(w, j, "silent")

FailConnect(w, j) == Awaiting(w, j, "sent") /\ ConnectFails(w, j) /\ Follows

-----------------------------------------------------------------------------

\* A worker dies; only a request that is not served yet may be served later.
Dies(w) ==
    /\ Busy(w) \/ sweeps[w].pc # "off"
    /\ Drop(w)
    /\ \/ Spend({"crash"}) /\ UNCHANGED late
       \/ \E j \in JobIds :
             /\ Awaiting(w, j, "sent")
             /\ Spend({"crash", "delayed"})
             /\ late' = late \cup {<<tasks[w][j].order, tasks[w][j].supplier>>}
    /\ Follows

\* Everything else is as in Delivery.
WorksOn(w, j) == TaskStep(w, j) /\ Follows

Elsewhere ==
    /\ \/ \E w \in Workers, j \in JobIds : DatabaseFails(w, j)
       \/ \E w \in Workers : Claim(w) \/ SweepStep(w) \/ SweepFails(w)
       \/ \E o \in Orders : Pay(o) \/ FailPayment(o) \/ RetryResets(o) \/ RetryEnqueues(o)
       \/ \E s \in Suppliers : Restock(s)
       \/ LateRequestServed
    /\ Follows

WireInit == Init /\ wire = [w \in Workers |-> [j \in JobIds |-> Quiet]]

WireNext ==
    \/ \E w \in Workers, j \in JobIds :
          \/ \E behaviour \in Behaviour : Serve(w, j, behaviour)
          \/ LoseRequest(w, j) \/ DelayRequest(w, j) \/ FailConnect(w, j)
          \/ Receive(w, j)     \/ TimesOut(w, j)     \/ WorksOn(w, j)
    \/ \E w \in Workers : Dies(w)
    \/ Elsewhere

WireSpec == WireInit /\ [][WireNext]_wireVars

\* The request is served or fails to get there.
Travels(w, j) == \/ \E behaviour \in Behaviour : Serve(w, j, behaviour)
                 \/ LoseRequest(w, j) \/ DelayRequest(w, j) \/ FailConnect(w, j)

\* A supplier that has a key gives it, and the answer arrives.
ServesWell(w, j) == Serve(w, j, "ok") /\ wire'[w][j].body.status = "ok"

\* A pass that requeues every job of a dead worker, and one that sees every
\* stuck order: once they are older than stuck_order_age_s each pass does.
RequeueDead(w) ==
    /\ SweepRequeue(w)
    /\ \A j \in JobIds : jobs[j].state = "running" /\ ~Held(tasks, j)
                             => jobs'[j].state = "queued"

CollectAll(w) ==
    /\ SweepCollect(w)
    /\ sweeps'[w].todo = StuckOrders

(***************************************************************************)
(* A live worker executes its tasks and its sweep.  What is sent gets      *)
(* somewhere or not, an answer is read, and the timeouts of the client end *)
(* a silence.  The loop comes back to the sweep (timer) and to the claim   *)
(* again and again, each enabled in turn with the other, so both are       *)
(* strongly fair.  A supplier that can issue a code and is asked again and *)
(* again does so sometime.                                                 *)
(***************************************************************************)
FairWireSpec ==
    /\ WireSpec
    /\ \A w \in Workers, j \in JobIds :
          /\ WF_wireVars(WorksOn(w, j))
          /\ WF_wireVars(Travels(w, j))
          /\ WF_wireVars(Receive(w, j))
          /\ WF_wireVars(TimesOut(w, j))
          /\ SF_wireVars(ServesWell(w, j))
    /\ \A w \in Workers :
          /\ SF_wireVars(Claim(w) /\ Follows)
          /\ SF_wireVars(RequeueDead(w) /\ Follows)
          /\ SF_wireVars(CollectAll(w) /\ Follows)
          /\ WF_wireVars(SweepReset(w) /\ Follows)
          /\ WF_wireVars(SweepEnqueue(w) /\ Follows)

-----------------------------------------------------------------------------
(* Properties *)

\* One request_id, one key, one answer (supplier_stub/store.py:3-6): a key is in
\* the pool or bound; and every answer under way, every code in a worker's hand
\* and every code on record is the one bound to the request, however often and
\* however late the request was served.
OneKeyPerRequest ==
    /\ \A s \in Suppliers :
          /\ \A i, k \in DOMAIN free[s] : free[s][i] = free[s][k] => i = k
          /\ \A o \in Orders, i \in DOMAIN free[s] : free[s][i] # issued[s][o]
    /\ \A w \in Workers, j \in JobIds :
          LET t == tasks[w][j]
          IN  /\ Awaiting(w, j, "answered") /\ wire[w][j].body.status = "ok" =>
                    wire[w][j].body.code = issued[t.supplier][t.order]
              /\ t.code # NoCode => t.code = issued[t.supplier][t.order]
    /\ \A o \in Orders, s \in Suppliers :
          rows[o][s].code # NoCode => rows[o][s].code = issued[s][o]

\* A task whose answer is on its way has its outcome already; one that waits in
\* vain has learnt that it learns nothing.
Outcome == [w \in Workers |-> [j \in JobIds |->
              IF tasks[w][j].pc = "call" /\ wire[w][j].at \in {"answered", "silent"}
              THEN AfterExchange(tasks[w][j], wire[w][j])
              ELSE tasks[w][j]]]

Coarse == INSTANCE Delivery WITH tasks <- Outcome

\* The pipeline with its conversation implements the pipeline that takes an
\* exchange for one step, so what is shown of Delivery holds here
\* (client.py:92-211, app.py:84-144).
ImplementsDelivery == Coarse!Spec
=============================================================================
