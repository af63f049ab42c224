---------------------------- MODULE SessionsProofs ----------------------------
(***************************************************************************)
(* Theorems about Sessions, for any number of sessions of every kind: what *)
(* the row locks and unique indexes keep apart, and that nobody waits for  *)
(* ever but in company of an administrator's retry.                        *)
(***************************************************************************)
EXTENDS Sessions, ReportsProofs, FiniteSetTheorems, TLAPS

-----------------------------------------------------------------------------
(* The inductive invariant *)

\* Where a session of each kind can be.
PlacesOf(kind) ==
    Ended \cup
    CASE kind = "create"  -> {"lookup", "insert", "reread", "reply", "commit"}
      [] kind = "webhook" -> {"event", "order", "enqueue", "reply", "commit"}
      [] kind = "retry"   -> {"read", "recover", "enqueue", "reference", "reply", "commit"}
      [] kind = "sweep"   -> {"begin", "recover", "enqueue", "reference", "commit"}
      [] kind = "replay"  -> {"order", "enqueue", "commit"}
      [] kind = "deliver" -> {"claim", "prepare", "order", "rows", "supersede", "commit", "finish",
                              "requeue"}
      [] kind = "report"  -> {"begin", "reply", "commit"} \cup ReportPlaces
      [] kind = "view"    -> {"reply", "commit"} \cup ViewPlaces

Placed(s) == at[s] \in PlacesOf(plan[s].kind)

\* What a session may hold there, and what it must hold.
Judging(s) == plan[s].kind \in {"webhook", "replay"} /\ at[s] \in {"enqueue", "reply", "commit"}

Recording(s) == plan[s].kind = "deliver" /\ at[s] \in {"rows", "commit"}

MayLock(s, held) ==
    LET o == plan[s].order
    IN  \/ held = Lock("update", o) /\ (Judging(s) \/ Recording(s))
        \/ held = Lock("share", o) /\ at[s] \in {"reply", "commit"}
        \/ held = Lock("rows", o) /\ at[s] = "commit"

MayWrite(s, write) ==
    LET o == plan[s].order
        kind == plan[s].kind
    IN  \/ write = Lock("key", "key") /\ kind = "create" /\ at[s] \in {"reply", "commit"}
        \/ /\ write = Lock("event", plan[s].event)
           /\ kind = "webhook" /\ at[s] \in {"order", "enqueue", "reply", "commit"}
        \/ write = Capture(o) /\ Judging(s)
        \/ write = Lock("job", o) /\ at[s] \in {"reference", "reply", "commit"}
        \/ write = Success(o) /\ kind = "deliver" /\ at[s] = "commit"

Holds(s) ==
    LET o == plan[s].order
    IN  /\ \A held \in locks[s] : MayLock(s, held)
        /\ \A write \in wrote[s] : MayWrite(s, write)
        /\ Capture(o) \in wrote[s] \/ Recording(s) => Lock("update", o) \in locks[s]
        /\ Judging(s) /\ at[s] = "enqueue" => Capture(o) \in wrote[s]
        /\ Recording(s) /\ at[s] = "commit" => Success(o) \in wrote[s]

\* No two sessions hold what conflicts.
Apart == \A s, t \in Sessions : s # t =>
            \A held \in Held(s), other \in Held(t) : ~Conflicts(held, other)

\* Connections belong to requests, and a request that holds anything has one.
Connected(s) == /\ ~IsApi(s) \/ at[s] \in Ended => conns[s] = 0
                /\ IsApi(s) /\ Held(s) # {} => conns[s] # 0

\* The run of a job.
Runs(s) == plan[s].kind = "deliver" /\ at[s] \in PlacesOf("deliver") \ (Ended \cup {"claim"})

JobsInv ==
    /\ \A s \in Sessions : Runs(s) => jobs[plan[s].order] = "running"
    /\ \A s, t \in Sessions : Runs(s) /\ Runs(t) /\ plan[s].order = plan[t].order => s = t
    /\ \A s \in Sessions, o \in Orders :
          Lock("job", o) \in wrote[s] => jobs[o] \notin ActiveStates

\* What a session has read of its order is so still.
StatusInv ==
    \A s \in Sessions :
        LET o == plan[s].order
        IN  /\ Capture(o) \in wrote[s] => orderStatus[o] = "created"
            /\ plan[s].kind = "deliver" /\ at[s] \in {"order", "rows", "commit"} =>
                  orderStatus[o] = "delivering"
            /\ plan[s].kind = "sweep" /\ at[s] \notin {"begin"} \cup Ended =>
                  orderStatus[o] # "created"

BooksInv ==
    \A o \in Orders :
        /\ ledger[o] = CASE orderStatus[o] = "created" -> {}
                         [] orderStatus[o] = "delivered" -> LedgerEventType
                         [] OTHER -> {"payment_captured"}
        /\ o \in coded <=> orderStatus[o] = "delivered"

\* A creation's answer names its own uncommitted order or the committed one.
KeyOf(s) ==
    /\ Lock("key", "key") \in wrote[s] => owner = NoOrder /\ answer[s] = s
    /\ plan[s].kind = "create" =>
          /\ at[s] = "reread" => owner # NoOrder
          /\ at[s] \in {"reply", "commit"} =>
                Lock("key", "key") \in wrote[s] \/ (answer[s] = owner /\ owner # NoOrder)
          /\ at[s] = "done" => answer[s] = owner /\ owner # NoOrder
          /\ at[s] = "lost" => answer[s] \in {s, owner} \ {NoOrder}

KeyInv == \A s \in Sessions : KeyOf(s)

\* What a view has read is there.
ViewOf(s) ==
    plan[s].kind = "view" =>
        LET v == view[s]
        IN  /\ v.status \/ v.code => plan[s].order \in coded
            /\ at[s] \in {"attempts", "reply", "commit", "done", "lost"} /\ v.status => v.code
            /\ at[s] \in {"reply", "commit", "done", "lost"} /\ v.code => v.attempts

ViewInv == \A s \in Sessions : ViewOf(s)

IInv == /\ \A s \in Sessions : Placed(s) /\ Holds(s) /\ Connected(s)
        /\ Apart
        /\ JobsInv
        /\ StatusInv
        /\ BooksInv
        /\ KeyInv
        /\ ViewInv

-----------------------------------------------------------------------------
(* Steps *)

\* A step of one session; every failure is a rollback.
Fails(s) == /\ at[s] \notin Ended \cup {"begin", "claim", "reply"}
            /\ RollsBack(s)
            /\ errors' \in {errors, errors - 1} \cap Nat

Acts(s) == Connect(s) \/ Statement(s) \/ Fails(s)

LEMMA FailureRollsBack ==
    ASSUME TypeOK, IInv, NEW s \in Sessions,
           StatementFails(s) \/ DeadlockDetected(s) \/ PoolTimesOut(s)
    PROVE  Fails(s)
<1>1. errors \in Nat
  BY SessionsAssumption DEF TypeOK, SessionsAssumption
<1>2. CASE StatementFails(s)
  BY <1>1, <1>2 DEF StatementFails, Fails
<1>3. CASE DeadlockDetected(s)
  <2>1. Wanted(s) # {}
    BY <1>3 DEF DeadlockDetected, Blockers
  <2>2. at[s] \in {"insert", "event", "order", "prepare", "rows", "supersede", "recover",
               "enqueue", "reference"}
    BY <2>1 DEF Wanted
  <2> QED BY <1>1, <1>3, <2>2 DEF DeadlockDetected, Fails, Ended
<1>4. CASE PoolTimesOut(s)
  <2>1. IsApi(s) /\ at[s] \notin Ended \cup {"begin", "reply", "commit"}
    BY <1>4 DEF PoolTimesOut, WantsInVain, WantsConnection
  <2>2. at[s] # "claim"
    BY <2>1 DEF IInv, Placed, PlacesOf, IsApi, ApiKinds, TypeOK, ReportPlaces, Lists, ViewPlaces, ViewParts, Ended
  <2> QED BY <1>1, <1>4, <2>1, <2>2 DEF PoolTimesOut, Fails
<1> QED BY <1>2, <1>3, <1>4

LEMMA NextActs ==
    ASSUME TypeOK, IInv, Next
    PROVE  \E s \in Sessions : Acts(s)
BY FailureRollsBack DEF Next, Acts

\* The names of the places of reports and views, and of the tables' rows.
LEMMA PlacesSpelled ==
    /\ ReportPlaces = {"paid_not_delivered", "delivered_not_paid", "superseded_codes",
                       "total_balance", "open_liabilities"}
    /\ ViewPlaces = {"status", "code", "attempts"}
    /\ Lists[1] = "paid_not_delivered" /\ ViewParts[1] = "status"
<1>1. ReportPlaces = {"paid_not_delivered", "delivered_not_paid", "superseded_codes",
                      "total_balance", "open_liabilities"}
  BY DEF ReportPlaces, Lists
<1>2. ViewPlaces = {"status", "code", "attempts"}
  BY DEF ViewPlaces, ViewParts
<1> QED BY <1>1, <1>2 DEF Lists, ViewParts

LEMMA ListRead ==
    ASSUME NEW s \in Sessions, at \in [Sessions -> Places], ReadList(s)
    PROVE  /\ at[s] \in ReportPlaces
           /\ \/ at[s] = "paid_not_delivered" /\ at'[s] = "delivered_not_paid"
              \/ at[s] = "delivered_not_paid" /\ at'[s] = "superseded_codes"
              \/ at[s] = "superseded_codes" /\ at'[s] = "total_balance"
              \/ at[s] = "total_balance" /\ at'[s] = "open_liabilities"
              \/ at[s] = "open_liabilities" /\ at'[s] = "reply"
           /\ at' = [at EXCEPT ![s] = at'[s]]
           /\ DOMAIN report' = DOMAIN report
           /\ UNCHANGED <<plan, conns, locks, wrote, tables, answer, view, watch, errors>>
<1>1. PICK i \in DOMAIN Lists :
          /\ Executes(s, Lists[i])
          /\ \E found \in ReadsList(Lists[i]) : report' = [report EXCEPT ![Lists[i]] = found]
          /\ Goes(s, IF i = Len(Lists) THEN "reply" ELSE Lists[i + 1])
          /\ UNCHANGED <<plan, conns, locks, wrote, tables, answer, view, watch, errors>>
  BY DEF ReadList
<1>2. DOMAIN Lists = 1 .. 5 /\ Len(Lists) = 5
  BY DEF Lists
<1>3. \/ at[s] = "paid_not_delivered" /\ at'[s] = "delivered_not_paid"
      \/ at[s] = "delivered_not_paid" /\ at'[s] = "superseded_codes"
      \/ at[s] = "superseded_codes" /\ at'[s] = "total_balance"
      \/ at[s] = "total_balance" /\ at'[s] = "open_liabilities"
      \/ at[s] = "open_liabilities" /\ at'[s] = "reply"
  BY <1>1, <1>2 DEF Lists, Executes, Goes
<1>4. DOMAIN report' = DOMAIN report
  BY <1>1
<1>5. at' = [at EXCEPT ![s] = at'[s]]
  BY <1>1 DEF Goes
<1> QED BY <1>1, <1>3, <1>4, <1>5, PlacesSpelled

LEMMA ViewRead ==
    ASSUME NEW s \in Sessions, at \in [Sessions -> Places],
           view \in [Sessions -> [ViewPlaces -> BOOLEAN]], ReadView(s)
    PROVE  /\ view' \in [Sessions -> [ViewPlaces -> BOOLEAN]]
           /\ \A t \in Sessions \ {s} : view'[t] = view[t]
           /\ \/ /\ at[s] = "status" /\ at'[s] = "code"
                 /\ view'[s].status = (orderStatus[plan[s].order] = "delivered")
                 /\ view'[s].code = view[s].code /\ view'[s].attempts = view[s].attempts
              \/ /\ at[s] = "code" /\ at'[s] = "attempts"
                 /\ view'[s].code = (plan[s].order \in coded)
                 /\ view'[s].status = view[s].status /\ view'[s].attempts = view[s].attempts
              \/ /\ at[s] = "attempts" /\ at'[s] = "reply"
                 /\ view'[s].attempts = (plan[s].order \in coded)
                 /\ view'[s].status = view[s].status /\ view'[s].code = view[s].code
           /\ at' = [at EXCEPT ![s] = at'[s]]
           /\ UNCHANGED <<plan, conns, locks, wrote, tables, answer, report, watch, errors>>
<1> DEFINE o == plan[s].order
<1>1. PICK i \in DOMAIN ViewParts :
          /\ Executes(s, ViewParts[i])
          /\ view' = [view EXCEPT ![s][ViewParts[i]] =
                         IF ViewParts[i] = "status" THEN orderStatus[o] = "delivered"
                                                    ELSE o \in coded]
          /\ Goes(s, IF i = Len(ViewParts) THEN "reply" ELSE ViewParts[i + 1])
          /\ UNCHANGED <<plan, conns, locks, wrote, tables, answer, report, watch, errors>>
  BY DEF ReadView
<1>2. DOMAIN ViewParts = 1 .. 3 /\ Len(ViewParts) = 3
  BY DEF ViewParts
<1>3. view[s] \in [ViewPlaces -> BOOLEAN]
  OBVIOUS
<1>4. CASE i = 1
  <2>1. ViewParts[i] = "status" /\ at'[s] = "code" /\ at[s] = "status"
    BY <1>1, <1>2, <1>4 DEF ViewParts, Executes, Goes
  <2>2. view' = [view EXCEPT ![s]["status"] = (orderStatus[o] = "delivered")]
    BY <1>1, <2>1
  <2> QED BY <1>1, <1>3, <2>1, <2>2, PlacesSpelled DEF Goes
<1>5. CASE i = 2
  <2>1. ViewParts[i] = "code" /\ at'[s] = "attempts" /\ at[s] = "code"
    BY <1>1, <1>2, <1>5 DEF ViewParts, Executes, Goes
  <2>2. view' = [view EXCEPT ![s]["code"] = (o \in coded)]
    BY <1>1, <2>1
  <2> QED BY <1>1, <1>3, <2>1, <2>2, PlacesSpelled DEF Goes
<1>6. CASE i = 3
  <2>1. ViewParts[i] = "attempts" /\ at'[s] = "reply" /\ at[s] = "attempts"
    BY <1>1, <1>2, <1>6 DEF ViewParts, Executes, Goes
  <2>2. view' = [view EXCEPT ![s]["attempts"] = (o \in coded)]
    BY <1>1, <2>1
  <2> QED BY <1>1, <1>3, <2>1, <2>2, PlacesSpelled DEF Goes
<1> QED BY <1>1, <1>2, <1>4, <1>5, <1>6

\* A step of a session is a step of no other.
LEMMA OthersStay ==
    ASSUME TypeOK, IInv, NEW s \in Sessions, Acts(s)
    PROVE  /\ plan' = plan
           /\ at' = [at EXCEPT ![s] = at'[s]]
           /\ conns' = [conns EXCEPT ![s] = conns'[s]]
           /\ locks' = [locks EXCEPT ![s] = locks'[s]]
           /\ wrote' = [wrote EXCEPT ![s] = wrote'[s]]
           /\ answer' = [answer EXCEPT ![s] = answer'[s]]
           /\ \A t \in Sessions \ {s} : view'[t] = view[t]
           /\ DOMAIN report' = DOMAIN report
<1> USE DEF Goes, Takes, Writes, Releases, AfterEnqueue, control, tables, results, orderTables
<1>0. /\ at \in [Sessions -> Places] /\ conns \in [Sessions -> 0 .. 2]
      /\ locks \in [Sessions -> SUBSET RowLocks] /\ wrote \in [Sessions -> SUBSET Writings]
      /\ answer \in [Sessions -> Sessions \cup {NoOrder}]
      /\ view \in [Sessions -> [ViewPlaces -> BOOLEAN]]
  BY DEF TypeOK
<1>1. CASE Connect(s)
  BY <1>0, <1>1 DEF Connect
<1>2. CASE Fails(s)
  BY <1>0, <1>2 DEF Fails, RollsBack
<1>3. CASE Reply(s) \/ Lookup(s) \/ Insert(s) \/ Reread(s)
  BY <1>0, <1>3 DEF Reply, Lookup, Insert, Reread
<1>4. CASE Commit(s)
  BY <1>0, <1>4 DEF Commit
<1>5. CASE InsertIfNew(s) \/ Judge(s) \/ Enqueue(s) \/ Reference(s)
  BY <1>0, <1>5 DEF InsertIfNew, Judge, Enqueue, Reference
<1>6. CASE ReadOrder(s) \/ Collect(s) \/ Recover(s)
  BY <1>0, <1>6 DEF ReadOrder, Collect, Recover
<1>7. CASE Claim(s) \/ Prepare(s) \/ LockOrder(s) \/ WriteRows(s) \/ CodeTaken(s) \/ Supersede(s)
           \/ Finish(s) \/ Requeue(s)
  BY <1>0, <1>7 DEF Claim, Prepare, LockOrder, WriteRows, CodeTaken, Supersede, Finish, Requeue
<1>8. CASE BeginReport(s)
  BY <1>0, <1>8 DEF BeginReport
<1>9. CASE ReadList(s)
  BY <1>0, <1>9, ListRead
<1>10. CASE ReadView(s)
  BY <1>0, <1>10, ViewRead
<1> QED BY <1>1, <1>2, <1>3, <1>4, <1>5, <1>6, <1>7, <1>8, <1>9, <1>10 DEF Acts, Statement

\* What the transactions that write to an order publish at their end.
LEMMA Published ==
    ASSUME TypeOK, IInv, NEW s \in Sessions, Publishes(s)
    PROVE  LET o == plan[s].order
           IN  /\ owner' = IF Lock("key", "key") \in wrote[s] THEN s ELSE owner
               /\ received' \subseteq Events
               /\ \A p \in Orders \ {o} : /\ orderStatus'[p] = orderStatus[p]
                                          /\ paid_at'[p] = paid_at[p]
                                          /\ ledger'[p] = ledger[p]
                                          /\ p \in coded' <=> p \in coded
                                          /\ jobs'[p] = jobs[p]
               /\ Capture(o) \notin wrote[s] \/ Success(o) \notin wrote[s]
               /\ Capture(o) \in wrote[s] =>
                     /\ orderStatus'[o] = "paid" /\ paid_at'[o]
                     /\ ledger'[o] = ledger[o] \cup {"payment_captured"}
                     /\ o \in coded' <=> o \in coded
               /\ Success(o) \in wrote[s] =>
                     /\ orderStatus'[o] = "delivered" /\ paid_at'[o] = paid_at[o]
                     /\ ledger'[o] = ledger[o] \cup {"delivery_completed"}
                     /\ o \in coded'
               /\ Capture(o) \notin wrote[s] /\ Success(o) \notin wrote[s] =>
                     /\ orderStatus'[o] = orderStatus[o] /\ paid_at'[o] = paid_at[o]
                     /\ ledger'[o] = ledger[o]
                     /\ o \in coded' <=> o \in coded
               /\ jobs'[o] = IF Lock("job", o) \in wrote[s] THEN "queued" ELSE jobs[o]
               /\ DOMAIN orderStatus' = Orders /\ DOMAIN paid_at' = Orders
               /\ DOMAIN ledger' = Orders /\ DOMAIN jobs' = Orders
               /\ coded' \subseteq Orders
<1> DEFINE o == plan[s].order
<1>1. \A write \in wrote[s] : MayWrite(s, write)
  BY DEF IInv, Holds
<1>2. \A p \in Orders : Capture(p) \in wrote[s] => p = o /\ Judging(s)
  BY <1>1 DEF MayWrite, Capture, Success, Lock
<1>3. \A p \in Orders : Success(p) \in wrote[s] => p = o /\ plan[s].kind = "deliver"
  BY <1>1 DEF MayWrite, Capture, Success, Lock
<1>4. \A p \in Orders : Lock("job", p) \in wrote[s] => p = o
  BY <1>1 DEF MayWrite, Capture, Success, Lock
<1>5. Capture(o) \notin wrote[s] \/ Success(o) \notin wrote[s]
  BY <1>2, <1>3 DEF Judging, TypeOK, SessionTask
<1>6. o \in Orders
  BY DEF TypeOK, SessionTask
<1> QED BY <1>2, <1>3, <1>4, <1>5, <1>6 DEF Publishes, TypeOK

WatchRecord == [recent : SUBSET Orders, owed : SUBSET Orders, moved : SUBSET Orders,
                superseded : SUBSET (Orders \X Suppliers)]

\* The watch stays a watch.
LEMMA WatchType ==
    ASSUME NEW changed \in SUBSET Orders, Watches(changed),
           watch \in WatchRecord
    PROVE  watch' \in WatchRecord
BY DEF Watches, WatchRecord

-----------------------------------------------------------------------------
(* Where a session is, what it holds, and that no two hold what conflicts *)

LEMMA PlacedStep ==
    ASSUME TypeOK, IInv, NEW s \in Sessions, Acts(s)
    PROVE  Placed(s)'
<1> USE DEF Goes, AfterEnqueue, Executes, control, tables, results, orderTables, Placed, PlacesOf,
            Ended
<1>0. /\ at \in [Sessions -> Places] /\ view \in [Sessions -> [ViewPlaces -> BOOLEAN]]
      /\ plan[s].kind \in Kinds
      /\ Placed(s)
      /\ plan' = plan
  BY OthersStay DEF TypeOK, IInv, SessionTask
<1>1. CASE Connect(s)
  BY <1>0, <1>1 DEF Connect
<1>2. CASE Fails(s)
  BY <1>0, <1>2, PlacesSpelled DEF Fails, RollsBack, Kinds, IsApi, ApiKinds
<1>3. CASE Reply(s) \/ Lookup(s) \/ Insert(s) \/ Reread(s)
  BY <1>0, <1>3, PlacesSpelled DEF Reply, Lookup, Insert, Reread, Kinds
<1>4. CASE Commit(s)
  BY <1>0, <1>4, PlacesSpelled DEF Commit, Kinds
<1>5. CASE InsertIfNew(s) \/ Judge(s)
  BY <1>0, <1>5, PlacesSpelled DEF InsertIfNew, Judge, Kinds, IsApi, ApiKinds
<1>6. CASE Enqueue(s) \/ Reference(s)
  <2>1. at'[s] \in {"reference"} \cup (IF IsApi(s) THEN {"reply"} ELSE {"commit"})
    BY <1>0, <1>6 DEF Enqueue, Reference
  <2>2. at'[s] = "reference" => plan[s].kind \in {"retry", "sweep"}
    BY <1>0, <1>6, PlacesSpelled DEF Enqueue, Reference, Kinds, IInv, Holds, Judging, IsApi, ApiKinds
  <2> QED BY <1>0, <1>6, <2>1, <2>2, PlacesSpelled DEF Enqueue, Reference, Kinds, IsApi, ApiKinds
<1>7. CASE ReadOrder(s) \/ Collect(s) \/ Recover(s)
  BY <1>0, <1>7, PlacesSpelled DEF ReadOrder, Collect, Recover, Kinds
<1>8. CASE Claim(s) \/ Prepare(s) \/ LockOrder(s) \/ WriteRows(s) \/ CodeTaken(s) \/ Supersede(s)
           \/ Finish(s) \/ Requeue(s)
  BY <1>0, <1>8, PlacesSpelled DEF Claim, Prepare, LockOrder, WriteRows, CodeTaken, Supersede, Finish,
                                   Requeue, Kinds
<1>9. CASE BeginReport(s)
  BY <1>0, <1>9, PlacesSpelled DEF BeginReport, Kinds
<1>10. CASE ReadList(s)
  BY <1>0, <1>10, ListRead, PlacesSpelled DEF Kinds
<1>11. CASE ReadView(s)
  BY <1>0, <1>11, ViewRead, PlacesSpelled DEF Kinds
<1> QED BY <1>1, <1>2, <1>3, <1>4, <1>5, <1>6, <1>7, <1>8, <1>9, <1>10, <1>11 DEF Acts, Statement

\* Which kinds a place belongs to.
LEMMA KindsOfPlaces ==
    ASSUME NEW kind \in Kinds, NEW place \in PlacesOf(kind)
    PROVE  /\ place \in {"lookup", "insert", "reread"} => kind = "create"
           /\ place = "event" => kind = "webhook"
           /\ place = "order" => kind \in {"webhook", "replay", "deliver"}
           /\ place = "enqueue" => kind \in {"webhook", "replay", "retry", "sweep"}
           /\ place \in {"recover", "reference"} => kind \in {"retry", "sweep"}
           /\ place = "read" => kind = "retry"
           /\ place \in {"claim", "prepare", "rows", "supersede", "finish", "requeue"} =>
                 kind = "deliver"
           /\ place = "begin" => kind \in {"sweep", "report"}
           /\ place \in ReportPlaces => kind = "report"
           /\ place \in ViewPlaces => kind = "view"
           /\ place = "reply" => kind \in ApiKinds
           /\ kind = "create" => place \in {"lookup", "insert", "reread", "reply", "commit"} \cup Ended
           /\ kind = "view" => place \in {"status", "code", "attempts", "reply", "commit"} \cup Ended
BY PlacesSpelled DEF Kinds, PlacesOf, Ended, ApiKinds

LEMMA HoldsStep ==
    ASSUME TypeOK, IInv, NEW s \in Sessions, Acts(s)
    PROVE  Holds(s)'
<1> DEFINE o == plan[s].order
           kind == plan[s].kind
<1> USE DEF Goes, AfterEnqueue, Executes, control, tables, results, orderTables, Judging, Recording,
            Lock, Capture, Success
<1>0. /\ at \in [Sessions -> Places] /\ view \in [Sessions -> [ViewPlaces -> BOOLEAN]]
      /\ locks \in [Sessions -> SUBSET RowLocks] /\ wrote \in [Sessions -> SUBSET Writings]
      /\ kind \in Kinds
      /\ plan' = plan
  BY OthersStay DEF TypeOK, SessionTask
<1>a. /\ \A held \in locks[s] : MayLock(s, held)
      /\ \A write \in wrote[s] : MayWrite(s, write)
      /\ Capture(o) \in wrote[s] \/ Recording(s) => Lock("update", o) \in locks[s]
      /\ Judging(s) /\ at[s] = "enqueue" => Capture(o) \in wrote[s]
      /\ Recording(s) /\ at[s] = "commit" => Success(o) \in wrote[s]
  BY DEF IInv, Holds
<1>b. at[s] \in PlacesOf(kind) /\ at'[s] \in PlacesOf(kind)
  BY <1>0, PlacedStep DEF IInv, Placed
<1>c. /\ at[s] = "event" => kind = "webhook"
      /\ at[s] \in {"insert", "lookup", "reread"} => kind = "create"
      /\ at[s] \in {"rows", "supersede", "claim", "prepare", "finish", "requeue"} => kind = "deliver"
      /\ at[s] \in {"recover", "reference"} => kind \in {"retry", "sweep"}
      /\ at[s] = "read" => kind = "retry"
      /\ at[s] = "reply" => kind \in ApiKinds
      /\ at[s] \in {"begin"} \cup ReportPlaces \cup ViewPlaces => kind \in {"sweep", "report", "view"}
  BY <1>0, <1>b, KindsOfPlaces
<1>1. CASE locks' = locks /\ wrote' = wrote /\ at' = at
  BY <1>0, <1>1, <1>a DEF Holds, MayLock, MayWrite
<1>2. CASE locks'[s] = {} /\ wrote'[s] = {} /\ ~Recording(s)' /\ at'[s] # "enqueue"
  BY <1>0, <1>2 DEF Holds
<1>3. CASE Commit(s) \/ Fails(s) \/ CodeTaken(s)
  <2>1. locks'[s] = {} /\ wrote'[s] = {} /\ at'[s] \notin {"rows", "commit", "enqueue"}
    BY <1>0, <1>3 DEF Commit, Fails, RollsBack, CodeTaken, Releases
  <2> QED BY <1>2, <2>1
<1>4. CASE Connect(s)
  BY <1>1, <1>4 DEF Connect
<1>5. CASE Reply(s)
  BY <1>0, <1>5, <1>a, <1>b, <1>c DEF Reply, ApiKinds, Holds, MayLock, MayWrite
<1>6. CASE Lookup(s) \/ Reread(s) \/ Insert(s)
  BY <1>0, <1>6, <1>a, <1>b, <1>c
     DEF Lookup, Reread, Insert, Writes, Releases, Holds, MayLock, MayWrite
<1>7. CASE InsertIfNew(s)
  BY <1>0, <1>7, <1>a, <1>b, <1>c
     DEF InsertIfNew, Writes, Holds, MayLock, MayWrite
<1>8. CASE Judge(s)
  <2>1. locks'[s] = locks[s] \cup {Lock("update", o)}
    BY <1>0, <1>8 DEF Judge, Takes, Wanted
  <2> QED BY <1>0, <1>8, <1>a, <1>b, <1>c, <2>1
          DEF Judge, Writes, Holds, MayLock, MayWrite
<1>9. CASE Enqueue(s)
  <2>1. /\ locks' = locks
        /\ \/ at'[s] \in {"reply", "commit"} /\ wrote' = wrote
           \/ /\ at'[s] \in {"reply", "commit"} /\ Lock("update", o) \in locks[s]
              /\ wrote'[s] = wrote[s] \cup {Lock("job", o)}
           \/ /\ at'[s] = "reference" /\ Lock("update", o) \notin locks[s]
              /\ wrote'[s] = wrote[s] \cup {Lock("job", o)}
    BY <1>0, <1>9 DEF Enqueue, Writes
  <2>2. at[s] = "enqueue" /\ kind # "deliver"
    BY <1>0, <1>9, <1>b, KindsOfPlaces DEF Enqueue
  <2> QED BY <1>0, <1>a, <2>1, <2>2 DEF Holds, MayLock, MayWrite
<1>10. CASE Reference(s)
  <2>1. locks'[s] = locks[s] \cup {Lock("share", o)}
    BY <1>0, <1>10 DEF Reference, Takes, Wanted
  <2> QED BY <1>0, <1>10, <1>a, <1>b, <1>c, <2>1
          DEF Reference, Holds, MayLock, MayWrite
<1>11. CASE ReadOrder(s) \/ Collect(s) \/ Recover(s)
  BY <1>0, <1>11, <1>a, <1>b, <1>c
     DEF ReadOrder, Collect, Recover, Holds, MayLock, MayWrite
<1>12. CASE Claim(s) \/ Prepare(s) \/ Supersede(s) \/ Finish(s) \/ Requeue(s)
  BY <1>0, <1>12, <1>a, <1>b, <1>c
     DEF Claim, Prepare, Supersede, Finish, Requeue, Holds, MayLock, MayWrite
<1>13. CASE LockOrder(s)
  <2>1. locks'[s] = locks[s] \cup {Lock("update", o)}
    BY <1>0, <1>13 DEF LockOrder, Takes, Wanted
  <2> QED BY <1>0, <1>13, <1>a, <1>b, <1>c, <2>1
          DEF LockOrder, Holds, MayLock, MayWrite
<1>14. CASE WriteRows(s)
  <2>1. locks'[s] = locks[s] \cup {Lock("rows", o)}
    BY <1>0, <1>14 DEF WriteRows, Takes, Wanted
  <2> QED BY <1>0, <1>14, <1>a, <1>b, <1>c, <2>1
          DEF WriteRows, Writes, Holds, MayLock, MayWrite
<1>15. CASE BeginReport(s) \/ ReadList(s) \/ ReadView(s)
  <2>1. /\ at[s] \in {"begin"} \cup ReportPlaces \cup ViewPlaces
        /\ kind \in {"report", "view"}
        /\ locks' = locks /\ wrote' = wrote /\ at'[s] # "enqueue"
    <3>1. CASE BeginReport(s)
      BY <1>0, <3>1 DEF BeginReport, Lists
    <3>2. CASE ReadList(s)
      BY <1>0, <1>b, <3>2, ListRead, KindsOfPlaces, PlacesSpelled
    <3>3. CASE ReadView(s)
      BY <1>0, <1>b, <3>3, ViewRead, KindsOfPlaces, PlacesSpelled
    <3> QED BY <1>15, <3>1, <3>2, <3>3
  <2>2. at[s] \notin {"enqueue", "reply", "commit", "rows", "reference", "order"}
    BY <2>1, PlacesSpelled
  <2> QED BY <1>0, <1>a, <2>1, <2>2 DEF Holds, MayLock, MayWrite
<1> QED BY <1>3, <1>4, <1>5, <1>6, <1>7, <1>8, <1>9, <1>10, <1>11, <1>12, <1>13, <1>14, <1>15
        DEF Acts, Statement

\* Only requests have connections of the pool; they keep one until their
\* transaction ends.
LEMMA ConnectedStep ==
    ASSUME TypeOK, IInv, NEW s \in Sessions, Acts(s)
    PROVE  Connected(s)'
<1> USE DEF Goes, AfterEnqueue, Executes, control, tables, results, orderTables
<1>0. /\ at \in [Sessions -> Places] /\ view \in [Sessions -> [ViewPlaces -> BOOLEAN]]
      /\ conns \in [Sessions -> 0 .. 2]
      /\ plan' = plan /\ Connected(s)
      /\ IsApi(s)' = IsApi(s)
      /\ at[s] \in PlacesOf(plan[s].kind) /\ plan[s].kind \in Kinds
  BY OthersStay DEF TypeOK, IInv, IsApi, Placed, SessionTask
<1>1. CASE conns'[s] = 0 /\ Held(s)' = {}
  BY <1>1 DEF Connected
<1>2. CASE conns'[s] = conns[s] /\ at'[s] \notin Ended /\ (conns[s] # 0 \/ Held(s)' = Held(s))
  BY <1>0, <1>2 DEF Connected
<1>3. CASE conns'[s] = conns[s] /\ ~IsApi(s)
  BY <1>0, <1>3 DEF Connected
<1>4. CASE Connect(s)
  <2>1. IsApi(s) /\ at[s] \notin Ended /\ conns'[s] = conns[s] + 1 /\ at' = at
    BY <1>0, <1>4 DEF Connect, WantsConnection
  <2> QED BY <1>0, <2>1 DEF Connected
<1>5. CASE Commit(s) \/ Fails(s) \/ CodeTaken(s) \/ (Insert(s) /\ Releases(s))
  <2>1. conns'[s] = 0 /\ locks'[s] = {} /\ wrote'[s] = {}
    BY <1>0, <1>5 DEF Commit, Fails, RollsBack, CodeTaken, Releases, TypeOK
  <2> QED BY <1>1, <2>1 DEF Held
<1>6. CASE ~IsApi(s) /\ ~Fails(s) /\ ~Commit(s) /\ ~CodeTaken(s) /\ ~Recover(s)
  <2>1. ~Connect(s) /\ ~Insert(s)
    BY <1>0, <1>6, KindsOfPlaces DEF Connect, WantsConnection, Insert, IsApi, ApiKinds
  <2>2. conns' = conns
    BY <1>0, <1>6, <2>1, ListRead, ViewRead
       DEF Acts, Statement, Reply, Lookup, Reread, InsertIfNew, Judge, Enqueue, Reference, ReadOrder,
           Collect, Claim, Prepare, LockOrder, WriteRows, Supersede, Finish, Requeue, BeginReport
  <2> QED BY <1>3, <1>6, <2>2
<1>7. CASE Reply(s) \/ BeginReport(s)
  BY <1>0, <1>2, <1>7 DEF Reply, BeginReport, Held, Lists, Ended
<1>8. CASE Recover(s)
  <2>1. locks'[s] = locks[s] /\ wrote'[s] = wrote[s] /\ at'[s] = "enqueue"
        /\ conns'[s] = IF IsApi(s) THEN 1 ELSE 0
    BY <1>0, <1>8 DEF Recover
  <2> QED BY <1>0, <2>1 DEF Connected, Held, Ended
<1>9. CASE IsApi(s) /\ ~WantsConnection(s) /\ at[s] \notin Ended \cup {"begin", "reply", "commit"}
           /\ conns'[s] = conns[s] /\ at'[s] \notin Ended
  BY <1>0, <1>2, <1>9 DEF WantsConnection, Needed
<1>10. CASE IsApi(s) /\ (Lookup(s) \/ (Insert(s) /\ ~Releases(s)) \/ Reread(s) \/ InsertIfNew(s)
                         \/ Judge(s) \/ Enqueue(s) \/ Reference(s) \/ ReadOrder(s))
  BY <1>0, <1>9, <1>10 DEF Lookup, Insert, Reread, InsertIfNew, Judge, Enqueue, Reference, ReadOrder,
                           Ended
<1>11. CASE ReadList(s) \/ ReadView(s)
  <2>1. /\ at'[s] \notin Ended /\ conns'[s] = conns[s] /\ locks'[s] = locks[s] /\ wrote'[s] = wrote[s]
    BY <1>0, <1>11, ListRead, ViewRead DEF Ended
  <2> QED BY <1>2, <2>1 DEF Held
<1>12. Collect(s) \/ Claim(s) \/ Prepare(s) \/ LockOrder(s) \/ WriteRows(s) \/ Supersede(s)
          \/ Finish(s) \/ Requeue(s) => ~IsApi(s)
  BY <1>0, KindsOfPlaces
     DEF Collect, Claim, Prepare, LockOrder, WriteRows, Supersede, Finish, Requeue, IsApi, ApiKinds
<1> QED BY <1>4, <1>5, <1>6, <1>7, <1>8, <1>10, <1>11, <1>12 DEF Acts, Statement

\* What a step adds to the holdings of a session conflicts with nobody's.
LEMMA Footprint ==
    ASSUME TypeOK, IInv, NEW s \in Sessions, Acts(s)
    PROVE  \/ Held(s)' \subseteq Held(s)
           \/ /\ Blockers(s) = {}
              /\ Held(s)' \subseteq Held(s) \cup Wanted(s)
                                \cup {Capture(plan[s].order), Success(plan[s].order)}
<1> USE DEF Goes, AfterEnqueue, Executes, control, tables, results, orderTables, Held, Takes, Writes
<1>0. /\ at \in [Sessions -> Places] /\ view \in [Sessions -> [ViewPlaces -> BOOLEAN]]
      /\ locks \in [Sessions -> SUBSET RowLocks] /\ wrote \in [Sessions -> SUBSET Writings]
  BY DEF TypeOK
<1>1. CASE locks'[s] = locks[s] /\ wrote'[s] = wrote[s]
  BY <1>1
<1>2. CASE Commit(s) \/ Fails(s) \/ CodeTaken(s)
  BY <1>0, <1>2 DEF Commit, Fails, RollsBack, CodeTaken, Releases
<1>3. CASE Connect(s) \/ Reply(s) \/ Lookup(s) \/ Reread(s) \/ ReadOrder(s) \/ Collect(s)
           \/ Recover(s) \/ Claim(s) \/ Prepare(s) \/ Supersede(s) \/ Finish(s) \/ Requeue(s)
           \/ BeginReport(s)
  BY <1>1, <1>3 DEF Connect, Reply, Lookup, Reread, ReadOrder, Collect, Recover, Claim, Prepare,
                    Supersede, Finish, Requeue, BeginReport
<1>4. CASE ReadList(s) \/ ReadView(s)
  BY <1>0, <1>1, <1>4, ListRead, ViewRead
<1>5. CASE Insert(s)
  BY <1>0, <1>5 DEF Insert, Releases, Wanted
<1>6. CASE InsertIfNew(s) \/ Enqueue(s)
  BY <1>0, <1>6 DEF InsertIfNew, Enqueue, Wanted
<1>7. CASE Judge(s) \/ Reference(s) \/ LockOrder(s) \/ WriteRows(s)
  BY <1>0, <1>7 DEF Judge, Reference, LockOrder, WriteRows
<1> QED BY <1>2, <1>3, <1>4, <1>5, <1>6, <1>7 DEF Acts, Statement

LEMMA ApartStep ==
    ASSUME TypeOK, IInv, NEW s \in Sessions, Acts(s)
    PROVE  Apart'
<1> DEFINE o == plan[s].order
<1>1. \A t \in Sessions \ {s} : Held(t)' = Held(t)
  BY OthersStay DEF TypeOK, Held
<1>2. \A x, y : /\ Conflicts(x, y) <=> Conflicts(y, x)
                /\ ~Conflicts(Capture(o), x)
                /\ ~Conflicts(Success(o), x)
  BY DEF Conflicts, Capture, Success
<1>3. ASSUME NEW t \in Sessions \ {s}, NEW x \in Held(s)', NEW y \in Held(t)
      PROVE  ~Conflicts(x, y) /\ ~Conflicts(y, x)
  <2>1. CASE x \in Held(s)
    BY <1>2, <2>1 DEF IInv, Apart
  <2>2. CASE x \in {Capture(o), Success(o)}
    BY <1>2, <2>2
  <2>3. CASE x \in Wanted(s) /\ Blockers(s) = {}
    BY <1>2, <2>3 DEF Blockers
  <2> QED BY <1>3, <2>1, <2>2, <2>3, Footprint
<1>4. \A t, u \in Sessions : t # u /\ t # s /\ u # s =>
         \A held \in Held(t), other \in Held(u) : ~Conflicts(held, other)
  BY DEF IInv, Apart
<1> QED BY <1>1, <1>3, <1>4 DEF Apart

-----------------------------------------------------------------------------
(* What the tables say about the sessions *)

\* The runs of jobs and the entries of the job index.
LEMMA JobsStep ==
    ASSUME TypeOK, IInv, NEW s \in Sessions, Acts(s)
    PROVE  JobsInv'
<1> DEFINE o == plan[s].order
           places == {"prepare", "order", "rows", "supersede", "commit", "finish", "requeue"}
<1> USE DEF Goes, AfterEnqueue, Executes, control, tables, results, orderTables
<1>0. /\ at \in [Sessions -> Places] /\ at' = [at EXCEPT ![s] = at'[s]]
      /\ view \in [Sessions -> [ViewPlaces -> BOOLEAN]]
      /\ wrote \in [Sessions -> SUBSET Writings] /\ wrote' = [wrote EXCEPT ![s] = wrote'[s]]
      /\ jobs \in [Orders -> JobState \cup {"none"}]
      /\ plan' = plan
      /\ o \in Orders /\ \A t \in Sessions : plan[t].order \in Orders
      /\ plan[s].kind \in Kinds
  BY OthersStay DEF TypeOK, SessionTask
<1>a. /\ \A t \in Sessions : Runs(t) => jobs[plan[t].order] = "running"
      /\ \A t, u \in Sessions : Runs(t) /\ Runs(u) /\ plan[t].order = plan[u].order => t = u
      /\ \A t \in Sessions, p \in Orders : Lock("job", p) \in wrote[t] => jobs[p] \notin ActiveStates
  BY DEF IInv, JobsInv
<1>b. at[s] \in PlacesOf(plan[s].kind) /\ at'[s] \in PlacesOf(plan[s].kind)
  BY <1>0, PlacedStep DEF IInv, Placed
<1>c. \A t \in Sessions : Runs(t) <=> plan[t].kind = "deliver" /\ at[t] \in places
  BY DEF Runs, PlacesOf, Ended
<1>d. \A t \in Sessions : Runs(t)' <=> plan[t].kind = "deliver" /\ at'[t] \in places
  BY <1>0 DEF Runs, PlacesOf, Ended
<1>1. CASE /\ jobs' = jobs
           /\ Runs(s)' => Runs(s)
           /\ \A p \in Orders : Lock("job", p) \in wrote'[s] =>
                 Lock("job", p) \in wrote[s] \/ jobs[p] \notin ActiveStates
  <2>1. \A t \in Sessions : Runs(t)' => Runs(t)
    <3>1. \A t \in Sessions \ {s} : at'[t] = at[t]
      BY <1>0
    <3> QED BY <1>1, <1>c, <1>d, <3>1
  <2>2. \A t, u \in Sessions : Runs(t)' /\ Runs(u)' /\ plan[t].order = plan[u].order => t = u
    BY <1>a, <2>1
  <2>3. \A t \in Sessions, p \in Orders : Lock("job", p) \in wrote'[t] => jobs[p] \notin ActiveStates
    BY <1>0, <1>1, <1>a
  <2>4. \A t \in Sessions : Runs(t)' => jobs[plan[t].order] = "running"
    BY <1>a, <2>1
  <2>5. plan' = plan /\ jobs' = jobs
    BY <1>0, <1>1
  <2> QED BY <2>2, <2>3, <2>4, <2>5 DEF JobsInv
<1>2. CASE Fails(s)
  <2>1. jobs' = jobs /\ wrote'[s] = {} /\ at'[s] \in {"requeue", "lost", "failed"}
    BY <1>0, <1>2 DEF Fails, RollsBack, Releases
  <2>2. Runs(s)' => Runs(s)
    BY <1>0, <1>2, <1>b, <1>c, <1>d, <2>1 DEF Fails, RollsBack, PlacesOf, Ended
  <2> QED BY <1>1, <2>1, <2>2
<1>3. CASE Connect(s) \/ Reply(s) \/ Lookup(s) \/ Reread(s) \/ ReadOrder(s) \/ Collect(s)
           \/ Recover(s) \/ BeginReport(s)
  <2>1. jobs' = jobs /\ wrote' = wrote
    BY <1>3 DEF Connect, Reply, Lookup, Reread, ReadOrder, Collect, Recover, BeginReport
  <2>2. Runs(s)' => Runs(s)
    BY <1>0, <1>3, <1>b, <1>c, <1>d, KindsOfPlaces
       DEF Connect, Reply, Lookup, Reread, ReadOrder, Collect, Recover, BeginReport, Lists, ApiKinds
  <2> QED BY <1>1, <2>1, <2>2
<1>4. CASE ReadList(s) \/ ReadView(s)
  <2>1. jobs' = jobs /\ wrote' = wrote
    BY <1>0, <1>4, ListRead, ViewRead
  <2>2. Runs(s)' => Runs(s)
    BY <1>0, <1>4, <1>d, ListRead, ViewRead
  <2> QED BY <1>1, <2>1, <2>2
<1>5. CASE Insert(s) \/ InsertIfNew(s) \/ Judge(s)
  <2>1. jobs' = jobs /\ \A p \in Orders : Lock("job", p) \in wrote'[s] => Lock("job", p) \in wrote[s]
    BY <1>0, <1>5 DEF Insert, InsertIfNew, Judge, Writes, Releases, Lock, Capture
  <2>2. Runs(s)' => Runs(s)
    BY <1>0, <1>5, <1>b, <1>d, KindsOfPlaces DEF Insert, InsertIfNew, Judge
  <2> QED BY <1>1, <2>1, <2>2
<1>6. CASE Enqueue(s) \/ Reference(s)
  <2>1. jobs' = jobs /\ \A p \in Orders : Lock("job", p) \in wrote'[s] =>
           Lock("job", p) \in wrote[s] \/ jobs[p] \notin ActiveStates
    BY <1>0, <1>6 DEF Enqueue, Reference, Writes, Lock
  <2>2. Runs(s)' => Runs(s)
    BY <1>0, <1>6, <1>b, <1>d, KindsOfPlaces DEF Enqueue, Reference
  <2> QED BY <1>1, <2>1, <2>2
<1>7. CASE Prepare(s) \/ LockOrder(s) \/ WriteRows(s) \/ CodeTaken(s) \/ Supersede(s)
  <2>1. jobs' = jobs /\ \A p \in Orders : Lock("job", p) \in wrote'[s] => Lock("job", p) \in wrote[s]
    BY <1>0, <1>7 DEF Prepare, LockOrder, WriteRows, CodeTaken, Supersede, Writes, Releases, Lock,
                      Success
  <2>2. Runs(s)
    BY <1>0, <1>7, <1>b, <1>c, KindsOfPlaces
       DEF Prepare, LockOrder, WriteRows, CodeTaken, Supersede
  <2> QED BY <1>1, <2>1, <2>2
<1>8. CASE Claim(s)
  <2>1. /\ jobs[o] = "queued" /\ jobs' = [jobs EXCEPT ![o] = "running"]
        /\ wrote' = wrote /\ Runs(s)' 
    BY <1>0, <1>8, <1>b, <1>d, KindsOfPlaces DEF Claim
  <2>2. \A t \in Sessions : /\ Runs(t) => plan[t].order # o
                            /\ Lock("job", o) \notin wrote[t]
                            /\ Runs(t)' => t = s \/ Runs(t)
    BY <1>0, <1>a, <1>c, <1>d, <2>1 DEF ActiveStates
  <2>3. \A t \in Sessions : Runs(t)' => jobs'[plan[t].order] = "running"
    BY <1>0, <1>a, <2>1, <2>2
  <2>4. \A t, u \in Sessions : Runs(t)' /\ Runs(u)' /\ plan[t].order = plan[u].order => t = u
    BY <1>a, <2>2
  <2>5. \A t \in Sessions, p \in Orders : Lock("job", p) \in wrote[t] => jobs'[p] \notin ActiveStates
    BY <1>0, <1>a, <2>1, <2>2
  <2> QED BY <1>0, <2>1, <2>3, <2>4, <2>5 DEF JobsInv
<1>9. CASE Finish(s) \/ Requeue(s)
  <2>1. Runs(s) /\ ~Runs(s)'
    BY <1>0, <1>9, <1>b, <1>c, <1>d, KindsOfPlaces DEF Finish, Requeue
  <2>2. jobs[o] = "running" /\ wrote' = wrote
    BY <1>9, <1>a, <2>1 DEF Finish, Requeue
  <2>3. jobs' = [jobs EXCEPT ![o] = jobs'[o]]
    BY <1>0, <1>9 DEF Finish, Requeue
  <2>4. \A t \in Sessions : Runs(t)' => Runs(t) /\ plan[t].order # o
    BY <1>0, <1>a, <1>c, <1>d, <2>1
  <2>5. \A t \in Sessions : Lock("job", o) \notin wrote[t]
    BY <1>0, <1>a, <2>2 DEF ActiveStates
  <2>6. \A t \in Sessions : Runs(t)' => jobs'[plan[t].order] = "running"
    BY <1>0, <1>a, <2>3, <2>4
  <2>7. \A t, u \in Sessions : Runs(t)' /\ Runs(u)' /\ plan[t].order = plan[u].order => t = u
    BY <1>a, <2>4
  <2>8. \A t \in Sessions, p \in Orders : Lock("job", p) \in wrote[t] => jobs'[p] \notin ActiveStates
    BY <1>0, <1>a, <2>3, <2>5
  <2> QED BY <1>0, <2>2, <2>6, <2>7, <2>8 DEF JobsInv
<1>10. CASE Commit(s)
  <2>1. Publishes(s) /\ wrote'[s] = {} /\ (Runs(s)' => Runs(s))
    BY <1>0, <1>10, <1>c, <1>d DEF Commit, Releases
  <2>2. /\ \A p \in Orders \ {o} : jobs'[p] = jobs[p]
        /\ jobs'[o] = IF Lock("job", o) \in wrote[s] THEN "queued" ELSE jobs[o]
    BY <2>1, Published
  <2>3. \A t \in Sessions : /\ Runs(t)' => Runs(t)
                            /\ Lock("job", o) \in wrote[s] =>
                                  Lock("job", o) \notin wrote'[t] /\ ~(Runs(t) /\ plan[t].order = o)
    <3>1. ASSUME NEW t \in Sessions, Lock("job", o) \in wrote[s]
          PROVE  Lock("job", o) \notin wrote'[t]
      BY <1>0, <2>1, <3>1 DEF IInv, Apart, Held, Conflicts, Lock
    <3>2. ASSUME NEW t \in Sessions, Runs(t), plan[t].order = o
          PROVE  Lock("job", o) \notin wrote[s]
      BY <1>0, <1>a, <3>2 DEF ActiveStates
    <3> QED BY <1>0, <1>c, <1>d, <2>1, <3>1, <3>2
  <2>4. \A t \in Sessions : Runs(t)' => jobs'[plan[t].order] = "running"
    BY <1>0, <1>a, <2>2, <2>3
  <2>5. \A t, u \in Sessions : Runs(t)' /\ Runs(u)' /\ plan[t].order = plan[u].order => t = u
    BY <1>a, <2>3
  <2>6. \A t \in Sessions, p \in Orders : Lock("job", p) \in wrote'[t] => jobs'[p] \notin ActiveStates
    BY <1>0, <1>a, <2>1, <2>2, <2>3
  <2> QED BY <1>0, <2>4, <2>5, <2>6 DEF JobsInv
<1> QED BY <1>2, <1>3, <1>4, <1>5, <1>6, <1>7, <1>8, <1>9, <1>10 DEF Acts, Statement

orderBooks == <<orderStatus, paid_at, ledger, coded>>

\* What a step may do to the orders and their books.
Starts(s) == LET o == plan[s].order
             IN  /\ plan[s].kind = "deliver" /\ at[s] = "prepare"
                 /\ orderStatus[o] \in DELIVERABLE_STATUSES
                 /\ orderStatus' = [orderStatus EXCEPT ![o] = "delivering"]
                 /\ UNCHANGED <<paid_at, ledger, coded>>

Captures(s) == LET o == plan[s].order
               IN  /\ Commit(s) /\ Capture(o) \in wrote[s]
                   /\ orderStatus[o] = "created"
                   /\ orderStatus' = [orderStatus EXCEPT ![o] = "paid"]
                   /\ paid_at' = [paid_at EXCEPT ![o] = TRUE]
                   /\ ledger' = [ledger EXCEPT ![o] = @ \cup {"payment_captured"}]
                   /\ UNCHANGED coded

HandsOver(s) == LET o == plan[s].order
                IN  /\ Commit(s) /\ plan[s].kind = "deliver"
                    /\ orderStatus[o] = "delivering"
                    /\ orderStatus' = [orderStatus EXCEPT ![o] = "delivered"]
                    /\ ledger' = [ledger EXCEPT ![o] = @ \cup {"delivery_completed"}]
                    /\ coded' = coded \cup {o}
                    /\ UNCHANGED paid_at

LEMMA OrdersMove ==
    ASSUME TypeOK, IInv, NEW s \in Sessions, Acts(s)
    PROVE  UNCHANGED orderBooks \/ Starts(s) \/ Captures(s) \/ HandsOver(s)
<1> DEFINE o == plan[s].order
<1> USE DEF tables, results, orderTables, orderBooks, control
<1>0. /\ at \in [Sessions -> Places] /\ view \in [Sessions -> [ViewPlaces -> BOOLEAN]]
      /\ orderStatus \in [Orders -> OrderStatus] /\ paid_at \in [Orders -> BOOLEAN]
      /\ ledger \in [Orders -> SUBSET LedgerEventType] /\ coded \subseteq Orders
      /\ o \in Orders /\ plan[s].kind \in Kinds
  BY DEF TypeOK, SessionTask
<1>b. at[s] \in PlacesOf(plan[s].kind)
  BY DEF IInv, Placed
<1>1. CASE Connect(s) \/ Fails(s) \/ Reply(s) \/ Lookup(s) \/ Insert(s) \/ Reread(s)
           \/ InsertIfNew(s) \/ Judge(s) \/ Enqueue(s) \/ Reference(s)
  BY <1>1 DEF Connect, Fails, RollsBack, Reply, Lookup, Insert, Reread, InsertIfNew, Judge, Enqueue,
              Reference
<1>2. CASE ReadOrder(s) \/ Collect(s) \/ Recover(s) \/ Claim(s) \/ LockOrder(s) \/ WriteRows(s)
           \/ CodeTaken(s) \/ Supersede(s) \/ Finish(s) \/ Requeue(s) \/ BeginReport(s)
  BY <1>2 DEF ReadOrder, Collect, Recover, Claim, LockOrder, WriteRows, CodeTaken, Supersede, Finish,
              Requeue, BeginReport
<1>3. CASE ReadList(s) \/ ReadView(s)
  BY <1>0, <1>3, ListRead, ViewRead
<1>4. CASE Prepare(s)
  <2>1. plan[s].kind = "deliver"
    BY <1>0, <1>4, <1>b, KindsOfPlaces DEF Prepare, Executes
  <2> QED BY <1>4, <2>1 DEF Prepare, Executes, Starts
<1>5. CASE Commit(s)
  <2>1. /\ \A p \in Orders \ {o} : /\ orderStatus'[p] = orderStatus[p]
                                   /\ paid_at'[p] = paid_at[p]
                                   /\ ledger'[p] = ledger[p]
                                   /\ p \in coded' <=> p \in coded
        /\ orderStatus' = [p \in Orders |-> orderStatus'[p]]
        /\ paid_at' = [p \in Orders |-> paid_at'[p]]
        /\ ledger' = [p \in Orders |-> ledger'[p]]
        /\ coded' \subseteq Orders
    <3>1. Publishes(s)
      BY <1>5 DEF Commit
    <3>2. /\ orderStatus' = [p \in Orders |-> orderStatus'[p]]
          /\ paid_at' = [p \in Orders |-> paid_at'[p]]
          /\ ledger' = [p \in Orders |-> ledger'[p]]
      BY <3>1 DEF Publishes
    <3> QED BY <3>1, <3>2, Published
  <2>a. /\ \A p \in Orders \ {o} : p \in coded' <=> p \in coded
        /\ coded \subseteq Orders /\ coded' \subseteq Orders /\ o \in Orders
    BY <1>0, <2>1
  <2>2. CASE Capture(o) \in wrote[s]
    <3>1. /\ orderStatus'[o] = "paid" /\ paid_at'[o] = TRUE
          /\ ledger'[o] = ledger[o] \cup {"payment_captured"}
          /\ o \in coded' <=> o \in coded
      <4>1. orderStatus'[o] = "paid" /\ ledger'[o] = ledger[o] \cup {"payment_captured"}
            /\ (o \in coded' <=> o \in coded)
        BY <1>5, <2>2, Published DEF Commit
      <4>2. paid_at'[o] = TRUE
        BY <1>0, <1>5, <2>2 DEF Commit, Publishes
      <4> QED BY <4>1, <4>2
    <3>2. orderStatus[o] = "created"
      BY <2>2 DEF IInv, StatusInv
    <3>3. coded' = coded
      <4>1. \A p : p \in coded' <=> p \in coded
        BY <2>a, <3>1
      <4> QED BY <4>1
    <3> QED BY <1>0, <1>5, <2>1, <2>2, <3>1, <3>2, <3>3 DEF Captures
  <2>3. CASE Success(o) \in wrote[s]
    <3>1. /\ orderStatus'[o] = "delivered" /\ paid_at'[o] = paid_at[o]
          /\ ledger'[o] = ledger[o] \cup {"delivery_completed"}
          /\ o \in coded'
      BY <1>5, <2>3, Published DEF Commit
    <3>2. MayWrite(s, Success(o)) /\ at[s] = "commit"
      BY <1>5, <2>3 DEF IInv, Holds, Commit, Executes
    <3>3. plan[s].kind = "deliver" /\ orderStatus[o] = "delivering"
      BY <3>2 DEF IInv, StatusInv, MayWrite, Success, Capture, Lock
    <3>4. coded' = coded \cup {o}
      <4>1. \A p : p \in coded' <=> p \in coded \cup {o}
        BY <2>a, <3>1
      <4> QED BY <4>1
    <3> QED BY <1>0, <1>5, <2>1, <3>1, <3>3, <3>4 DEF HandsOver
  <2>4. CASE Capture(o) \notin wrote[s] /\ Success(o) \notin wrote[s]
    <3>1. /\ orderStatus'[o] = orderStatus[o] /\ paid_at'[o] = paid_at[o]
          /\ ledger'[o] = ledger[o]
          /\ o \in coded' <=> o \in coded
      BY <1>5, <2>4, Published DEF Commit
    <3>2. \A p : p \in coded' <=> p \in coded
      BY <2>a, <3>1
    <3>3. /\ coded' = coded
          /\ \A p \in Orders : /\ orderStatus'[p] = orderStatus[p] /\ paid_at'[p] = paid_at[p]
                               /\ ledger'[p] = ledger[p]
      BY <2>1, <3>1, <3>2
    <3> QED BY <1>0, <2>1, <3>3
  <2> QED BY <2>2, <2>3, <2>4
<1> QED BY <1>1, <1>2, <1>3, <1>4, <1>5 DEF Acts, Statement

LEMMA BooksStep ==
    ASSUME TypeOK, IInv, NEW s \in Sessions, Acts(s)
    PROVE  BooksInv'
<1> DEFINE o == plan[s].order
<1>0. /\ orderStatus \in [Orders -> OrderStatus]
      /\ ledger \in [Orders -> SUBSET LedgerEventType] /\ coded \subseteq Orders
      /\ o \in Orders
  BY DEF TypeOK, SessionTask
<1>1. BooksInv
  BY DEF IInv
<1>2. CASE UNCHANGED orderBooks
  BY <1>1, <1>2 DEF orderBooks, BooksInv
<1>3. CASE Starts(s)
  BY <1>0, <1>1, <1>3 DEF Starts, BooksInv, DELIVERABLE_STATUSES
<1>4. CASE Captures(s)
  BY <1>0, <1>1, <1>4 DEF Captures, BooksInv
<1>5. CASE HandsOver(s)
  BY <1>0, <1>1, <1>5 DEF HandsOver, BooksInv, LedgerEventType
<1> QED BY <1>2, <1>3, <1>4, <1>5, OrdersMove

\* What a session learns of its order with a step.
LEMMA Learns ==
    ASSUME TypeOK, IInv, NEW s \in Sessions, Acts(s)
    PROVE  LET o == plan[s].order
               kind == plan[s].kind
           IN  /\ Capture(o) \in wrote'[s] =>
                     Capture(o) \in wrote[s] \/ (orderStatus[o] = "created" /\ UNCHANGED orderBooks)
               /\ kind = "deliver" /\ at'[s] \in {"order", "rows", "commit"} =>
                     at[s] \in {"order", "rows"} \/ Starts(s)
               /\ kind = "sweep" /\ at'[s] \notin {"begin"} \cup Ended =>
                     \/ at[s] \notin {"begin"} \cup Ended
                     \/ orderStatus[o] # "created" /\ UNCHANGED orderBooks
<1> DEFINE o == plan[s].order
           kind == plan[s].kind
<1> USE DEF Goes, AfterEnqueue, Executes, control, tables, results, orderTables, orderBooks
<1>0. /\ at \in [Sessions -> Places] /\ view \in [Sessions -> [ViewPlaces -> BOOLEAN]]
      /\ wrote \in [Sessions -> SUBSET Writings]
      /\ kind \in Kinds
  BY DEF TypeOK, SessionTask
<1>b. at[s] \in PlacesOf(kind)
  BY DEF IInv, Placed
<1>1. CASE Connect(s)
  <2>1. ~IsApi(s) => ~Connect(s)
    BY DEF Connect, WantsConnection
  <2> QED BY <1>1, <2>1 DEF Connect, IsApi, ApiKinds
<1>2. CASE Fails(s)
  BY <1>0, <1>2 DEF Fails, RollsBack, Releases, Ended
<1>3. CASE Reply(s) \/ Lookup(s) \/ Insert(s) \/ Reread(s) \/ InsertIfNew(s) \/ ReadOrder(s)
  <2>1. kind \notin {"deliver", "sweep"}
    BY <1>0, <1>3, <1>b, KindsOfPlaces
       DEF Reply, Lookup, Insert, Reread, InsertIfNew, ReadOrder, ApiKinds
  <2>2. Capture(o) \in wrote'[s] => Capture(o) \in wrote[s]
    BY <1>0, <1>3 DEF Reply, Lookup, Insert, Reread, InsertIfNew, ReadOrder, Writes, Releases, Lock,
                      Capture
  <2> QED BY <1>3, <2>1, <2>2
          DEF Reply, Lookup, Insert, Reread, InsertIfNew, ReadOrder
<1>4. CASE Judge(s)
  BY <1>0, <1>4 DEF Judge, Writes, Ended
<1>5. CASE Enqueue(s) \/ Reference(s) \/ Recover(s)
  <2>1. kind # "deliver"
    BY <1>0, <1>5, <1>b, KindsOfPlaces DEF Enqueue, Reference, Recover
  <2>2. Capture(o) \in wrote'[s] => Capture(o) \in wrote[s]
    BY <1>0, <1>5 DEF Enqueue, Reference, Recover, Writes, Lock, Capture
  <2> QED BY <1>5, <2>1, <2>2 DEF Enqueue, Reference, Recover, Ended
<1>6. CASE Collect(s)
  BY <1>0, <1>6 DEF Collect, StuckStatuses, UNSETTLED_STATUSES, RECOVERABLE_STATUSES, Ended
<1>7. CASE Claim(s) \/ LockOrder(s) \/ WriteRows(s) \/ CodeTaken(s) \/ Supersede(s) \/ Finish(s)
           \/ Requeue(s)
  <2>1. kind = "deliver"
    BY <1>0, <1>7, <1>b, KindsOfPlaces DEF Claim, LockOrder, WriteRows, CodeTaken, Supersede, Finish,
        Requeue
  <2>2. Capture(o) \in wrote'[s] => Capture(o) \in wrote[s]
    BY <1>0, <1>7 DEF Claim, LockOrder, WriteRows, CodeTaken, Supersede, Finish,
        Requeue, Writes, Releases, Success, Capture
  <2>3. UNCHANGED orderBooks
    BY <1>7 DEF Claim, LockOrder, WriteRows, CodeTaken, Supersede, Finish,
        Requeue
  <2>4. at'[s] \in {"order", "rows", "commit"} => at[s] \in {"order", "rows"}
    BY <1>0, <1>7 DEF Claim, LockOrder, WriteRows, CodeTaken, Supersede, Finish,
        Requeue
  <2> QED BY <2>1, <2>2, <2>3, <2>4
<1>8. CASE Prepare(s)
  <2>1. kind = "deliver" /\ at[s] = "prepare"
    BY <1>0, <1>8, <1>b, KindsOfPlaces DEF Prepare
  <2> QED BY <1>0, <1>8, <2>1 DEF Prepare, Starts
<1>9. CASE Commit(s)
  BY <1>0, <1>9 DEF Commit, Releases, Ended
<1>10. CASE BeginReport(s) \/ ReadList(s) \/ ReadView(s)
  <2>1. kind \notin {"deliver", "sweep"}
    BY <1>0, <1>10, <1>b, KindsOfPlaces, ListRead, ViewRead, PlacesSpelled DEF BeginReport
  <2>2. UNCHANGED <<wrote, tables>>
    BY <1>0, <1>10, ListRead, ViewRead DEF BeginReport
  <2> QED BY <2>1, <2>2
<1> QED BY <1>1, <1>2, <1>3, <1>4, <1>5, <1>6, <1>7, <1>8, <1>9, <1>10 DEF Acts, Statement

LEMMA StatusStep ==
    ASSUME TypeOK, IInv, NEW s \in Sessions, Acts(s)
    PROVE  StatusInv'
<1> DEFINE o == plan[s].order
<1>0. /\ \A t \in Sessions \ {s} : at'[t] = at[t] /\ wrote'[t] = wrote[t]
      /\ orderStatus \in [Orders -> OrderStatus]
      /\ plan' = plan
      /\ o \in Orders
  BY OthersStay DEF TypeOK, SessionTask
<1>1. StatusInv
  BY DEF IInv
<1>2. CASE UNCHANGED orderBooks
  BY <1>0, <1>1, <1>2, Learns DEF StatusInv, orderBooks, Starts, DELIVERABLE_STATUSES
<1>3. CASE Starts(s)
  <2>1. orderStatus[o] # "created" /\ orderStatus'[o] = "delivering"
    BY <1>0, <1>3 DEF Starts, DELIVERABLE_STATUSES
  <2>2. \A p \in Orders \ {o} : orderStatus'[p] = orderStatus[p]
    BY <1>0, <1>3 DEF Starts
  <2>3. \A t \in Sessions : plan[t].order \in Orders
    BY DEF TypeOK, SessionTask
  <2>4. Capture(o) \in wrote'[s] => Capture(o) \in wrote[s]
    BY <2>1, Learns
  <2> QED BY <1>0, <1>1, <1>3, <2>1, <2>2, <2>3, <2>4 DEF StatusInv, Starts
<1>4. CASE Captures(s)
  <2>1. orderStatus'[o] = "paid" /\ orderStatus[o] = "created" /\ Capture(o) \in wrote[s]
    BY <1>0, <1>4 DEF Captures
  <2>2. \A p \in Orders \ {o} : orderStatus'[p] = orderStatus[p]
    BY <1>0, <1>4 DEF Captures
  <2>3. \A t \in Sessions : plan[t].order \in Orders
    BY DEF TypeOK, SessionTask
  <2>4. wrote'[s] = {} /\ at'[s] \in {"finish", "done"}
    BY <1>4 DEF Captures, Commit, Releases, Goes, TypeOK
  <2>5. ASSUME NEW t \in Sessions \ {s}, Capture(o) \in wrote[t], plan[t].order = o PROVE FALSE
    <3>1. Lock("update", o) \in Held(s) /\ Lock("update", o) \in Held(t)
      BY <2>1, <2>5 DEF IInv, Holds, Held
    <3> QED BY <3>1 DEF IInv, Apart, Conflicts, Lock
  <2> QED BY <1>0, <1>1, <2>1, <2>2, <2>3, <2>4, <2>5 DEF StatusInv, Ended
<1>5. CASE HandsOver(s)
  <2>1. orderStatus'[o] = "delivered" /\ orderStatus[o] = "delivering"
    BY <1>0, <1>5 DEF HandsOver
  <2>2. \A p \in Orders \ {o} : orderStatus'[p] = orderStatus[p]
    BY <1>0, <1>5 DEF HandsOver
  <2>3. \A t \in Sessions : plan[t].order \in Orders
    BY DEF TypeOK, SessionTask
  <2>4. wrote'[s] = {} /\ at'[s] \in {"finish", "done"}
    BY <1>5 DEF HandsOver, Commit, Releases, Goes, TypeOK
  <2>5. ASSUME NEW t \in Sessions \ {s}, plan[t].kind = "deliver", plan[t].order = o,
               at[t] \in {"order", "rows", "commit"}
        PROVE  FALSE
    <3>1. Runs(t) /\ Runs(s)
      BY <1>5, <2>5 DEF Runs, HandsOver, Commit, Executes, PlacesOf, Ended
    <3> QED BY <2>5, <3>1 DEF IInv, JobsInv
  <2> QED BY <1>0, <1>1, <2>1, <2>2, <2>3, <2>4, <2>5 DEF StatusInv, Ended
<1> QED BY <1>2, <1>3, <1>4, <1>5, OrdersMove

LEMMA KeyStep ==
    ASSUME TypeOK, IInv, NEW s \in Sessions, Acts(s)
    PROVE  KeyInv'
<1> DEFINE key == Lock("key", "key")
           kind == plan[s].kind
<1> USE DEF Goes, AfterEnqueue, Executes, control, tables, results, orderTables
<1>0. /\ at \in [Sessions -> Places] /\ view \in [Sessions -> [ViewPlaces -> BOOLEAN]]
      /\ wrote \in [Sessions -> SUBSET Writings]
      /\ answer \in [Sessions -> Sessions \cup {NoOrder}]
      /\ kind \in Kinds
      /\ plan' = plan
      /\ NoOrder \notin Sessions
  BY OthersStay, SessionsAssumption DEF TypeOK, SessionTask, SessionsAssumption
<1>a. \A t \in Sessions \ {s} : at'[t] = at[t] /\ wrote'[t] = wrote[t] /\ answer'[t] = answer[t]
  BY OthersStay DEF TypeOK
<1>b. at[s] \in PlacesOf(kind)
  BY DEF IInv, Placed
<1>c. \A t \in Sessions : KeyOf(t)
  BY DEF IInv, KeyInv
<1>d. key \in wrote[s] => kind = "create" /\ at[s] \in {"reply", "commit"}
  BY DEF IInv, Holds, MayWrite, Lock, Capture, Success
<1>1. ASSUME owner' = owner, KeyOf(s)' PROVE KeyInv'
  BY <1>0, <1>1, <1>a, <1>c DEF KeyInv, KeyOf
<1>2. CASE kind # "create" /\ ~Commit(s)
  <2>1. key \notin wrote'[s] /\ owner' = owner
    <3>1. CASE Connect(s) \/ Fails(s) \/ Reply(s) \/ InsertIfNew(s) \/ Judge(s) \/ Enqueue(s)
               \/ Reference(s) \/ ReadOrder(s)
      BY <1>0, <1>2, <1>d, <3>1 DEF Connect, Fails, RollsBack, Releases, Reply, InsertIfNew, Judge,
           Enqueue, Reference, ReadOrder, Writes, Lock, Capture
    <3>2. CASE Collect(s) \/ Recover(s) \/ Claim(s) \/ Prepare(s) \/ LockOrder(s) \/ WriteRows(s)
               \/ CodeTaken(s) \/ Supersede(s) \/ Finish(s) \/ Requeue(s) \/ BeginReport(s)
      BY <1>0, <1>2, <1>d, <3>2 DEF Collect, Recover, Claim, Prepare, LockOrder, WriteRows, CodeTaken,
           Supersede, Finish, Requeue, BeginReport, Writes, Releases, Lock, Success
    <3>3. CASE ReadList(s) \/ ReadView(s)
      BY <1>0, <1>2, <1>d, <3>3, ListRead, ViewRead
    <3>4. CASE Lookup(s) \/ Insert(s) \/ Reread(s)
      BY <1>0, <1>2, <1>b, <3>4, KindsOfPlaces DEF Lookup, Insert, Reread
    <3> QED BY <1>2, <3>1, <3>2, <3>3, <3>4 DEF Acts, Statement
  <2> QED BY <1>0, <1>1, <1>2, <2>1 DEF KeyOf
<1>3. CASE kind = "create" /\ ~Commit(s)
  <2>1. \/ Connect(s) \/ Fails(s) \/ Reply(s) \/ Lookup(s) \/ Insert(s) \/ Reread(s)
    <3>1. at[s] \in {"lookup", "insert", "reread", "reply", "commit"} \cup Ended
      BY <1>0, <1>3, <1>b, KindsOfPlaces
    <3> QED BY <1>0, <1>3, <3>1, ListRead, ViewRead, PlacesSpelled
            DEF Acts, Statement, InsertIfNew, Judge, Enqueue, Reference, ReadOrder, Collect, Recover,
                Claim, Prepare, LockOrder, WriteRows, CodeTaken, Supersede, Finish, Requeue,
                BeginReport, Ended
  <2>2. CASE Connect(s)
    BY <1>0, <1>1, <1>c, <2>2 DEF Connect, KeyOf
  <2>3. CASE Fails(s)
    BY <1>0, <1>1, <1>3, <1>c, <2>3 DEF Fails, RollsBack, Releases, KeyOf, Ended
  <2>4. CASE Reply(s)
    BY <1>0, <1>1, <1>c, <2>4 DEF Reply, KeyOf
  <2>5. CASE Lookup(s)
    BY <1>0, <1>1, <1>c, <1>d, <2>5 DEF Lookup, KeyOf
  <2>6. CASE Insert(s)
    BY <1>0, <1>1, <1>c, <1>d, <2>6 DEF Insert, Writes, Releases, KeyOf
  <2>7. CASE Reread(s)
    BY <1>0, <1>1, <1>c, <1>d, <2>7 DEF Reread, KeyOf
  <2> QED BY <2>1, <2>2, <2>3, <2>4, <2>5, <2>6, <2>7
<1>4. CASE Commit(s)
  <2>1. /\ owner' = IF key \in wrote[s] THEN s ELSE owner
        /\ wrote'[s] = {} /\ answer' = answer /\ at[s] = "commit"
        /\ at'[s] \in {"finish", "done"}
    BY <1>0, <1>4, Published DEF Commit, Releases
  <2>2. CASE key \notin wrote[s]
    BY <1>0, <1>1, <1>c, <2>1, <2>2 DEF KeyOf
  <2>3. CASE key \in wrote[s]
    <3>1. owner = NoOrder /\ answer[s] = s /\ owner' = s
      BY <1>c, <2>1, <2>3 DEF KeyOf
    <3>2. \A t \in Sessions \ {s} : key \notin wrote[t]
      BY <2>3 DEF IInv, Apart, Held, Conflicts, Lock
    <3>3. KeyOf(s)'
      BY <1>0, <2>1, <3>1 DEF KeyOf
    <3>4. ASSUME NEW t \in Sessions \ {s} PROVE KeyOf(t)'
      BY <1>0, <1>a, <1>c, <2>1, <3>1, <3>2 DEF KeyOf
    <3> QED BY <3>3, <3>4 DEF KeyInv
  <2> QED BY <2>2, <2>3
<1> QED BY <1>2, <1>3, <1>4

LEMMA ViewStep ==
    ASSUME TypeOK, IInv, NEW s \in Sessions, Acts(s)
    PROVE  ViewInv'
<1> DEFINE o == plan[s].order
<1> USE DEF Goes, Executes, control, tables, results, orderTables
<1>0. /\ at \in [Sessions -> Places] /\ view \in [Sessions -> [ViewPlaces -> BOOLEAN]]
      /\ plan[s].kind \in Kinds
      /\ plan' = plan
  BY OthersStay DEF TypeOK, SessionTask
<1>a. /\ \A t \in Sessions \ {s} : at'[t] = at[t] /\ view'[t] = view[t]
      /\ coded \subseteq coded'
  BY OthersStay, OrdersMove DEF TypeOK, orderBooks, Starts, Captures, HandsOver
<1>b. at[s] \in PlacesOf(plan[s].kind)
  BY DEF IInv, Placed
<1>c. \A t \in Sessions : ViewOf(t)
  BY DEF IInv, ViewInv
<1>1. ViewOf(s)' => ViewInv'
  BY <1>0, <1>a, <1>c DEF ViewInv, ViewOf
<1>2. CASE plan[s].kind # "view"
  BY <1>0, <1>1, <1>2 DEF ViewOf
<1>3. CASE plan[s].kind = "view"
  <2>1. Connect(s) \/ Fails(s) \/ Reply(s) \/ Commit(s) \/ ReadView(s)
    <3>1. at[s] \in {"status", "code", "attempts", "reply", "commit"} \cup Ended
      BY <1>0, <1>3, <1>b, KindsOfPlaces
    <3> QED BY <1>0, <1>3, <3>1, ListRead, PlacesSpelled
            DEF Acts, Statement, Lookup, Insert, Reread, InsertIfNew, Judge, Enqueue, Reference,
                ReadOrder, Collect, Recover, Claim, Prepare, LockOrder, WriteRows, CodeTaken,
                Supersede, Finish, Requeue, BeginReport, Ended
  <2>2. CASE ReadView(s)
    <3>1. orderStatus[o] = "delivered" => o \in coded
      BY DEF IInv, BooksInv, TypeOK, SessionTask
    <3>2. coded' = coded
      BY <1>0, <2>2, ViewRead
    <3> QED BY <1>0, <1>1, <1>3, <1>c, <2>2, <3>1, <3>2, ViewRead DEF ViewOf
  <2>3. CASE Connect(s) \/ Reply(s) \/ Commit(s) \/ Fails(s)
    <3>1. /\ view' = view
          /\ \/ at'[s] = at[s]
             \/ at[s] \in {"reply", "commit"}
             \/ at'[s] = "failed"
      BY <1>0, <1>3, <2>3 DEF Connect, Reply, Commit, Fails, RollsBack, IsApi, ApiKinds
    <3> QED BY <1>0, <1>1, <1>a, <1>c, <3>1 DEF ViewOf
  <2> QED BY <2>1, <2>2, <2>3
<1> QED BY <1>2, <1>3

-----------------------------------------------------------------------------
(* Types, and the limit of the pool *)

LEMMA PlacesInUse ==
    ASSUME NEW f \in [Sessions -> 0 .. 2]
    PROVE  IsFiniteSet({c \in Sessions \X (1 .. 2) : c[2] <= f[c[1]]})
<1>1. IsFiniteSet(Sessions \X (1 .. 2))
  <2>1. IsFiniteSet(1 .. 2)
    <3>1. 1 \in Int /\ 2 \in Int
      OBVIOUS
    <3> QED BY <3>1, FS_Interval, Zenon
  <2>2. IsFiniteSet(Sessions)
    BY SessionsAssumption DEF SessionsAssumption
  <2> QED BY <2>1, <2>2, FS_Product
<1> QED BY <1>1, FS_Subset

\* Nobody takes a connection that is not free.
LEMMA PoolStep ==
    ASSUME TypeOK, IInv, NEW s \in Sessions, Acts(s)
    PROVE  conns' \in [Sessions -> 0 .. 2] /\ (Cardinality(InUse) <= ApiPool)'
<1> USE DEF control, tables, results, orderTables
<1>0. /\ conns \in [Sessions -> 0 .. 2] /\ conns' = [conns EXCEPT ![s] = conns'[s]]
      /\ Cardinality(InUse) <= ApiPool /\ ApiPool \in Nat
      /\ view \in [Sessions -> [ViewPlaces -> BOOLEAN]] /\ at \in [Sessions -> Places]
      /\ IsFiniteSet(InUse) /\ Cardinality(InUse) \in Nat
  BY OthersStay, SessionsAssumption, PlacesInUse, FS_CardinalityType
     DEF TypeOK, SessionsAssumption, InUse
<1>1. CASE conns'[s] \in 0 .. conns[s]
  <2>1. conns' \in [Sessions -> 0 .. 2] /\ \A t \in Sessions : conns'[t] <= conns[t]
    BY <1>0, <1>1
  <2>2. InUse' \subseteq InUse
    BY <1>0, <2>1 DEF InUse
  <2>3. Cardinality(InUse') <= Cardinality(InUse) /\ Cardinality(InUse') \in Nat
    BY <1>0, <2>2, FS_Subset, FS_CardinalityType
  <2> QED BY <1>0, <2>1, <2>3
<1>2. CASE Connect(s)
  <2>1. conns[s] + 1 \in 1 .. 2 /\ conns' = [conns EXCEPT ![s] = conns[s] + 1]
    BY <1>0, <1>2 DEF Connect, WantsConnection, Needed
  <2>2. InUse' = InUse \cup {<<s, conns[s] + 1>>}
    BY <1>0, <2>1 DEF InUse
  <2>3. Cardinality(InUse) < ApiPool
    BY <1>2 DEF Connect, CanConnect
  <2>4. /\ Cardinality(InUse') \in Nat
        /\ Cardinality(InUse') <= Cardinality(InUse) + 1
    <3> DEFINE new == <<s, conns[s] + 1>>
    <3>1. /\ IsFiniteSet(InUse \cup {new})
          /\ Cardinality(InUse \cup {new}) =
                IF new \in InUse THEN Cardinality(InUse) ELSE Cardinality(InUse) + 1
      BY <1>0, FS_AddElement
    <3> QED BY <1>0, <2>2, <3>1
  <2> QED BY <1>0, <2>1, <2>3, <2>4
<1>3. CASE Commit(s) \/ Fails(s) \/ Insert(s) \/ CodeTaken(s)
  BY <1>0, <1>1, <1>3 DEF Commit, Fails, RollsBack, Insert, CodeTaken, Releases
<1>4. CASE Recover(s)
  BY <1>0, <1>1, <1>4 DEF Recover, Executes, WantsConnection, Needed, Ended
<1>5. CASE ReadList(s) \/ ReadView(s)
  BY <1>0, <1>1, <1>5, ListRead, ViewRead
<1>6. CASE conns' = conns
  BY <1>0, <1>1, <1>6
<1> QED BY <1>2, <1>3, <1>4, <1>5, <1>6
        DEF Acts, Statement, Reply, Lookup, Reread, InsertIfNew, Judge, Enqueue, Reference, ReadOrder,
            Collect, Claim, Prepare, LockOrder, WriteRows, Supersede, Finish, Requeue, BeginReport

\* A row with a superseded code stays one, and only Supersede adds to them.
LEMMA SupersededStays ==
    ASSUME TypeOK, IInv, NEW s \in Sessions, Acts(s)
    PROVE  /\ superseded \subseteq superseded'
           /\ ~Supersede(s) => superseded' = superseded
<1> USE DEF control, tables, results, orderTables
<1>0. /\ at \in [Sessions -> Places] /\ view \in [Sessions -> [ViewPlaces -> BOOLEAN]]
  BY DEF TypeOK
<1>1. CASE Supersede(s)
  BY <1>1 DEF Supersede
<1>2. CASE Commit(s)
  BY <1>2 DEF Commit, Publishes
<1>3. CASE ReadList(s) \/ ReadView(s)
  BY <1>0, <1>3, ListRead, ViewRead
<1> QED BY <1>1, <1>2, <1>3
        DEF Acts, Statement, Connect, Fails, RollsBack, Reply, Lookup, Insert, Reread, InsertIfNew,
            Judge, Enqueue, Reference, ReadOrder, Collect, Recover, Claim, Prepare, LockOrder,
            WriteRows, CodeTaken, Finish, Requeue, BeginReport

LEMMA TypeStep ==
    ASSUME TypeOK, IInv, NEW s \in Sessions, Acts(s)
    PROVE  TypeOK'
<1> DEFINE o == plan[s].order
<1> USE DEF Goes, AfterEnqueue, Executes, control, tables, results, orderTables
<1>0. /\ plan \in [Sessions -> SessionTask] /\ plan' = plan
      /\ at \in [Sessions -> Places] /\ at' = [at EXCEPT ![s] = at'[s]]
      /\ locks \in [Sessions -> SUBSET RowLocks] /\ locks' = [locks EXCEPT ![s] = locks'[s]]
      /\ wrote \in [Sessions -> SUBSET Writings] /\ wrote' = [wrote EXCEPT ![s] = wrote'[s]]
      /\ answer \in [Sessions -> Sessions \cup {NoOrder}]
      /\ answer' = [answer EXCEPT ![s] = answer'[s]]
      /\ conns \in [Sessions -> 0 .. 2] /\ conns' = [conns EXCEPT ![s] = conns'[s]]
      /\ view \in [Sessions -> [ViewPlaces -> BOOLEAN]]
      /\ o \in Orders /\ plan[s].event \in Events /\ plan[s].kind \in Kinds
      /\ DOMAIN report' = ReportPlaces
  BY OthersStay DEF TypeOK, SessionTask
<1>1. at'[s] \in Places
  <2>1. at'[s] \in PlacesOf(plan[s].kind)
    BY <1>0, PlacedStep DEF Placed
  <2> QED BY <1>0, <2>1 DEF PlacesOf, Places, Kinds
<1>2. locks'[s] \subseteq RowLocks
  <2>1. \A held \in locks'[s] : MayLock(s, held)'
    BY HoldsStep DEF Holds
  <2> QED BY <1>0, <2>1 DEF MayLock, RowLocks, Lock
<1>3. wrote'[s] \subseteq Writings
  <2>1. \A write \in wrote'[s] : MayWrite(s, write)'
    BY HoldsStep DEF Holds
  <2> QED BY <1>0, <2>1 DEF MayWrite, Writings, Lock, Capture, Success
<1>4. at'[s] \in Ended => Held(s)' = {} /\ conns'[s] = 0
  <2>1. ASSUME at'[s] \in Ended, NEW held \in Held(s)' PROVE FALSE
    <3>1. MayLock(s, held)' \/ MayWrite(s, held)'
      BY <2>1, HoldsStep DEF Holds, Held
    <3> QED BY <2>1, <3>1 DEF MayLock, MayWrite, Judging, Recording, Ended
  <2>2. at'[s] \in Ended => conns'[s] = 0
    BY ConnectedStep DEF Connected
  <2> QED BY <2>1, <2>2
<1>5. \A t \in Sessions \ {s} : at'[t] \in Ended => Held(t)' = {} /\ conns'[t] = 0
  BY <1>0 DEF TypeOK, Held
<1>6. conns' \in [Sessions -> 0 .. 2] /\ (Cardinality(InUse) <= ApiPool)'
  BY PoolStep
<1>7. /\ orderStatus' \in [Orders -> OrderStatus] /\ paid_at' \in [Orders -> BOOLEAN]
      /\ ledger' \in [Orders -> SUBSET LedgerEventType] /\ coded' \subseteq Orders
  <2>0. /\ orderStatus \in [Orders -> OrderStatus] /\ paid_at \in [Orders -> BOOLEAN]
        /\ ledger \in [Orders -> SUBSET LedgerEventType] /\ coded \subseteq Orders
    BY DEF TypeOK
  <2>1. CASE UNCHANGED orderBooks
    BY <2>0, <2>1 DEF orderBooks
  <2>2. CASE Starts(s)
    BY <1>0, <2>0, <2>2 DEF Starts, OrderStatus
  <2>3. CASE Captures(s)
    BY <1>0, <2>0, <2>3 DEF Captures, OrderStatus, LedgerEventType
  <2>4. CASE HandsOver(s)
    BY <1>0, <2>0, <2>4 DEF HandsOver, OrderStatus, LedgerEventType
  <2> QED BY <2>1, <2>2, <2>3, <2>4, OrdersMove
<1>8. /\ owner' \in Sessions \cup {NoOrder} /\ received' \subseteq Events
      /\ jobs' \in [Orders -> JobState \cup {"none"}]
  <2>0. /\ owner \in Sessions \cup {NoOrder} /\ received \subseteq Events
        /\ jobs \in [Orders -> JobState \cup {"none"}]
    BY DEF TypeOK
  <2>1. CASE Commit(s)
    BY <1>0, <2>0, <2>1 DEF Commit, Publishes, JobState
  <2>2. CASE Claim(s) \/ Finish(s) \/ Requeue(s)
    BY <1>0, <2>0, <2>2 DEF Claim, Finish, Requeue, JobState
  <2>3. CASE ReadList(s) \/ ReadView(s)
    BY <1>0, <2>0, <2>3, ListRead, ViewRead
  <2>4. CASE UNCHANGED <<owner, received, jobs>>
    BY <2>0, <2>4
  <2> QED BY <2>1, <2>2, <2>3, <2>4
          DEF Acts, Statement, Connect, Fails, RollsBack, Reply, Lookup, Insert, Reread, InsertIfNew,
              Judge, Enqueue, Reference, ReadOrder, Collect, Recover, Prepare, LockOrder, WriteRows,
              CodeTaken, Supersede, BeginReport
<1>9. /\ answer' \in [Sessions -> Sessions \cup {NoOrder}]
      /\ view' \in [Sessions -> [ViewPlaces -> BOOLEAN]]
      /\ errors' \in 0 .. MaxErrors
  <2>0. /\ owner \in Sessions \cup {NoOrder} /\ errors \in 0 .. MaxErrors /\ MaxErrors \in Nat
    BY SessionsAssumption DEF TypeOK, SessionsAssumption
  <2>1. CASE Lookup(s) \/ Insert(s) \/ Reread(s)
    BY <1>0, <2>0, <2>1 DEF Lookup, Insert, Reread
  <2>2. CASE Fails(s)
    BY <1>0, <2>0, <2>2 DEF Fails, RollsBack
  <2>3. CASE ReadList(s) \/ ReadView(s)
    BY <1>0, <2>0, <2>3, ListRead, ViewRead
  <2>4. CASE UNCHANGED <<answer, view, errors>>
    BY <1>0, <2>0, <2>4
  <2> QED BY <2>1, <2>2, <2>3, <2>4
          DEF Acts, Statement, Connect, Commit, Reply, InsertIfNew, Judge, Enqueue, Reference,
              ReadOrder, Collect, Recover, Claim, Prepare, LockOrder, WriteRows, CodeTaken, Supersede,
              Finish, Requeue, BeginReport
<1>10. watch' \in WatchRecord
  <2>0. watch \in WatchRecord
    BY DEF TypeOK, WatchRecord
  <2>1. CASE Commit(s)
    <3>1. Watches({p \in Orders : Capture(p) \in wrote[s]} \cup {p \in Orders : Success(p) \in wrote[s]})
      BY <2>1 DEF Commit, Publishes
    <3> QED BY <2>0, <3>1, WatchType
  <2>2. CASE Prepare(s)
    <3>1. \/ watch' = watch
          \/ Watches({o} \ {p \in Orders : orderStatus[p] = "delivering"})
      BY <2>2 DEF Prepare
    <3> QED BY <1>0, <2>0, <3>1, WatchType
  <2>3. CASE BeginReport(s)
    BY <2>3 DEF BeginReport, Owed, TypeOK, WatchRecord
  <2>4. CASE ReadList(s) \/ ReadView(s)
    BY <1>0, <2>0, <2>4, ListRead, ViewRead
  <2>5. CASE UNCHANGED watch
    BY <2>0, <2>5
  <2> QED BY <2>1, <2>2, <2>3, <2>4, <2>5
          DEF Acts, Statement, Connect, Fails, RollsBack, Reply, Lookup, Insert, Reread, InsertIfNew,
              Judge, Enqueue, Reference, ReadOrder, Collect, Recover, Claim, LockOrder, WriteRows,
              CodeTaken, Supersede, Finish, Requeue
<1>11. /\ plan' \in [Sessions -> SessionTask] /\ at' \in [Sessions -> Places]
       /\ locks' \in [Sessions -> SUBSET RowLocks] /\ wrote' \in [Sessions -> SUBSET Writings]
       /\ \A t \in Sessions : at'[t] \in Ended => Held(t)' = {} /\ conns'[t] = 0
  BY <1>0, <1>1, <1>2, <1>3, <1>4, <1>5
<1>12. superseded' \subseteq Orders \X Suppliers
  <2>0. superseded \subseteq Orders \X Suppliers
    BY DEF TypeOK
  <2>1. CASE Supersede(s)
    BY <1>0, <2>0, <2>1 DEF Supersede
  <2>2. CASE ~Supersede(s)
    BY <2>0, <2>2, SupersededStays
  <2> QED BY <2>1, <2>2
<1> QED BY <1>0, <1>6, <1>7, <1>8, <1>9, <1>10, <1>11, <1>12 DEF TypeOK, WatchRecord

-----------------------------------------------------------------------------
(* The theorems *)

LEMMA InitTypes ==
    ASSUME Init
    PROVE  TypeOK
<1>0. /\ plan \in [Sessions -> SessionTask]
      /\ \A s \in Sessions : plan[s].kind \in Kinds
  BY SessionsAssumption DEF Init, SessionsAssumption, SessionTask
<1>1. at \in [Sessions -> Places]
  <2>1. \A kind \in Kinds : Start(kind) \in Places
    BY PlacesSpelled DEF Kinds, Start, Places
  <2> QED BY <1>0, <2>1 DEF Init
<1>2. Cardinality(InUse) <= ApiPool
  <2>1. InUse = {}
    BY DEF Init, InUse
  <2>2. Cardinality(InUse) = 0
    BY <2>1, FS_EmptySet, Zenon
  <2> QED BY <2>2, SessionsAssumption DEF SessionsAssumption
<1>3. \A s \in Sessions : Held(s) = {} /\ conns[s] = 0
  BY DEF Init, Held
<1>4. /\ orderStatus \in [Orders -> OrderStatus]
      /\ paid_at \in [Orders -> BOOLEAN]
      /\ ledger \in [Orders -> SUBSET LedgerEventType]
      /\ jobs \in [Orders -> JobState \cup {"none"}]
  BY SessionsAssumption DEF Init, OrderStatus, LedgerEventType, SessionsAssumption
<1>5. /\ DOMAIN report = ReportPlaces
      /\ view \in [Sessions -> [ViewPlaces -> BOOLEAN]]
      /\ watch \in WatchRecord
  <2>1. DOMAIN NoReport = ReportPlaces
    BY PlacesSpelled DEF NoReport
  <2>2. NoView \in [ViewPlaces -> BOOLEAN]
    BY DEF NoView
  <2>3. NoWatch \in WatchRecord
    BY DEF NoWatch, WatchRecord
  <2> QED BY <2>1, <2>2, <2>3 DEF Init
<1>6. errors \in 0 .. MaxErrors
  BY SessionsAssumption DEF Init, SessionsAssumption
<1>7. /\ conns \in [Sessions -> 0 .. 2]
      /\ locks \in [Sessions -> SUBSET RowLocks]
      /\ wrote \in [Sessions -> SUBSET Writings]
      /\ answer \in [Sessions -> Sessions \cup {NoOrder}]
      /\ owner \in Sessions \cup {NoOrder}
      /\ received \subseteq Events /\ coded \subseteq Orders
      /\ superseded \subseteq Orders \X Suppliers
  BY DEF Init
<1> QED BY <1>0, <1>1, <1>2, <1>3, <1>4, <1>5, <1>6, <1>7 DEF TypeOK, WatchRecord

LEMMA InitInv ==
    ASSUME Init
    PROVE  IInv
<1>0. /\ \A s \in Sessions : plan[s].kind \in Kinds /\ plan[s].order \in Orders
      /\ \A s \in Sessions : at[s] = Start(plan[s].kind)
      /\ \A s \in Sessions : wrote[s] = {} /\ locks[s] = {} /\ conns[s] = 0
      /\ \A s \in Sessions : view[s] = NoView
  BY SessionsAssumption DEF Init, SessionsAssumption, SessionTask
<1>1. \A kind \in Kinds : Start(kind) \in PlacesOf(kind)
  BY PlacesSpelled DEF Kinds, Start, PlacesOf, ViewParts
<1>2. \A kind \in Kinds :
         /\ Start(kind) \notin {"order", "rows", "commit", "enqueue", "reread", "reply", "done",
                                "lost"} \/ kind = "replay"
         /\ kind = "sweep" => Start(kind) = "begin"
         /\ kind = "replay" => Start(kind) = "order"
         /\ kind = "deliver" => Start(kind) = "claim"
  BY DEF Kinds, Start, ViewParts
<1>3. \A s \in Sessions : Placed(s) /\ Holds(s) /\ Connected(s)
  BY <1>0, <1>1, <1>2 DEF Placed, Holds, Connected, Judging, Recording, Held
<1>4. Apart
  BY <1>0 DEF Apart, Held
<1>5. JobsInv
  <2>1. \A s \in Sessions : ~Runs(s)
    BY <1>0, <1>2 DEF Runs, Ended
  <2> QED BY <1>0, <2>1 DEF JobsInv
<1>6. StatusInv
  BY <1>0, <1>2 DEF StatusInv
<1>7. BooksInv
  BY SessionsAssumption DEF Init, BooksInv, SessionsAssumption
<1>8. KeyInv
  BY <1>0, <1>2 DEF KeyInv, KeyOf
<1>9. ViewInv
  <2>1. \A s \in Sessions : ~view[s].status /\ ~view[s].code
    BY <1>0, PlacesSpelled DEF NoView
  <2> QED BY <2>1 DEF ViewInv, ViewOf
<1> QED BY <1>3, <1>4, <1>5, <1>6, <1>7, <1>8, <1>9 DEF IInv

\* A step of any session keeps everything.
LEMMA StepInv ==
    ASSUME TypeOK, IInv, [Next]_vars
    PROVE  TypeOK' /\ IInv'
<1>1. CASE UNCHANGED vars
  <2> USE DEF vars, control, tables, results, orderTables
  <2>1. TypeOK'
    BY <1>1 DEF TypeOK, InUse, Held
  <2>2. \A s \in Sessions : Placed(s)' /\ Holds(s)' /\ Connected(s)'
    BY <1>1 DEF IInv, Placed, Holds, Connected, Held, MayLock, MayWrite, Judging, Recording, IsApi
  <2>3. Apart' /\ JobsInv'
    BY <1>1 DEF IInv, Apart, Held, JobsInv, Runs
  <2>4. StatusInv' /\ BooksInv'
    BY <1>1 DEF IInv, StatusInv, BooksInv
  <2>5. KeyInv' /\ ViewInv'
    BY <1>1 DEF IInv, KeyInv, KeyOf, ViewInv, ViewOf
  <2> QED BY <2>1, <2>2, <2>3, <2>4, <2>5 DEF IInv
<1>2. CASE Next
  <2>1. PICK s \in Sessions : Acts(s)
    BY <1>2, NextActs
  <2>2. ASSUME NEW t \in Sessions \ {s}
        PROVE  Placed(t)' /\ Holds(t)' /\ Connected(t)'
    <3>1. /\ plan' = plan /\ at'[t] = at[t] /\ conns'[t] = conns[t]
          /\ locks'[t] = locks[t] /\ wrote'[t] = wrote[t]
      BY <2>1, OthersStay DEF TypeOK
    <3>2. Placed(t) /\ Holds(t) /\ Connected(t)
      BY DEF IInv
    <3> QED BY <3>1, <3>2
            DEF Placed, Holds, Connected, Held, MayLock, MayWrite, Judging, Recording, IsApi
  <2>3. Placed(s)' /\ Holds(s)' /\ Connected(s)'
    BY <2>1, PlacedStep, HoldsStep, ConnectedStep
  <2>4. TypeOK' /\ Apart' /\ JobsInv' /\ StatusInv' /\ BooksInv' /\ KeyInv' /\ ViewInv'
    BY <2>1, TypeStep, ApartStep, JobsStep, StatusStep, BooksStep, KeyStep, ViewStep
  <2> QED BY <2>2, <2>3, <2>4 DEF IInv
<1> QED BY <1>1, <1>2

LEMMA Inductive == Spec => [](TypeOK /\ IInv)
<1>1. Init => TypeOK /\ IInv
  BY InitTypes, InitInv
<1>2. TypeOK /\ IInv /\ [Next]_vars => (TypeOK /\ IInv)'
  BY StepInv
<1> QED BY <1>1, <1>2, PTL DEF Spec

\* Types, whoever meets whom, and never more connections than the pool has:
\* what ends a session gives everything back (core/db.py:48-62).
THEOREM TypeCorrect == Spec => []TypeOK
BY Inductive, PTL

\* Two clients under one idempotency key are told of different orders only if a
\* commit behind an answer failed (order_service.py:69-76).
THEOREM OneOrderUnderAKey == Spec => []OneOrderPerKey
<1>1. TypeOK /\ IInv => OneOrderPerKey
  <2> SUFFICES ASSUME TypeOK, IInv, NEW s \in Sessions, plan[s].kind = "create"
               PROVE  /\ at[s] = "reread" => owner # NoOrder
                      /\ at[s] = "done" => answer[s] = owner /\ owner # NoOrder
                      /\ at[s] \in {"reply", "commit", "lost"} =>
                            answer[s] \in {s, owner} \ {NoOrder}
    BY DEF OneOrderPerKey
  <2>1. KeyOf(s) /\ NoOrder \notin Sessions
    BY SessionsAssumption DEF IInv, KeyInv, SessionsAssumption
  <2> QED BY <2>1 DEF KeyOf
<1> QED BY <1>1, Inductive, PTL

\* An order that a GET calls delivered is shown with its code, and the code with
\* its delivery (orders.py:28-34).
THEOREM ViewsAgree == Spec => []ViewShowsCode
<1>1. IInv => ViewShowsCode
  BY DEF IInv, ViewInv, ViewOf, ViewShowsCode
<1> QED BY <1>1, Inductive, PTL

\* However the statements interleave, the tables change as if each transaction
\* were one step of Settlement (core/db.py:48-62).
THEOREM LocksMakeSteps == Spec => StepsOfSettlement
<1>1. ASSUME TypeOK, IInv, Next PROVE Money!Next \/ UNCHANGED Money!vars
  <2>1. PICK s \in Sessions : Acts(s)
    BY <1>1, NextActs
  <2> DEFINE o == plan[s].order
  <2>2. o \in Orders /\ BooksInv
    BY <1>1 DEF TypeOK, IInv, SessionTask
  <2>3. CASE UNCHANGED orderBooks
    BY <2>3 DEF orderBooks, Money!vars
  <2>4. CASE Starts(s)
    <3>1. o \notin coded /\ ledger[o] = ledger[o]
      BY <2>2, <2>4 DEF BooksInv, Starts, DELIVERABLE_STATUSES
    <3>2. CASE orderStatus[o] = "delivering"
      BY <1>1, <2>4, <3>2 DEF Starts, Money!vars, TypeOK
    <3>3. CASE orderStatus[o] # "delivering"
      <4>1. Money!Start(o)
        BY <2>4, <3>1, <3>3 DEF Starts, Money!Start, Money!Moves, DELIVERABLE_STATUSES
      <4> QED BY <2>2, <4>1 DEF Money!Next
    <3> QED BY <3>2, <3>3
  <2>5. CASE Captures(s)
    <3>1. Money!Capture(o)
      BY <2>2, <2>5 DEF Captures, BooksInv, Money!Capture, Money!Moves, Money!Books
    <3> QED BY <2>2, <3>1 DEF Money!Next
  <2>6. CASE HandsOver(s)
    <3>1. Money!Deliver(o)
      BY <2>2, <2>6 DEF HandsOver, BooksInv, Money!Deliver, Money!Moves, Money!Books
    <3> QED BY <2>2, <3>1 DEF Money!Next
  <2> QED BY <1>1, <2>1, <2>3, <2>4, <2>5, <2>6, OrdersMove
<1>2. TypeOK /\ IInv /\ [Next]_vars => [Money!Next]_Money!vars
  BY <1>1 DEF vars, tables, orderTables, Money!vars
<1> QED BY <1>2, Inductive, PTL DEF Spec, StepsOfSettlement

-----------------------------------------------------------------------------
(* Who waits for whom *)

\* The chains of waiting are short: from an event over its order to the index of
\* jobs, from there to a session that waits for the order, and back to a payment.
LEMMA WaitsFor ==
    ASSUME TypeOK, IInv, NEW s \in Sessions, NEW t \in Blockers(s),
           at[t] \notin {"reply", "commit"}
    PROVE  LET judge == /\ at[t] = "enqueue" /\ plan[t].kind \in {"webhook", "replay"}
                        /\ Capture(plan[t].order) \in wrote[t]
           IN  \/ at[s] = "event" /\ at[t] \in {"order", "enqueue"}
               \/ /\ at[s] \in {"order", "prepare"}
                  /\ judge \/ at[t] = "rows"
               \/ at[s] = "enqueue" /\ at[t] = "reference"
               \/ /\ at[s] = "reference"
                  /\ (judge /\ plan[t].order = plan[s].order) \/ at[t] = "rows"
<1> DEFINE o == plan[s].order
<1>1. PICK held \in Held(t), wanted \in Wanted(s) : Conflicts(held, wanted)
  BY DEF Blockers
<1>2. t \in Sessions
  BY DEF Blockers
<1>3. MayLock(t, held) \/ MayWrite(t, held)
  BY <1>1, <1>2 DEF IInv, Holds, Held
<1>4. Judging(t) /\ at[t] = "enqueue" => Capture(plan[t].order) \in wrote[t]
  BY <1>2 DEF IInv, Holds
<1>5. \/ /\ held = Lock("update", plan[t].order)
         /\ \/ Judging(t) /\ at[t] = "enqueue"
            \/ at[t] = "rows"
      \/ held = Lock("event", plan[t].event) /\ at[t] \in {"order", "enqueue"}
      \/ held = Lock("job", plan[t].order) /\ at[t] = "reference"
      \/ held \in {Capture(plan[t].order), Success(plan[t].order)}
  BY <1>3 DEF MayLock, MayWrite, Judging, Recording
<1>6. \/ at[s] = "insert" /\ wanted = Lock("key", "key")
      \/ at[s] = "event" /\ wanted = Lock("event", plan[s].event)
      \/ at[s] \in {"order", "prepare"} /\ wanted = Lock("update", o)
      \/ at[s] \in {"rows", "supersede", "recover"} /\ wanted = Lock("rows", o)
      \/ at[s] = "enqueue" /\ wanted = Lock("job", o)
      \/ at[s] = "reference" /\ wanted = Lock("share", o)
  BY <1>1 DEF Wanted
<1> QED BY <1>1, <1>4, <1>5, <1>6 DEF Conflicts, Lock, Capture, Success, Judging

\* Who has something others wait for is not waiting for a connection.
LEMMA BlockersAreConnected ==
    ASSUME TypeOK, IInv, NEW s \in Sessions, NEW t \in Blockers(s)
    PROVE  ~WantsConnection(t)
<1> SUFFICES ASSUME WantsConnection(t) PROVE FALSE
  OBVIOUS
<1>1. t \in Sessions /\ Held(t) # {}
  BY DEF Blockers
<1>2. conns[t] # 0 /\ conns[t] \in 0 .. 2 /\ conns[t] < Needed(t)
  BY <1>1 DEF IInv, Connected, WantsConnection, TypeOK
<1>3. at[t] = "recover"
  BY <1>2 DEF Needed
<1>4. \A held \in Held(t) : MayLock(t, held) \/ MayWrite(t, held)
  BY <1>1 DEF IInv, Holds, Held
<1>5. plan[t].kind # "deliver"
  BY <1>1, <1>3, KindsOfPlaces DEF IInv, Placed, TypeOK, SessionTask
<1> QED BY <1>1, <1>3, <1>4, <1>5 DEF MayLock, MayWrite, Judging, Recording

\* Nobody stands still with others for ever but a retry among them has its own
\* transaction open (admin.py:44-46), for any number of sessions and any pool.
THEOREM DeadlocksTakeARetry == Spec => []OnlyRetriesDeadlock
<1>1. ASSUME TypeOK, IInv, NEW set \in SUBSET Sessions, Stuck(set)
      PROVE  \E s \in set : /\ plan[s].kind = "retry"
                            /\ \/ at[s] = "recover" /\ WantsInVain(s)
                               \/ /\ at[s] = "reference"
                                  /\ \E t \in set : /\ plan[t].kind \in {"webhook", "replay"}
                                                    /\ at[t] = "enqueue"
  <2> DEFINE Goal == \E s \in set :
                        /\ plan[s].kind = "retry"
                        /\ \/ at[s] = "recover" /\ WantsInVain(s)
                           \/ /\ at[s] = "reference"
                              /\ \E t \in set : /\ plan[t].kind \in {"webhook", "replay"}
                                                /\ at[t] = "enqueue"
             Waiting(s) == s \in set /\ ~WantsConnection(s)
  <2>1. ASSUME NEW s, Waiting(s)
        PROVE  \E t \in Blockers(s) : Waiting(t) /\ at[t] \notin {"reply", "commit"}
    <3>1. PICK t \in Blockers(s) : t \in set
      BY <1>1, <2>1 DEF Stuck
    <3>2. Waiting(t)
      BY <1>1, <2>1, <3>1, BlockersAreConnected
    <3>3. PICK u \in Blockers(t) : u \in set
      BY <1>1, <3>2 DEF Stuck
    <3>4. Wanted(t) # {}
      BY <3>3 DEF Blockers
    <3>5. at[t] \notin {"reply", "commit"}
      BY <3>4 DEF Wanted
    <3> QED BY <3>1, <3>2, <3>5
  <2>2. ASSUME NEW s, Waiting(s)
        PROVE  \E t : /\ Waiting(t) /\ t \in Sessions
                      /\ at[s] \in {"event", "order", "prepare", "enqueue", "reference"}
                      /\ at[s] = "event" => at[t] \in {"order", "enqueue"}
                      /\ at[s] \in {"order", "prepare"} => at[t] \in {"enqueue", "rows"}
                      /\ at[s] = "enqueue" => at[t] = "reference"
                      /\ at[s] = "reference" =>
                            \/ at[t] = "rows"
                            \/ /\ at[t] = "enqueue" /\ plan[t].kind \in {"webhook", "replay"}
                               /\ Capture(plan[t].order) \in wrote[t]
                               /\ plan[t].order = plan[s].order
    <3>1. PICK t \in Blockers(s) : Waiting(t) /\ at[t] \notin {"reply", "commit"}
      BY <2>1, <2>2
    <3>2. t \in Sessions /\ s \in Sessions
      BY <1>1, <2>2, <3>1
    <3> QED BY <1>1, <3>1, <3>2, WaitsFor
  <2> HIDE DEF Waiting, Goal
  <2>3. \A s : Waiting(s) => at[s] # "rows"
    BY <2>2
  <2>4. ASSUME NEW s, Waiting(s), at[s] = "reference" PROVE Goal
    <3>1. PICK t : /\ Waiting(t) /\ t \in Sessions
                   /\ at[t] = "enqueue" /\ plan[t].kind \in {"webhook", "replay"}
                   /\ Capture(plan[t].order) \in wrote[t]
                   /\ plan[t].order = plan[s].order
      BY <2>2, <2>3, <2>4
    <3>2. s \in Sessions /\ s \in set /\ t \in set
      BY <1>1, <2>4, <3>1 DEF Waiting
    <3>3. plan[s].kind \in {"retry", "sweep"}
      BY <1>1, <2>4, <3>2, KindsOfPlaces DEF IInv, Placed, TypeOK, SessionTask
    <3>4. orderStatus[plan[s].order] = "created"
      BY <1>1, <3>1 DEF IInv, StatusInv
    <3>5. plan[s].kind # "sweep"
      BY <1>1, <2>4, <3>2, <3>4 DEF IInv, StatusInv, Ended
    <3> QED BY <2>4, <3>1, <3>2, <3>3, <3>5 DEF Goal
  <2>5. ASSUME NEW s, Waiting(s), at[s] = "enqueue" PROVE Goal
    BY <2>2, <2>4, <2>5
  <2>6. ASSUME NEW s, Waiting(s), at[s] \in {"order", "prepare"} PROVE Goal
    BY <2>2, <2>3, <2>5, <2>6
  <2>7. ASSUME NEW s, Waiting(s) PROVE Goal
    BY <2>2, <2>4, <2>5, <2>6, <2>7
  <2>8. ASSUME NEW s \in set, WantsConnection(s) PROVE Goal
    <3>1. ~CanConnect(s) /\ {t \in Sessions : conns[t] > 0} \subseteq set
      BY <1>1, <2>8 DEF Stuck, WantsInVain
    <3>2. PICK t \in Sessions : conns[t] > 0
      <4>1. InUse # {}
        <5>1. Cardinality({}) = 0
          BY FS_EmptySet
        <5> QED BY <3>1, <5>1, SessionsAssumption DEF CanConnect, SessionsAssumption
      <4>2. PICK c \in Sessions \X (1 .. 2) : c[2] <= conns[c[1]]
        BY <4>1 DEF InUse
      <4>3. c[1] \in Sessions /\ c[2] \in 1 .. 2 /\ conns[c[1]] \in 0 .. 2
        BY <1>1, <4>2 DEF TypeOK
      <4> QED BY <4>2, <4>3
    <3>3. t \in set
      BY <3>1, <3>2
    <3>4. CASE ~WantsConnection(t)
      BY <2>7, <3>3, <3>4 DEF Waiting
    <3>5. CASE WantsConnection(t)
      <4>1. IsApi(t) /\ at[t] = "recover"
        BY <1>1, <3>2, <3>5 DEF WantsConnection, Needed, TypeOK
      <4>2. plan[t].kind = "retry"
        BY <1>1, <4>1, KindsOfPlaces DEF IInv, Placed, TypeOK, SessionTask, IsApi, ApiKinds
      <4>3. WantsInVain(t)
        BY <1>1, <3>3, <3>5 DEF Stuck
      <4> QED BY <3>3, <4>1, <4>2, <4>3 DEF Goal
    <3> QED BY <3>4, <3>5
  <2>9. PICK s \in set : TRUE
    BY <1>1 DEF Stuck
  <2> QED BY <2>7, <2>8, <2>9 DEF Waiting, Goal
<1>2. TypeOK /\ IInv => OnlyRetriesDeadlock
  BY <1>1 DEF OnlyRetriesDeadlock
<1> QED BY <1>2, Inductive, PTL

-----------------------------------------------------------------------------
(* The report *)

OwedNow == Owed(orderStatus, paid_at)

\* What a report has read, list by list.
ReportOf(s) ==
    plan[s].kind = "report" =>
        /\ at[s] \in ReportPlaces => watch.owed \subseteq OwedNow
        /\ at[s] \in ReportPlaces \/ Read(s) => watch.superseded \subseteq superseded
        /\ at[s] \in ReportPlaces \ {Lists[1]} =>
              /\ report.paid_not_delivered \cap Settled \subseteq OwedNow
              /\ Shows(report.paid_not_delivered, OwedNow \cap Settled, ListLimit)
        /\ at[s] \in ReportPlaces \ {Lists[1], Lists[2]} \/ Read(s) =>
              report.delivered_not_paid = {}
        /\ at[s] \in {"total_balance", "open_liabilities"} \/ Read(s) =>
              /\ report.superseded_codes \subseteq superseded
              /\ watch.superseded # {} => report.superseded_codes # {}
        /\ at[s] = "open_liabilities" \/ Read(s) => report.total_balance = 0
        /\ Read(s) =>
              /\ Shows(report.open_liabilities, watch.owed \cap Priced, LiabilityLimit)
              /\ Shows(report.paid_not_delivered, watch.owed \cap Settled, ListLimit)
              /\ Shows(report.open_liabilities, report.paid_not_delivered \cap Settled \cap Priced,
                       LiabilityLimit)
              /\ Shows(report.paid_not_delivered, report.open_liabilities \cap Settled, ListLimit)

ReportInv == /\ plan \in Plans
             /\ \A o \in Orders : paid_at[o] <=> orderStatus[o] # "created"
             /\ \A s \in Sessions : ReportOf(s)

\* What a step does to the watch.
WatchGoesOn ==
    IF Reading
    THEN /\ watch'.recent = watch.recent /\ watch'.superseded = watch.superseded
         /\ watch.moved \subseteq watch'.moved
         /\ watch'.owed \subseteq watch.owed
         /\ watch.owed \subseteq OwedNow => watch'.owed \subseteq OwedNow'
         /\ \A o \in Orders \ watch'.moved : o \in OwedNow' <=> o \in OwedNow
    ELSE watch' = watch

LEMMA WatchIsKept ==
    ASSUME NEW changed \in SUBSET Orders, TypeOK, Watches(changed),
           \A o \in Orders \ changed : o \in OwedNow' <=> o \in OwedNow
    PROVE  WatchGoesOn
BY DEF Watches, WatchGoesOn, OwedNow, TypeOK

LEMMA ReportsMove ==
    ASSUME TypeOK, IInv, NEW t \in Sessions, Acts(t)
    PROVE  \/ BeginReport(t)
           \/ ReadList(t)
           \/ report' = report /\ WatchGoesOn
<1> USE DEF tables, results, orderTables, control
<1>0. /\ at \in [Sessions -> Places] /\ view \in [Sessions -> [ViewPlaces -> BOOLEAN]]
      /\ orderStatus \in [Orders -> OrderStatus] /\ paid_at \in [Orders -> BOOLEAN]
      /\ plan[t].order \in Orders
  BY DEF TypeOK, SessionTask
<1>a. UNCHANGED <<orderStatus, paid_at, watch>> => WatchGoesOn
  BY DEF WatchGoesOn, OwedNow, Owed
<1>1. CASE Connect(t) \/ Fails(t) \/ Reply(t) \/ Lookup(t) \/ Insert(t) \/ Reread(t)
           \/ InsertIfNew(t) \/ Judge(t) \/ Enqueue(t) \/ Reference(t)
  BY <1>1, <1>a DEF Connect, Fails, RollsBack, Reply, Lookup, Insert, Reread, InsertIfNew, Judge,
                    Enqueue, Reference
<1>2. CASE ReadOrder(t) \/ Collect(t) \/ Recover(t) \/ Claim(t) \/ LockOrder(t) \/ WriteRows(t)
           \/ CodeTaken(t) \/ Supersede(t) \/ Finish(t) \/ Requeue(t)
  BY <1>2, <1>a DEF ReadOrder, Collect, Recover, Claim, LockOrder, WriteRows, CodeTaken, Supersede,
                    Finish, Requeue
<1>3. CASE ReadView(t)
  BY <1>0, <1>3, <1>a, ViewRead
<1>4. CASE Prepare(t)
  <2> DEFINE o == plan[t].order
             changed == {o} \ {p \in Orders : orderStatus[p] = "delivering"}
  <2>1. report' = report /\ paid_at' = paid_at
    BY <1>4 DEF Prepare
  <2>2. CASE UNCHANGED <<orderStatus, watch>>
    BY <1>a, <2>1, <2>2
  <2>3. CASE /\ orderStatus[o] \in DELIVERABLE_STATUSES
             /\ orderStatus' = [orderStatus EXCEPT ![o] = "delivering"]
             /\ Watches(changed)
    <3>1. \A p \in Orders : p \in OwedNow' <=> p \in OwedNow
      BY <1>0, <2>1, <2>3 DEF OwedNow, Owed, DELIVERABLE_STATUSES
    <3>2. changed \in SUBSET Orders
      BY <1>0
    <3> QED BY <2>1, <2>3, <3>1, <3>2, WatchIsKept
  <2> QED BY <1>4, <2>2, <2>3 DEF Prepare
<1>5. CASE Commit(t)
  <2> DEFINE changed == {o \in Orders : Capture(o) \in wrote[t]}
                        \cup {o \in Orders : Success(o) \in wrote[t]}
  <2>1. report' = report /\ Publishes(t)
    BY <1>5 DEF Commit
  <2>2. Watches(changed)
    BY <2>1 DEF Publishes
  <2>3. \A o \in Orders \ changed : orderStatus'[o] = orderStatus[o] /\ paid_at'[o] = paid_at[o]
    BY <1>0, <2>1 DEF Publishes
  <2>4. \A o \in Orders \ changed : o \in OwedNow' <=> o \in OwedNow
    BY <2>3 DEF OwedNow, Owed
  <2> QED BY <2>1, <2>2, <2>4, WatchIsKept
<1> QED BY <1>1, <1>2, <1>3, <1>4, <1>5 DEF Acts, Statement

\* An order is paid from its capture on.
LEMMA PaidStep ==
    ASSUME TypeOK, IInv, NEW s \in Sessions, Acts(s),
           \A o \in Orders : paid_at[o] <=> orderStatus[o] # "created"
    PROVE  \A o \in Orders : paid_at'[o] <=> orderStatus'[o] # "created"
<1>0. /\ orderStatus \in [Orders -> OrderStatus] /\ paid_at \in [Orders -> BOOLEAN]
      /\ plan[s].order \in Orders
  BY DEF TypeOK, SessionTask
<1>1. CASE UNCHANGED orderBooks
  BY <1>1 DEF orderBooks
<1>2. CASE Starts(s)
  BY <1>0, <1>2 DEF Starts, DELIVERABLE_STATUSES
<1>3. CASE Captures(s)
  BY <1>0, <1>3 DEF Captures
<1>4. CASE HandsOver(s)
  BY <1>0, <1>4 DEF HandsOver
<1> QED BY <1>1, <1>2, <1>3, <1>4, OrdersMove

LEMMA RowsAreFinite ==
    /\ IsFiniteSet(Orders) /\ IsFiniteSet(Orders \X Suppliers)
    /\ ListLimit \in Nat \ {0} /\ LiabilityLimit \in Nat \ {0}
<1>1. /\ IsFiniteSet(Orders)
      /\ ListLimit \in Nat \ {0} /\ LiabilityLimit \in Nat \ {0}
  BY ReportsAssumption DEF ReportsAssumption
<1>2. IsFiniteSet(Suppliers)
  <2>1. DOMAIN SupplierChain = 1 .. Len(SupplierChain) /\ Len(SupplierChain) \in Int /\ 1 \in Int
    BY ChainAssumption DEF ChainAssumption
  <2>2. IsFiniteSet(DOMAIN SupplierChain)
    BY <2>1, FS_Interval, Zenon
  <2>3. [i \in DOMAIN SupplierChain |-> SupplierChain[i]] \in Surjection(DOMAIN SupplierChain, Suppliers)
    BY DEF Surjection, Suppliers
  <2> QED BY <2>2, <2>3, FS_Surjection
<1> QED BY <1>1, <1>2, FS_Product

\* What the five statements find, whenever they are executed.
LEMMA Findings ==
    ASSUME TypeOK, IInv, ReportInv
    PROVE  /\ \A found \in delivered_not_paid(paid_at, coded) : found = {}
           /\ \A found \in superseded_codes(superseded) :
                 found \subseteq superseded /\ (superseded # {} => found # {})
           /\ total_balance(ledger) = 0
           /\ \A found \in open_liabilities(ledger) :
                 /\ found \subseteq OwedNow \cap Priced
                 /\ Shows(found, OwedNow \cap Priced, LiabilityLimit)
           /\ \A young \in Young : \A found \in paid_not_delivered(paid_at, orderStatus, young) :
                 /\ found \subseteq OwedNow
                 /\ Shows(found, OwedNow \cap Settled, ListLimit)
<1>1. BooksInv /\ \A o \in Orders : paid_at[o] <=> orderStatus[o] # "created"
  BY DEF IInv, ReportInv
<1>2. ledger \in Journal /\ coded \subseteq Orders /\ superseded \subseteq Orders \X Suppliers
  BY DEF TypeOK, Journal
<1>3. ASSUME NEW found \in delivered_not_paid(paid_at, coded) PROVE found = {}
  <2>1. {o \in coded : ~paid_at[o]} = {}
    BY <1>1, <1>2 DEF BooksInv
  <2>2. found \in Limited({}, ListLimit)
    BY <2>1 DEF delivered_not_paid
  <2> QED BY <2>2, RowsAreFinite, FoundWithin, FS_EmptySet
<1>4. ASSUME NEW found \in superseded_codes(superseded)
      PROVE  found \subseteq superseded /\ (superseded # {} => found # {})
  <2>1. IsFiniteSet(superseded)
    BY <1>2, RowsAreFinite, FS_Subset
  <2> QED BY <2>1, RowsAreFinite, FoundWithin, FoundSome DEF superseded_codes
<1>5. ASSUME NEW found \in open_liabilities(ledger)
      PROVE  /\ found \subseteq OwedNow \cap Priced
             /\ Shows(found, OwedNow \cap Priced, LiabilityLimit)
  <2>1. \A o \in Orders : ("payment_captured" \in ledger[o]) # ("delivery_completed" \in ledger[o])
                          <=> paid_at[o] /\ orderStatus[o] # "delivered"
    BY <1>1 DEF BooksInv, LedgerEventType
  <2>2. {o \in Halfway(ledger) : amount_minor[o] # 0} = OwedNow \cap Priced
    BY <2>1 DEF Halfway, OwedNow, Owed, Priced
  <2> QED BY <1>2, <2>2, OpenLiabilities DEF Shows
<1>6. ASSUME NEW young \in Young, NEW found \in paid_not_delivered(paid_at, orderStatus, young)
      PROVE  /\ found \subseteq OwedNow
             /\ Shows(found, OwedNow \cap Settled, ListLimit)
  <2>1. young \cap Settled = {}
    BY DEF Young, Settled
  <2>2. OwedNow \ young \subseteq Orders /\ found \in Limited(OwedNow \ young, ListLimit)
    BY <1>6 DEF paid_not_delivered, OwedNow, Owed
  <2>3. IsFiniteSet(OwedNow \ young)
    BY <2>2, RowsAreFinite, FS_Subset
  <2>4. found \subseteq OwedNow \ young /\ (found = OwedNow \ young \/ Cardinality(found) = ListLimit)
    BY <2>2, <2>3, RowsAreFinite, FoundWithin
  <2> QED BY <2>1, <2>4 DEF Shows
<1> QED BY <1>2, <1>3, <1>4, <1>5, <1>6, JournalBalances

LEMMA ListFound ==
    ASSUME NEW s \in Sessions, DOMAIN report = ReportPlaces, ReadList(s)
    PROVE  \E found \in ReadsList(at[s]) : report' = [report EXCEPT ![at[s]] = found]
BY DEF ReadList, Executes

\* A report goes on by its own statements only.
LEMMA ReportStands ==
    ASSUME TypeOK, IInv, NEW t \in Sessions, Acts(t), ~BeginReport(t), ~ReadList(t),
           NEW s \in Sessions, plan[s].kind = "report"
    PROVE  /\ at'[s] \in ReportPlaces => at'[s] = at[s]
           /\ Read(s)' => Read(s)
<1>0. /\ at \in [Sessions -> Places] /\ at[s] \in PlacesOf("report")
      /\ plan' = plan
      /\ view \in [Sessions -> [ViewPlaces -> BOOLEAN]]
  BY OthersStay DEF TypeOK, IInv, Placed
<1>1. CASE s # t
  <2>1. at'[s] = at[s]
    BY <1>0, <1>1, OthersStay
  <2> QED BY <1>0, <2>1 DEF Read
<1>2. CASE s = t
  <2>1. at[s] \in {"begin", "reply", "commit"} \cup ReportPlaces \cup Ended
    BY <1>0 DEF PlacesOf
  <2>2. CASE Connect(s)
    BY <1>0, <2>2 DEF Connect, Read
  <2>3. CASE Fails(s)
    BY <1>0, <2>3, PlacesSpelled DEF Fails, RollsBack, Goes, Read
  <2>4. CASE Reply(s) \/ Commit(s)
    BY <1>0, <2>4, PlacesSpelled DEF Reply, Commit, Executes, Goes, Read
  <2>5. CASE ReadView(s)
    <3>1. at[s] \in ViewPlaces
      BY <1>0, <2>5, ViewRead, PlacesSpelled
    <3> QED BY <2>1, <3>1, PlacesSpelled DEF Ended
  <2>6. CASE \/ Lookup(s) \/ Insert(s) \/ Reread(s) \/ InsertIfNew(s) \/ Judge(s) \/ Enqueue(s)
             \/ Reference(s) \/ ReadOrder(s) \/ Recover(s) \/ Claim(s) \/ Prepare(s)
             \/ LockOrder(s) \/ WriteRows(s) \/ CodeTaken(s) \/ Supersede(s) \/ Finish(s)
             \/ Requeue(s)
    <3>1. at[s] \in {"lookup", "insert", "reread", "event", "order", "enqueue", "reference", "read",
                     "recover", "claim", "prepare", "rows", "supersede", "finish", "requeue"}
      BY <2>6 DEF Lookup, Insert, Reread, InsertIfNew, Judge, Enqueue, Reference, ReadOrder, Recover,
                  Claim, Prepare, LockOrder, WriteRows, CodeTaken, Supersede, Finish, Requeue, Executes
    <3> QED BY <2>1, <3>1, PlacesSpelled DEF Ended
  <2>7. CASE Collect(s)
    BY <2>7 DEF Collect
  <2> QED BY <1>2, <2>2, <2>3, <2>4, <2>5, <2>6, <2>7 DEF Acts, Statement
<1> QED BY <1>1, <1>2

LEMMA OnlyReport ==
    ASSUME ReportInv, NEW s \in Sessions, NEW t \in Sessions,
           plan[s].kind = "report", plan[t].kind = "report"
    PROVE  s = t
BY OneReport DEF OneReport, ReportInv

\* A statement of a report finds what it is expected to find.
LEMMA ReportReads ==
    ASSUME TypeOK, IInv, ReportInv, NEW s \in Sessions, Acts(s), ReadList(s)
    PROVE  ReportOf(s)'
<1> USE PlacesSpelled
<1>0. /\ at \in [Sessions -> Places] /\ DOMAIN report = ReportPlaces
      /\ ReportOf(s)
  BY DEF TypeOK, ReportInv
<1>1. /\ at[s] \in ReportPlaces
      /\ \/ at[s] = "paid_not_delivered" /\ at'[s] = "delivered_not_paid"
         \/ at[s] = "delivered_not_paid" /\ at'[s] = "superseded_codes"
         \/ at[s] = "superseded_codes" /\ at'[s] = "total_balance"
         \/ at[s] = "total_balance" /\ at'[s] = "open_liabilities"
         \/ at[s] = "open_liabilities" /\ at'[s] = "reply"
      /\ UNCHANGED <<plan, tables, watch>>
  BY <1>0, ListRead
<1>2. /\ OwedNow' = OwedNow /\ Settled' = Settled /\ superseded' = superseded
      /\ watch' = watch
  BY <1>1 DEF tables, orderTables, OwedNow, Owed, Settled
<1>3. PICK found \in ReadsList(at[s]) : report' = [report EXCEPT ![at[s]] = found]
  BY <1>0, ListFound
<1>4. plan[s].kind = "report" /\ plan'[s].kind = "report"
  BY <1>1, KindsOfPlaces DEF IInv, Placed, TypeOK, SessionTask
<1>5. CASE at[s] = "paid_not_delivered"
  <2>1. PICK young \in Young : found \in paid_not_delivered(paid_at, orderStatus, young)
    BY <1>3, <1>5 DEF ReadsList
  <2>2. report'.paid_not_delivered = found
    BY <1>0, <1>3, <1>5
  <2>3. /\ report'.paid_not_delivered \subseteq OwedNow
        /\ Shows(report'.paid_not_delivered, OwedNow \cap Settled, ListLimit)
    BY <2>1, <2>2, Findings
  <2> QED BY <1>0, <1>1, <1>2, <1>4, <1>5, <2>3 DEF ReportOf, Read, Lists, Shows
<1>6. CASE at[s] = "delivered_not_paid"
  <2>1. found = {}
    BY <1>3, <1>6, Findings DEF ReadsList
  <2>2. report'.delivered_not_paid = {} /\ report'.paid_not_delivered = report.paid_not_delivered
    BY <1>0, <1>3, <1>6, <2>1
  <2> QED BY <1>0, <1>1, <1>2, <1>4, <1>6, <2>2 DEF ReportOf, Read, Lists, Shows
<1>7. CASE at[s] = "superseded_codes"
  <2>1. found \subseteq superseded /\ (superseded # {} => found # {})
    BY <1>3, <1>7, Findings DEF ReadsList
  <2>2. /\ report'.superseded_codes = found
        /\ report'.delivered_not_paid = report.delivered_not_paid
        /\ report'.paid_not_delivered = report.paid_not_delivered
    BY <1>0, <1>3, <1>7
  <2>3. watch.superseded # {} => superseded # {}
    BY <1>0, <1>4, <1>7 DEF ReportOf
  <2> QED BY <1>0, <1>1, <1>2, <1>4, <1>7, <2>1, <2>2, <2>3 DEF ReportOf, Read, Lists, Shows
<1>8. CASE at[s] = "total_balance"
  <2>1. found = 0
    BY <1>3, <1>8, Findings DEF ReadsList
  <2>2. /\ report'.total_balance = 0
        /\ report'.superseded_codes = report.superseded_codes
        /\ report'.delivered_not_paid = report.delivered_not_paid
        /\ report'.paid_not_delivered = report.paid_not_delivered
    BY <1>0, <1>3, <1>8, <2>1
  <2> QED BY <1>0, <1>1, <1>2, <1>4, <1>8, <2>2 DEF ReportOf, Read, Lists, Shows
<1>9. CASE at[s] = "open_liabilities"
  <2>1. /\ found \subseteq OwedNow \cap Priced
        /\ Shows(found, OwedNow \cap Priced, LiabilityLimit)
    BY <1>3, <1>9, Findings DEF ReadsList
  <2>2. /\ report'.open_liabilities = found
        /\ report'.total_balance = report.total_balance
        /\ report'.superseded_codes = report.superseded_codes
        /\ report'.delivered_not_paid = report.delivered_not_paid
        /\ report'.paid_not_delivered = report.paid_not_delivered
    BY <1>0, <1>3, <1>9
  <2>3. /\ watch.owed \subseteq OwedNow /\ watch.superseded \subseteq superseded
        /\ report.paid_not_delivered \cap Settled \subseteq OwedNow
        /\ Shows(report.paid_not_delivered, OwedNow \cap Settled, ListLimit)
        /\ report.delivered_not_paid = {} /\ report.total_balance = 0
        /\ report.superseded_codes \subseteq superseded
        /\ watch.superseded # {} => report.superseded_codes # {}
    BY <1>0, <1>1, <1>4, <1>9 DEF ReportOf, Lists
  <2>4. /\ Shows(found, watch.owed \cap Priced, LiabilityLimit)
        /\ Shows(report.paid_not_delivered, watch.owed \cap Settled, ListLimit)
        /\ Shows(found, report.paid_not_delivered \cap Settled \cap Priced, LiabilityLimit)
        /\ Shows(report.paid_not_delivered, found \cap Settled, ListLimit)
    BY <2>1, <2>3 DEF Shows
  <2>5. Priced' = Priced
    BY DEF Priced
  <2>6. at'[s] \notin ReportPlaces
    BY <1>1, <1>9
  <2> QED BY <1>2, <1>4, <2>2, <2>3, <2>4, <2>5, <2>6 DEF ReportOf, Shows
<1> QED BY <1>1, <1>5, <1>6, <1>7, <1>8, <1>9

LEMMA ReportStep ==
    ASSUME TypeOK, IInv, ReportInv, NEW t \in Sessions, Acts(t)
    PROVE  ReportInv'
<1>0. plan' = plan
  BY OthersStay
<1>1. \A o \in Orders : paid_at'[o] <=> orderStatus'[o] # "created"
  BY PaidStep DEF ReportInv
<1>2. ASSUME NEW s \in Sessions, plan[s].kind = "report"
      PROVE  ReportOf(s)'
  <2>0. ReportOf(s) /\ at[s] \in PlacesOf("report") /\ at \in [Sessions -> Places]
    BY <1>2 DEF ReportInv, IInv, Placed, TypeOK
  <2>1. CASE BeginReport(t)
    <3>1. s = t
      BY <1>2, <2>1, OnlyReport DEF BeginReport
    <3>2. /\ at'[s] = Lists[1] /\ watch'.owed = OwedNow /\ watch'.superseded = superseded
          /\ UNCHANGED tables
      BY <2>0, <2>1, <3>1 DEF BeginReport, Goes, OwedNow
    <3>3. OwedNow' = OwedNow /\ superseded' = superseded
      BY <3>2 DEF tables, orderTables, OwedNow, Owed
    <3> QED BY <3>2, <3>3, PlacesSpelled DEF ReportOf, Read
  <2>2. CASE ReadList(t)
    <3>1. at[t] \in ReportPlaces
      BY <2>0, <2>2, ListRead
    <3>2. plan[t].kind = "report"
      BY <3>1, KindsOfPlaces DEF IInv, Placed, TypeOK, SessionTask
    <3> QED BY <1>2, <2>2, <3>2, OnlyReport, ReportReads
  <2>3. CASE ~BeginReport(t) /\ ~ReadList(t)
    <3>1. /\ at'[s] \in ReportPlaces => at'[s] = at[s]
          /\ Read(s)' => Read(s)
      BY <1>2, <2>3, ReportStands
    <3>2. report' = report /\ WatchGoesOn /\ superseded \subseteq superseded'
      BY <2>3, ReportsMove, SupersededStays
    <3>3. CASE at'[s] \in ReportPlaces
      <4>1. Reading /\ at'[s] = at[s]
        BY <3>1, <3>3 DEF Reading
      <4>2. /\ watch.owed \subseteq OwedNow => watch'.owed \subseteq OwedNow'
            /\ Settled' \subseteq Settled
            /\ \A o \in Settled' : o \in OwedNow' <=> o \in OwedNow
            /\ watch'.superseded = watch.superseded
        BY <3>2, <4>1 DEF WatchGoesOn, Settled
      <4>3. ~Read(s)'
        BY <3>3, PlacesSpelled DEF Read
      <4>4. Shows(report.paid_not_delivered, OwedNow \cap Settled, ListLimit) =>
               Shows(report.paid_not_delivered, OwedNow' \cap Settled', ListLimit)
        BY <4>2 DEF Shows
      <4> QED BY <1>0, <1>2, <2>0, <3>2, <3>3, <4>1, <4>2, <4>3, <4>4 DEF ReportOf, Shows
    <3>4. CASE Read(s)'
      <4>1. Read(s) /\ at'[s] \notin ReportPlaces
        BY <3>1, <3>4, PlacesSpelled DEF Read
      <4>2. ~Reading
        <5>1. ASSUME NEW u \in Sessions, at[u] \in ReportPlaces PROVE FALSE
          <6>1. plan[u].kind = "report"
            BY <5>1, KindsOfPlaces DEF IInv, Placed, TypeOK, SessionTask
          <6> QED BY <1>2, <4>1, <5>1, <6>1, OnlyReport, PlacesSpelled DEF Read
        <5> QED BY <5>1 DEF Reading
      <4>3. watch' = watch
        BY <3>2, <4>2 DEF WatchGoesOn
      <4>4. Settled' = Settled /\ Priced' = Priced
        BY <4>3 DEF Settled, Priced
      <4>5. at'[s] \notin ReportPlaces
        BY <3>4, PlacesSpelled DEF Read
      <4> QED BY <1>2, <2>0, <3>2, <4>1, <4>3, <4>4, <4>5, PlacesSpelled DEF ReportOf, Shows
    <3>5. CASE at'[s] \notin ReportPlaces /\ ~Read(s)'
      BY <3>5, PlacesSpelled DEF ReportOf
    <3> QED BY <3>3, <3>4, <3>5
  <2> QED BY <2>1, <2>2, <2>3
<1>3. \A s \in Sessions : ReportOf(s)'
  BY <1>0, <1>2 DEF ReportOf
<1> QED BY <1>0, <1>1, <1>3 DEF ReportInv

\* A report is healthy if no code was superseded by its end and not if one was at
\* its beginning, and a list of it that is not full does not lose an order that is
\* owed its goods, although the lists are read one after the other while others
\* commit (reconciliation_service.py:50-84).
THEOREM ReportsAreSound == Spec => []ReportIsSound
<1>1. ASSUME Init PROVE ReportInv
  <2>1. \A s \in Sessions : /\ plan[s].kind \in Kinds
                            /\ at[s] = Start(plan[s].kind)
    BY <1>1, SessionsAssumption DEF Init, SessionsAssumption, SessionTask
  <2>2. \A s \in Sessions : plan[s].kind = "report" => at[s] = "begin"
    BY <2>1 DEF Start
  <2>3. \A o \in Orders : paid_at[o] <=> orderStatus[o] # "created"
    BY <1>1 DEF Init
  <2>4. plan \in Plans
    BY <1>1 DEF Init
  <2> QED BY <2>2, <2>3, <2>4, PlacesSpelled DEF ReportInv, ReportOf, Read
<1>2. ASSUME TypeOK, IInv, ReportInv, [Next]_vars PROVE ReportInv'
  <2>1. CASE Next
    <3>1. PICK s \in Sessions : Acts(s)
      BY <1>2, <2>1, NextActs
    <3> QED BY <1>2, <3>1, ReportStep
  <2>2. CASE UNCHANGED vars
    BY <1>2, <2>2 DEF vars, control, tables, results, orderTables, ReportInv, ReportOf, Read, OwedNow,
                      Owed, Settled, Priced, Shows
  <2> QED BY <1>2, <2>1, <2>2
<1>3. ASSUME TypeOK, ReportInv PROVE ReportIsSound
  <2> SUFFICES ASSUME NEW s \in Sessions, Read(s)
               PROVE  /\ superseded = {} => healthy(report)
                      /\ watch.superseded # {} => ~healthy(report)
                      /\ Shows(report.open_liabilities, watch.owed \cap Priced, LiabilityLimit)
                      /\ Shows(report.paid_not_delivered, watch.owed \cap Settled, ListLimit)
                      /\ Shows(report.open_liabilities,
                               report.paid_not_delivered \cap Settled \cap Priced, LiabilityLimit)
                      /\ Shows(report.paid_not_delivered, report.open_liabilities \cap Settled,
                               ListLimit)
    BY DEF ReportIsSound
  <2>1. ReportOf(s) /\ plan[s].kind = "report"
    BY <1>3 DEF ReportInv, Read
  <2>2. superseded = {} => report.superseded_codes = {}
    BY <2>1 DEF ReportOf
  <2> QED BY <2>1, <2>2 DEF ReportOf, healthy
<1> QED BY <1>1, <1>2, <1>3, Inductive, PTL DEF Spec
===============================================================================
