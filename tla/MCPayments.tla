------------------------------ MODULE MCPayments ------------------------------
(* Values for the constants of Payments, and the replay against its loop. *)
EXTENDS Payments, TLC, SequencesExt

CONSTANTS o1, e1, e2, e3, e4

Chain == <<"a", "b">>

Only(listed) == [d \in Disturbance |-> IF d \in DOMAIN listed THEN listed[d] ELSE 0]

Says(o, status, matches, at) ==
    [order_id |-> o, status |-> status, amount_matches |-> matches, occurred_at |-> at]

\* A payment, one in a wrong amount at the same time, a failure before them and
\* a second payment after them, all for one order.
Contradictory == (e1 :> Says(o1, "paid", TRUE, 2)) @@ (e2 :> Says(o1, "failed", TRUE, 1))
                 @@ (e3 :> Says(o1, "paid", FALSE, 2)) @@ (e4 :> Says(o1, "paid", TRUE, 3))

\* The first three of them.
Three == [e \in {e1, e2, e3} |-> Contradictory[e]]

WebhookBudget == Only([db_error |-> 1, crash |-> 1, resend |-> 1])

\* A failing transaction and a dying process.
FailureBudget == Only([db_error |-> 1, crash |-> 1])

-----------------------------------------------------------------------------
(***************************************************************************)
(* The loop of apply_pending_orphans, an event at a time: the order so far *)
(* and the verdicts so far.  OrderAfter and Judgement say the same of      *)
(* every list and every order row.                                         *)
(***************************************************************************)
Loop(order, list) ==
    FoldLeft(LAMBDA so_far, e :
                 LET verdict == apply(so_far.order, e)
                 IN  [order |-> IF verdict = "applied" THEN marked(e) ELSE so_far.order,
                      verdicts |-> Append(so_far.verdicts, verdict)],
             [order |-> order, verdicts |-> <<>>], list)

ASSUME ReplayIsTheLoop ==
    \A list \in SeqOf(Events, 3), status \in OrderStatus, last \in 0 .. 3 :
        LET order == [status |-> status, last |-> last]
        IN  Loop(order, list) =
                [order |-> OrderAfter(order, list),
                 verdicts |-> [i \in DOMAIN list |-> Judgement(order, list, i)]]
=============================================================================
