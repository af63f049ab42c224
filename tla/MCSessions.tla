------------------------------ MODULE MCSessions ------------------------------
(* Values for the constants of Sessions: who may meet whom. *)
EXTENDS Sessions, TLC

CONSTANTS o1, o2, o3, o4, e1, e2

Chain == <<"a", "b">>

\* o4 is an order for nothing.
Price == [o \in Orders |-> IF o = o4 THEN 0 ELSE 7]

\* o1 may be unpaid still, the others wait for their goods.
Beginnings == {[o \in Orders |-> IF o = o1 THEN status ELSE "out_of_stock"] :
                  status \in {"created", "out_of_stock"}}

Does(kind, order, event) == [kind |-> kind, order |-> order, event |-> event]

\* Two deliveries of event e1, another payment, and one of every kind but a report.
Menu == <<Does("create", o1, e1), Does("webhook", o1, e1), Does("webhook", o1, e2),
          Does("retry", o1, e1), Does("sweep", o1, e1), Does("deliver", o1, e1),
          Does("view", o1, e1), Does("replay", o1, e1)>>

\* Every three of them, in any combination and with repetition.
MenuAgendas ==
    {[s \in Sessions |-> Menu[pick[s]]] :
        pick \in {p \in [Sessions -> DOMAIN Menu] :
                    \A s, t \in Sessions : s < t => p[s] <= p[t]}}

\* What a report meets: a move of an order and what leads there, moves of two
\* orders, and two retries that ask for its connection; either may have ended
\* before the report begins.
ReportAgendas ==
    {<<Does("report", o1, e1), Does("webhook", o1, e1), Does("deliver", o1, e1)>>,
     <<Does("report", o1, e1), Does("sweep", o1, e1), Does("deliver", o1, e1)>>,
     <<Does("report", o1, e1), Does("sweep", o2, e1), Does("deliver", o2, e1)>>,
     <<Does("report", o1, e1), Does("webhook", o1, e1), Does("sweep", o2, e1)>>,
     <<Does("report", o1, e1), Does("retry", o1, e1), Does("retry", o1, e1)>>}

Agendas == MenuAgendas \cup ReportAgendas
===============================================================================
