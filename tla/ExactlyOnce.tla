----------------------------- MODULE ExactlyOnce -----------------------------
(***************************************************************************)
(* What the shop promises about one order, without a word about jobs,      *)
(* suppliers, workers or retries: the order is paid once or dies unpaid;   *)
(* for a paid order at most one code is ever taken from a pool; that code, *)
(* and no other, is handed over, once.                                     *)
(***************************************************************************)
CONSTANTS Orders, Codes, NoCode

VARIABLES
    phase,   \* "open", "void", "owed" or "settled"
    bound,   \* the codes taken from the suppliers' pools for the order
    handed   \* the code the customer was given, or NoCode

vars == <<phase, bound, handed>>

Init == /\ phase = [o \in Orders |-> "open"]
        /\ bound = [o \in Orders |-> {}]
        /\ handed = [o \in Orders |-> NoCode]

Capture(o) == /\ phase[o] = "open"
              /\ phase' = [phase EXCEPT ![o] = "owed"]
              /\ UNCHANGED <<bound, handed>>

Void(o) == /\ phase[o] = "open"
           /\ phase' = [phase EXCEPT ![o] = "void"]
           /\ UNCHANGED <<bound, handed>>

Bind(o, c) == /\ phase[o] = "owed"
              /\ bound[o] = {}
              /\ bound' = [bound EXCEPT ![o] = {c}]
              /\ UNCHANGED <<phase, handed>>

Settle(o, c) == /\ phase[o] = "owed"
                /\ bound[o] = {c}
                /\ phase' = [phase EXCEPT ![o] = "settled"]
                /\ handed' = [handed EXCEPT ![o] = c]
                /\ UNCHANGED bound

Next == \E o \in Orders :
            \/ Capture(o)
            \/ Void(o)
            \/ \E c \in Codes : Bind(o, c) \/ Settle(o, c)

Spec == Init /\ [][Next]_vars
=============================================================================
