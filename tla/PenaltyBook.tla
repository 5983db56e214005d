---------------------------- MODULE PenaltyBook -----------------------------
(***************************************************************************)
(* What the order centre promises about missed reservations: a reservation *)
(* ends once, and in the step that ends it as missed each of its           *)
(* participants gets one penalty; nothing else gives anybody a penalty.    *)
(***************************************************************************)
EXTENDS Naturals

CONSTANTS
    Order,  \* reservations
    User,
    Party   \* the participants of an order

VARIABLES
    status,    \* the status of an order
    missed,    \* the orders that were evaluated as missed
    penalties  \* how often a user was penalised

Init ==
    /\ status = [o \in Order |-> "CONFIRMED"]
    /\ missed = {}
    /\ penalties = [u \in User |-> 0]

End(o, as) ==
    /\ status[o] = "CONFIRMED"
    /\ status' = [status EXCEPT ![o] = as]

\* Cancelled, or marked as NO_SHOW by hand: nobody is penalised.
Drop(o) ==
    /\ \E as \in {"CANCELLED", "NO_SHOW"} : End(o, as)
    /\ UNCHANGED <<missed, penalties>>

Miss(o) ==
    /\ End(o, "NO_SHOW")
    /\ missed' = missed \cup {o}
    /\ penalties' = [u \in User |-> IF u \in Party[o] THEN penalties[u] + 1
                                                     ELSE penalties[u]]

Next == \E o \in Order : Drop(o) \/ Miss(o)

Spec == Init /\ [][Next]_<<status, missed, penalties>>
=============================================================================
