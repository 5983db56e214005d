----------------------------- MODULE TicketSale -----------------------------
(***************************************************************************)
(* What a ticket grab promises, with no cache, no queue and no rows: a     *)
(* place of a ticket is sold, in one step, to a user who holds none, while *)
(* a place is left; it stays its holder's until it is returned, and for    *)
(* good once it is written off as a no-show.                               *)
(***************************************************************************)
EXTENDS Integers, FiniteSets

CONSTANTS User, Ticket, Stock, None

VARIABLES
    held,    \* the ticket a user holds, or None
    absent   \* the users whose place was written off as a no-show

Sold(t) == {u \in User : held[u] = t}

Init ==
    /\ held = [u \in User |-> None]
    /\ absent = {}

Sell(u, t) ==
    /\ held[u] = None
    /\ Cardinality(Sold(t)) < Stock[t]
    /\ held' = [held EXCEPT ![u] = t]
    /\ UNCHANGED absent

Return(u) ==
    /\ held[u] # None
    /\ u \notin absent
    /\ held' = [held EXCEPT ![u] = None]
    /\ UNCHANGED absent

WriteOff(u) ==
    /\ held[u] # None
    /\ u \notin absent
    /\ absent' = absent \cup {u}
    /\ UNCHANGED held

Next ==
    \/ \E u \in User, t \in Ticket : Sell(u, t)
    \/ \E u \in User : Return(u) \/ WriteOff(u)

Spec == Init /\ [][Next]_<<held, absent>>
=============================================================================
