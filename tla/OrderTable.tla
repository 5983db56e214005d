----------------------------- MODULE OrderTable -----------------------------
(***************************************************************************)
(* What the order centre promises of every order: its status moves along   *)
(* the table of docs/product-architecture.md, 7.1, one step at a time, and *)
(* an order becomes paid in the step that confirms it, or never.           *)
(***************************************************************************)
EXTENDS Naturals

CONSTANTS Order, Paid

VARIABLES
    status,  \* the status of an order
    settled  \* the orders whose payment was taken

Init ==
    /\ status = [o \in Order |-> IF o \in Paid THEN "PENDING_CONFIRMATION"
                                               ELSE "CONFIRMED"]
    /\ settled = {}

Move(o, from, to) ==
    /\ status[o] \in from
    /\ status' = [status EXCEPT ![o] = to]

Pay(o) ==
    /\ Move(o, {"PENDING_CONFIRMATION"}, "CONFIRMED")
    /\ settled' = settled \cup {o}

\* An administrator may confirm without payment.
Confirm(o) ==
    /\ Move(o, {"PENDING_CONFIRMATION"}, "CONFIRMED")
    /\ UNCHANGED settled

Cancel(o) ==
    /\ Move(o, {"PENDING_CONFIRMATION", "CONFIRMED"}, "CANCELLED")
    /\ UNCHANGED settled

MissIt(o) ==
    /\ Move(o, {"CONFIRMED"}, "NO_SHOW")
    /\ UNCHANGED settled

Next == \E o \in Order : Pay(o) \/ Confirm(o) \/ Cancel(o) \/ MissIt(o)

Spec == Init /\ [][Next]_<<status, settled>>
=============================================================================
