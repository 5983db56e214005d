------------------------------ MODULE Calendar ------------------------------
(***************************************************************************)
(* What reservations promise: a unit is used by one reservation at a time, *)
(* a room is left empty between two of them for twice the buffer, and a    *)
(* reservation gets in one step every use it asks for, or none.            *)
(***************************************************************************)
EXTENDS Integers

CONSTANTS
    Request,  \* whoever asks for a reservation
    Offer,    \* the sets of uses of units, [unit, from, to], that can be asked for
    Room,     \* the units that are left empty in between
    Buffer    \* minutes kept free on either side of a reservation of a room

VARIABLES
    asked,  \* the uses a request asks for
    booked  \* the uses it has

Gap(unit) == IF unit \in Room THEN 2 * Buffer ELSE 0

Apart(x, y) ==
    x.unit = y.unit => \/ x.to + Gap(x.unit) <= y.from
                       \/ y.to + Gap(x.unit) <= x.from

Init ==
    /\ asked = [r \in Request |-> {}]
    /\ booked = [r \in Request |-> {}]

Ask(r) ==
    /\ asked[r] = {}
    /\ \E uses \in Offer : asked' = [asked EXCEPT ![r] = uses]
    /\ UNCHANGED booked

Book(r) ==
    /\ booked[r] = {}
    /\ \A q \in Request \ {r}, x \in asked[r] : \A y \in booked[q] : Apart(x, y)
    /\ booked' = [booked EXCEPT ![r] = asked[r]]
    /\ UNCHANGED asked

Free(r) ==
    /\ booked' = [booked EXCEPT ![r] = {}]
    /\ UNCHANGED asked

Next == \E r \in Request : Ask(r) \/ Book(r) \/ Free(r)

Spec == Init /\ [][Next]_<<asked, booked>>
=============================================================================
