----------------------------- MODULE SportsPage -----------------------------
(***************************************************************************)
(* The page on which courts are booked: by unit or by group, the slots of  *)
(* an hour that the user picks on the schedule of the displayed window.    *)
(* The schedule is the one that was loaded; reservations that come later   *)
(* are refused by the handler.                                             *)
(***************************************************************************)
EXTENDS Integers

CONSTANTS
    Unit,
    Group,      \* the groups, each a set of units
    Hour,       \* bound: the hours that can be displayed, numbered
    Width,      \* SLOT_COUNT
    Occupied,   \* bound: the sets of <<unit, hour>> that may be taken
    Closed,     \* bound: the sets of hours that may be in a closure
    Threshold   \* the first hour that may be booked

VARIABLES
    occupied, closed, \* the schedule
    mode, target,     \* unit or group; which one
    slots,            \* the hours picked
    display           \* the first hour displayed

vars == <<occupied, closed, mode, target, slots, display>>

Targets(m) == IF m = "group" THEN Group ELSE {{u} : u \in Unit}

TypeOK ==
    /\ occupied \subseteq Unit \X Hour
    /\ closed \subseteq Hour
    /\ mode \in {"unit", "group"} /\ target \in Targets(mode)
    /\ slots \subseteq Hour
    /\ display \in Hour

Init ==
    /\ occupied \in Occupied
    /\ closed \in Closed
    /\ mode = "unit" /\ target \in Targets("unit")
    /\ slots = {}
    /\ display \in Hour

Displayed == {h \in Hour : display <= h /\ h < display + Width}

\* getSlotState: a slot that is closed, taken or past is not available, picked or not.
Available(u, h) ==
    /\ h \notin closed
    /\ <<u, h>> \notin occupied
    /\ h >= Threshold

\* getGroupSlotState: a slot that was picked stays picked, and otherwise all the units
\* must have it.
Pickable(h) == h \in slots \/ \A u \in target : Available(u, h)

Toggle(h) == IF h \in slots THEN slots \ {h} ELSE slots \cup {h}

\* The header of a column, in group mode.
PickGroupSlot ==
    /\ mode = "group"
    /\ \E h \in Displayed : Pickable(h) /\ slots' = Toggle(h)
    /\ UNCHANGED <<occupied, closed, mode, target, display>>

\* A cell, in unit mode: the unit becomes the target, and what was picked for another
\* stays picked.
PickUnitSlot ==
    /\ mode = "unit"
    /\ \E h \in Displayed, u \in Unit :
         Available(u, h) /\ target' = {u} /\ slots' = Toggle(h)
    /\ UNCHANGED <<occupied, closed, mode, display>>

\* A chip of the panel.
Unpick ==
    /\ \E h \in slots : slots' = slots \ {h}
    /\ UNCHANGED <<occupied, closed, mode, target, display>>

ChooseTarget ==
    /\ target' \in Targets(mode)
    /\ slots' = {}
    /\ UNCHANGED <<occupied, closed, mode, display>>

\* The effect of a change of mode, of the resource or of its units: the first target
\* is chosen and nothing is picked.
ChooseMode ==
    /\ mode' \in {"unit", "group"}
    /\ target' \in Targets(mode')
    /\ slots' = {}
    /\ UNCHANGED <<occupied, closed, display>>

MoveDisplay ==
    /\ display' \in {display - Width, display + Width} \cap Hour
    /\ UNCHANGED <<occupied, closed, mode, target, slots>>

Next == PickGroupSlot \/ PickUnitSlot \/ Unpick \/ ChooseTarget \/ ChooseMode \/ MoveDisplay

Spec == Init /\ [][Next]_vars

-----------------------------------------------------------------------------
(* Properties *)

\* findSportsReservationConflict, on the loaded schedule.
Conflicts == \E u \in target, h \in slots : <<u, h>> \in occupied

\* However the user changes between units, groups and displayed windows, what is picked
\* for a group is free on all its courts, in no closure and not past.  Of a unit this is
\* not so: the slots of another one may be among those that are sent for it.
GroupSlotsAreFree ==
    mode = "group" => ~Conflicts /\ slots \cap closed = {} /\ \A h \in slots : h >= Threshold

-----------------------------------------------------------------------------
(* For the proofs: what is assumed of the constants, and the inductive invariant *)

\* Hours are numbers, schedules are about them, and a group has a unit at least
\* (CreateResourceGroupDto).
Assumptions ==
    /\ Hour \subseteq Int /\ Threshold \in Int
    /\ Group \subseteq (SUBSET Unit) \ {{}}
    /\ Occupied \subseteq SUBSET (Unit \X Hour) /\ Closed \subseteq SUBSET Hour

CourtInv == TypeOK /\ GroupSlotsAreFree
=============================================================================
