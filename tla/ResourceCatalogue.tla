-------------------------- MODULE ResourceCatalogue --------------------------
(***************************************************************************)
(* Resources, their units and groups: the handlers of administrators, who  *)
(* read before they write, beside reservations that read a unit or a group *)
(* and insert rows that refer to it, and the foreign keys both meet.  The  *)
(* transaction of a handler is one step: its first insert locks the rows   *)
(* it refers to, and a deletion of those waits for its end.                *)
(***************************************************************************)
EXTENDS Integers, FiniteSets

CONSTANTS ResourceId, UnitId, GroupId, \* bounds: the rows there can ever be
          Admin,                       \* administrators' requests in flight
          Guest,                       \* reservations, each made at most once
          NoRow

VARIABLES
    resources, \* Resource rows, as their type: nothing here looks at the status
    units,     \* ResourceUnit rows: resource and availabilityMode
    groups,    \* ResourceGroup rows with their items
    used,      \* ids of deleted rows, which are never given again
    desk,      \* the administrators' requests
    guest      \* the reservations: what was read, and the rows once inserted

vars == <<resources, units, groups, used, desk, guest>>

Type == {"ACADEMIC_SPACE", "SPORTS_FACILITY"}
Mode == {"CONTINUOUS", "DISCRETE_SLOT"}

Idle == [pc |-> "idle", resource |-> NoRow, unit |-> NoRow, type |-> NoRow, items |-> {}]
NewGuest == [pc |-> "new", resource |-> NoRow, units |-> {}]

TypeOK ==
    /\ \A r \in ResourceId : resources[r] \in {NoRow} \cup Type
    /\ \A u \in UnitId : units[u] \in {NoRow} \cup [resource : ResourceId, mode : Mode]
    /\ \A g \in GroupId :
         groups[g] \in {NoRow} \cup [resource : ResourceId, items : SUBSET UnitId]
    /\ used \subseteq ResourceId \cup UnitId \cup GroupId
    /\ \A a \in Admin :
         desk[a].pc \in {"idle", "createUnit", "updateUnit", "deleteResource", "deleteUnit",
                         "group", "createGroup"}
    /\ \A q \in Guest :
         /\ guest[q].pc \in {"new", "checked", "booked", "refused"}
         /\ guest[q].units \subseteq UnitId

Init ==
    /\ resources \in [ResourceId -> {NoRow} \cup Type]
    /\ units = [u \in UnitId |-> NoRow]
    /\ groups = [g \in GroupId |-> NoRow]
    /\ used = {}
    /\ desk = [a \in Admin |-> Idle]
    /\ guest = [q \in Guest |-> NewGuest]

Exists(table, id) == table[id] # NoRow
Free(table, id) == table[id] = NoRow /\ id \notin used
UnitsOf(r) == {u \in UnitId : Exists(units, u) /\ units[u].resource = r}
GroupsOf(r) == {g \in GroupId : Exists(groups, g) /\ groups[g].resource = r}
GroupsWith(u) == {g \in GroupId : Exists(groups, g) /\ u \in groups[g].items}

\* The reservations with rows that refer to unit u, to resource r: a cancelled one
\* keeps its rows.
BookingsOfUnit(u) == {q \in Guest : guest[q].pc = "booked" /\ u \in guest[q].units}
BookingsOf(r) == {q \in Guest : guest[q].pc = "booked" /\ guest[q].resource = r}

-----------------------------------------------------------------------------
(* Administrators *)

Done(a) == desk' = [desk EXCEPT ![a] = Idle]
Then(a, h) == /\ desk[a] = Idle
              /\ desk' = [desk EXCEPT ![a] = h]
              /\ UNCHANGED <<resources, units, groups, used, guest>>

CreateResource(a) ==
    /\ desk[a] = Idle
    /\ \E r \in ResourceId, type \in Type :
         Free(resources, r) /\ resources' = [resources EXCEPT ![r] = type]
    /\ UNCHANGED <<units, groups, used, desk, guest>>

\* The type may change whatever units and reservations there are.
UpdateResource(a) ==
    /\ desk[a] = Idle
    /\ \E r \in ResourceId, type \in Type :
         Exists(resources, r) /\ resources' = [resources EXCEPT ![r] = type]
    /\ UNCHANGED <<units, groups, used, desk, guest>>

\* validateUnitAvailabilityMode
ModeFor(type) == IF type = "ACADEMIC_SPACE" THEN "CONTINUOUS" ELSE "DISCRETE_SLOT"

\* What a request has read: resource r and unit u.
Found(pc, r, u) ==
    [pc |-> pc, resource |-> r, unit |-> u, type |-> resources[r], items |-> {}]

\* createResourceUnit, updateResourceUnit, deleteResource, deleteResourceUnit and
\* createResourceGroup start by reading the resource, the unit and the counts.
ReadResource(a) ==
    \E r \in ResourceId :
        /\ Exists(resources, r)
        /\ \/ Then(a, Found("createUnit", r, NoRow))
           \/ \E u \in UnitsOf(r) : Then(a, Found("updateUnit", r, u))
           \/ /\ UnitsOf(r) \cup GroupsOf(r) \cup BookingsOf(r) = {}
              /\ Then(a, Found("deleteResource", r, NoRow))
           \/ \E u \in UnitsOf(r) :
                /\ BookingsOfUnit(u) \cup GroupsWith(u) = {}
                /\ Then(a, Found("deleteUnit", r, u))
           \/ /\ resources[r] = "SPORTS_FACILITY"
              /\ Then(a, Found("group", r, NoRow))

\* The mode fits the type that was read; the resource must still be there.
CreateUnit(a) ==
    /\ desk[a].pc = "createUnit"
    /\ Done(a)
    /\ \/ /\ Exists(resources, desk[a].resource)
          /\ \E u \in UnitId :
               /\ Free(units, u)
               /\ units' = [units EXCEPT ![u] = [resource |-> desk[a].resource,
                                                 mode |-> ModeFor(desk[a].type)]]
       \/ ~Exists(resources, desk[a].resource) /\ UNCHANGED units
    /\ UNCHANGED <<resources, groups, used, guest>>

\* A payload with a mode has the one for the type that was read; one without is only
\* accepted if the mode of the unit was that one.
UpdateUnit(a) ==
    LET h == desk[a] IN
    /\ h.pc = "updateUnit"
    /\ Done(a)
    /\ \/ /\ Exists(units, h.unit)
          /\ units' = [units EXCEPT ![h.unit].mode = ModeFor(h.type)]
       \/ UNCHANGED units
    /\ UNCHANGED <<resources, groups, used, guest>>

Without(items) == [g \in GroupId |->
    IF Exists(groups, g) THEN [groups[g] EXCEPT !.items = @ \ items] ELSE NoRow]

\* Mutant: the rows of reservations are deleted with the unit, not kept from it.
DeleteUnitMutant(a) ==
    LET u == desk[a].unit IN
    /\ desk[a].pc = "deleteUnit"
    /\ Done(a)
    /\ IF Exists(units, u)
       THEN /\ units' = [units EXCEPT ![u] = NoRow]
            /\ groups' = Without({u})
            /\ used' = used \cup {u}
       ELSE UNCHANGED <<units, groups, used>>
    /\ UNCHANGED <<resources, guest>>

\* A row of a reservation keeps the unit.  An item of a group does not: those inserted
\* since the count go with the unit, and leave a smaller or an empty group.
DeleteUnit(a) ==
    LET u == desk[a].unit IN
    /\ desk[a].pc = "deleteUnit"
    /\ Done(a)
    /\ IF Exists(units, u) /\ BookingsOfUnit(u) = {}
       THEN /\ units' = [units EXCEPT ![u] = NoRow]
            /\ groups' = Without({u})
            /\ used' = used \cup {u}
       ELSE UNCHANGED <<units, groups, used>>
    /\ UNCHANGED <<resources, guest>>

\* The units and groups that came after the count go with the resource, unless one of
\* them is in a reservation.
DeleteResource(a) ==
    LET r == desk[a].resource IN
    /\ desk[a].pc = "deleteResource"
    /\ Done(a)
    /\ IF Exists(resources, r) /\ BookingsOf(r) = {} /\ \A u \in UnitsOf(r) : BookingsOfUnit(u) = {}
       THEN /\ resources' = [resources EXCEPT ![r] = NoRow]
            /\ units' = [u \in UnitId |-> IF u \in UnitsOf(r) THEN NoRow ELSE units[u]]
            /\ groups' = [g \in GroupId |-> IF g \in GroupsOf(r) THEN NoRow
                                            ELSE Without(UnitsOf(r))[g]]
            /\ used' = used \cup {r} \cup UnitsOf(r) \cup GroupsOf(r)
       ELSE UNCHANGED <<resources, units, groups, used>>
    /\ UNCHANGED guest

\* All of the units are found among those of the resource.
ReadGroupUnits(a) ==
    /\ desk[a].pc = "group"
    /\ \E items \in (SUBSET UnitsOf(desk[a].resource)) \ {{}} :
         desk' = [desk EXCEPT ![a] = [@ EXCEPT !.pc = "createGroup", !.items = items]]
    /\ UNCHANGED <<resources, units, groups, used, guest>>

\* A resource or unit that is gone makes the transaction fail.
CreateGroup(a) ==
    LET h == desk[a] IN
    /\ h.pc = "createGroup"
    /\ Done(a)
    /\ \/ /\ Exists(resources, h.resource) /\ \A u \in h.items : Exists(units, u)
          /\ \E g \in GroupId :
               /\ Free(groups, g)
               /\ groups' = [groups EXCEPT ![g] = [resource |-> h.resource, items |-> h.items]]
       \/ UNCHANGED groups
    /\ UNCHANGED <<resources, units, used, guest>>

-----------------------------------------------------------------------------
(* Reservations *)

\* createAcademicReservation looks at the type alone.
ReadUnit(q, u) ==
    /\ resources[units[u].resource] = "ACADEMIC_SPACE"
    /\ guest' = [guest EXCEPT ![q] = [pc |-> "checked", resource |-> units[u].resource,
                                      units |-> {u}]]

\* assertSportsReservationTarget and assertSportsReservationUnits
ReadCourts(q, r, us) ==
    /\ us # {}
    /\ resources[r] = "SPORTS_FACILITY"
    /\ \A u \in us : /\ resources[units[u].resource] = "SPORTS_FACILITY"
                     /\ units[u].mode = "DISCRETE_SLOT"
    /\ guest' = [guest EXCEPT ![q] = [pc |-> "checked", resource |-> r, units |-> us]]

Read(q) ==
    /\ guest[q].pc = "new"
    /\ \/ \E u \in UnitId :
            Exists(units, u) /\ (ReadUnit(q, u) \/ ReadCourts(q, units[u].resource, {u}))
       \/ \E g \in GroupId :
            Exists(groups, g) /\ ReadCourts(q, groups[g].resource, groups[g].items)
    /\ UNCHANGED <<resources, units, groups, used, desk>>

\* The transaction fails when a row it refers to is gone.  It may fail otherwise too,
\* as a matter of Reservation.
Insert(q) ==
    /\ guest[q].pc = "checked"
    /\ guest' = [guest EXCEPT ![q].pc =
         IF Exists(resources, guest[q].resource) /\ \A u \in guest[q].units : Exists(units, u)
         THEN "booked" ELSE "refused"]
    /\ UNCHANGED <<resources, units, groups, used, desk>>

-----------------------------------------------------------------------------
Administer(a) ==
    \/ CreateResource(a) \/ UpdateResource(a) \/ ReadResource(a)
    \/ CreateUnit(a) \/ UpdateUnit(a) \/ DeleteUnit(a) \/ DeleteResource(a)
    \/ ReadGroupUnits(a) \/ CreateGroup(a)

Next == \/ \E a \in Admin : Administer(a)
        \/ \E q \in Guest : Read(q) \/ Insert(q)

Spec == Init /\ [][Next]_vars

-----------------------------------------------------------------------------
(* Properties *)

\* Whatever is deleted between the counts and the deletion, a reservation keeps its
\* resource and its units, and all its units are of that resource.
BookingsStand ==
    \A q \in Guest : guest[q].pc = "booked" =>
        /\ Exists(resources, guest[q].resource)
        /\ \A u \in guest[q].units : u \in UnitsOf(guest[q].resource)

\* A group is of a resource there is, and the units it has are units there are, of that
\* resource.  It need not have all it was created with: DeleteUnit takes them, although
\* the handler and the page let only a unit without group bindings be deleted.
GroupsStand ==
    \A g \in GroupId : Exists(groups, g) =>
        /\ Exists(resources, groups[g].resource)
        /\ groups[g].items \subseteq UnitsOf(groups[g].resource)

\* No reservation and no group refers to a row that is gone, or to a unit of another
\* resource.  Only reservations are sure to keep what they refer to.
CatalogueStands == BookingsStand /\ GroupsStand

-----------------------------------------------------------------------------
(* For the proofs: what is assumed of the constants, and the inductive invariant *)

UnitRow == [resource : ResourceId, mode : Mode]
GroupRow == [resource : ResourceId, items : SUBSET UnitId]

\* NoRow is no row.
Assumptions == NoRow \notin Type \cup UnitRow \cup GroupRow

DeskPc == {"idle", "createUnit", "updateUnit", "deleteResource", "deleteUnit", "group",
           "createGroup"}
DeskRecord == [pc : DeskPc, resource : ResourceId \cup {NoRow}, unit : UnitId \cup {NoRow},
               type : Type \cup {NoRow}, items : SUBSET UnitId]
GuestRecord == [pc : {"new", "checked", "booked", "refused"},
                resource : ResourceId \cup {NoRow}, units : SUBSET UnitId]

Tables ==
    /\ resources \in [ResourceId -> {NoRow} \cup Type]
    /\ units \in [UnitId -> {NoRow} \cup UnitRow]
    /\ groups \in [GroupId -> {NoRow} \cup GroupRow]
    /\ used \subseteq ResourceId \cup UnitId \cup GroupId
    /\ desk \in [Admin -> DeskRecord]
    /\ guest \in [Guest -> GuestRecord]

\* A unit that was read as one of resource r still is one, or is deleted for good.
IsOrWasOf(u, r) == IF Exists(units, u) THEN units[u].resource = r ELSE u \in used

\* What an administrator's request has read.
DeskSound(h) ==
    /\ h.pc # "idle" => h.resource \in ResourceId /\ h.type \in Type
    /\ h.pc \in {"updateUnit", "deleteUnit"} => h.unit \in UnitId
    /\ h.pc = "createGroup" => \A u \in h.items : IsOrWasOf(u, h.resource)

\* What a reservation has read, or refers to.
GuestSound(g) ==
    /\ g.pc \in {"checked", "booked"} => g.resource \in ResourceId
    /\ g.pc = "checked" => \A u \in g.units : IsOrWasOf(u, g.resource)

UnitsStand == \A u \in UnitId : Exists(units, u) => Exists(resources, units[u].resource)

CatalogueInv ==
    /\ Tables
    /\ UnitsStand
    /\ GroupsStand
    /\ BookingsStand
    /\ \A a \in Admin : DeskSound(desk[a])
    /\ \A q \in Guest : GuestSound(guest[q])
=============================================================================
