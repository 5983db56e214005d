------------------------------ MODULE Desks_proofs ------------------------------
(***************************************************************************)
(* Proofs about the components of Desks, for any setting that meets their  *)
(* assumptions: what each starts with is sound, every step keeps it so,    *)
(* and what is sound has the component's properties.  They say nothing of  *)
(* time; Campus_proofs makes theorems about behaviours of them.            *)
(***************************************************************************)
EXTENDS Desks, FiniteSetTheorems, WellFoundedInduction, TLAPS

-----------------------------------------------------------------------------
(* Numbers *)

\* A set of natural numbers that is not empty has a least element.
LEMMA LeastNat ==
  ASSUME NEW T \in SUBSET Nat, T # {} PROVE \E m \in T : \A n \in T : m <= n
<1>1. PICK top \in T : TRUE
  OBVIOUS
<1> DEFINE Below(n) == 0..n
           Family == {Below(n) : n \in {k \in T : k <= top}}
<1>2. IsFiniteSet(Below(top)) /\ top \in Nat
  BY FS_Interval
<1>3. IsWellFoundedOn(StrictSubsetOrdering(Below(top)), SUBSET Below(top))
  BY <1>2, FS_StrictSubsetOrderingWellFounded, FS_FiniteSubsetsOfFinite
<1>4. Family \subseteq SUBSET Below(top) /\ Family # {}
  <2>1. \A n \in Nat : n <= top => Below(n) \subseteq Below(top)
    BY <1>2
  <2>2. Below(top) \in Family
    BY <1>2
  <2> QED
    BY <2>1, <2>2
<1>5. PICK least \in Family : \A other \in Family :
          ~(<<other, least>> \in StrictSubsetOrdering(Below(top)))
  <2> HIDE DEF Below, Family
  <2> QED
    BY <1>3, <1>4, WFMin
<1>6. PICK m \in T : m <= top /\ least = Below(m)
  BY <1>5
<1>7. ASSUME NEW n \in T, n < m PROVE FALSE
  <2>1. n \in Nat /\ m \in Nat /\ n <= top
    <3>1. n \in Nat /\ m \in Nat /\ top \in Nat /\ m <= top
      BY <1>6
    <3> QED
      BY <1>7, <3>1
  <2>2. Below(n) \in Family /\ Below(n) \subseteq Below(m)
    BY <1>7, <2>1
  <2>3. m \in Below(m) /\ m \notin Below(n)
    BY <1>7, <2>1
  <2>4. Below(n) # Below(m)
    BY <2>3
  <2> HIDE DEF Below, Family
  <2>5. <<Below(n), least>> \in StrictSubsetOrdering(Below(top))
    BY <1>4, <1>5, <1>6, <2>2, <2>4 DEF StrictSubsetOrdering
  <2> QED
    BY <1>5, <2>2, <2>5
<1>8. \A n \in T : m <= n
  BY <1>7
<1> QED
  BY <1>8

\* A set of natural numbers up to N that is not empty has a greatest element.
LEMMA GreatestUpTo ==
  ASSUME NEW N \in Nat, NEW T \in SUBSET (0..N), T # {}
  PROVE  \E m \in T : \A n \in T : n <= m
<1> DEFINE U == {N - n : n \in T}
<1>1. U \in SUBSET Nat /\ U # {}
  <2>1. \A n \in T : n \in Nat /\ N - n \in Nat
    OBVIOUS
  <2>2. PICK n \in T : TRUE
    OBVIOUS
  <2>3. N - n \in U
    BY <2>2
  <2> QED
    BY <2>1, <2>3
<1>2. PICK u \in U : \A v \in U : u <= v
  BY <1>1, LeastNat
<1>3. PICK m \in T : u = N - m
  BY <1>2
<1>4. ASSUME NEW n \in T PROVE n <= m
  <2>1. N - m <= N - n
    BY <1>2, <1>3
  <2> QED
    BY <2>1
<1> QED
  BY <1>4

-----------------------------------------------------------------------------
(* The catalogue *)

\* A row that is there has its type.
LEMMA CatalogueRows ==
  ASSUME Catalogue!Assumptions, Catalogue!Tables
  PROVE  /\ \A r \in Setting.catalogue.ResourceId : Catalogue!Exists(resources, r)
            <=> resources[r] \in Catalogue!Type
         /\ \A u \in Setting.catalogue.UnitId : Catalogue!Exists(units, u)
            <=> units[u] \in Catalogue!UnitRow
         /\ \A g \in Setting.catalogue.GroupId : Catalogue!Exists(groups, g)
            <=> groups[g] \in Catalogue!GroupRow
BY DEF Catalogue!Assumptions, Catalogue!Tables, Catalogue!Exists

\* A request of an administrator that does no more than end, or goes on.
LEMMA CatalogueDeskStep ==
  ASSUME Catalogue!Assumptions, Catalogue!CatalogueInv, NEW a \in Setting.catalogue.Admin,
         NEW h \in Catalogue!DeskRecord, Catalogue!DeskSound(h),
         desk' = [desk EXCEPT ![a] = h],
         UNCHANGED <<resources, units, groups, used, guest>>
  PROVE  Catalogue!CatalogueInv'
<1>1. Catalogue!Tables'
  BY DEF Catalogue!CatalogueInv, Catalogue!Tables
<1>2. Catalogue!UnitsStand' /\ Catalogue!GroupsStand' /\ Catalogue!BookingsStand'
  BY DEF Catalogue!CatalogueInv, Catalogue!UnitsStand, Catalogue!GroupsStand,
         Catalogue!BookingsStand, Catalogue!Exists, Catalogue!UnitsOf
<1>3. \A b \in Setting.catalogue.Admin : Catalogue!DeskSound(desk[b])'
  BY DEF Catalogue!CatalogueInv, Catalogue!Tables, Catalogue!DeskSound, Catalogue!IsOrWasOf,
         Catalogue!Exists
<1>4. \A q \in Setting.catalogue.Guest : Catalogue!GuestSound(guest[q])'
  BY DEF Catalogue!CatalogueInv, Catalogue!GuestSound, Catalogue!IsOrWasOf, Catalogue!Exists
<1> QED
  BY <1>1, <1>2, <1>3, <1>4 DEF Catalogue!CatalogueInv

\* A request that has ended refers to nothing.
LEMMA CatalogueIdleIsSound == Catalogue!Idle \in Catalogue!DeskRecord
      /\ Catalogue!DeskSound(Catalogue!Idle) /\ Catalogue!Idle.pc = "idle"
BY DEF Catalogue!Idle, Catalogue!DeskRecord, Catalogue!DeskPc, Catalogue!DeskSound

\* A step that writes rows and ends the request, if it begins with one: units that are
\* left keep their resource, and ids that are gone stay gone.
LEMMA CatalogueWriteStep ==
  ASSUME Catalogue!Assumptions, Catalogue!CatalogueInv, NEW a \in Setting.catalogue.Admin,
         desk' \in {desk, [desk EXCEPT ![a] = Catalogue!Idle]},
         guest' = guest,
         resources' \in [Setting.catalogue.ResourceId -> {None} \cup Catalogue!Type],
         units' \in [Setting.catalogue.UnitId -> {None} \cup Catalogue!UnitRow],
         groups' \in [Setting.catalogue.GroupId -> {None} \cup Catalogue!GroupRow],
         used \subseteq used',
           used' \subseteq Setting.catalogue.ResourceId \cup Setting.catalogue.UnitId
           \cup Setting.catalogue.GroupId,
         \A u \in Setting.catalogue.UnitId : Catalogue!Exists(units, u) =>
            IF Catalogue!Exists(units', u) THEN units'[u].resource = units[u].resource
              ELSE u \in used',
         \A u \in Setting.catalogue.UnitId : ~Catalogue!Exists(units, u) /\ u \in used
           => ~Catalogue!Exists(units', u),
         Catalogue!UnitsStand', Catalogue!GroupsStand', Catalogue!BookingsStand'
  PROVE  Catalogue!CatalogueInv'
<1>1. Catalogue!Tables'
  BY CatalogueIdleIsSound DEF Catalogue!CatalogueInv, Catalogue!Tables
<1>2. ASSUME NEW u \in Setting.catalogue.UnitId, NEW r, Catalogue!IsOrWasOf(u, r)
      PROVE  Catalogue!IsOrWasOf(u, r)'
  BY <1>2 DEF Catalogue!IsOrWasOf, Catalogue!Exists
<1>3. ASSUME NEW h \in Catalogue!DeskRecord, Catalogue!DeskSound(h)
      PROVE  Catalogue!DeskSound(h)'
  BY <1>2, <1>3 DEF Catalogue!DeskSound, Catalogue!DeskRecord
<1>4. \A b \in Setting.catalogue.Admin : desk'[b] \in {desk[b], Catalogue!Idle}
  BY DEF Catalogue!CatalogueInv, Catalogue!Tables
<1>5. \A b \in Setting.catalogue.Admin : Catalogue!DeskSound(desk[b])'
  <2> TAKE b \in Setting.catalogue.Admin
  <2>1. Catalogue!DeskSound(desk[b])
    BY DEF Catalogue!CatalogueInv
  <2>2. PICK h \in {desk[b], Catalogue!Idle} : h = desk'[b]
    BY <1>4
  <2>3. h \in Catalogue!DeskRecord /\ Catalogue!DeskSound(h)
    BY <2>1, CatalogueIdleIsSound DEF Catalogue!CatalogueInv, Catalogue!Tables
  <2>4. Catalogue!DeskSound(h)'
    BY <1>3, <2>3
  <2> QED
    BY <2>2, <2>4 DEF Catalogue!DeskSound, Catalogue!IsOrWasOf
<1>6. \A q \in Setting.catalogue.Guest : Catalogue!GuestSound(guest[q])'
  BY <1>2 DEF Catalogue!CatalogueInv, Catalogue!Tables, Catalogue!GuestSound, Catalogue!GuestRecord
<1> QED
  BY <1>1, <1>5, <1>6 DEF Catalogue!CatalogueInv

-----------------------------------------------------------------------------
(* The catalogue: administrators *)

\* A resource that is created or changed takes nothing away.
LEMMA CatalogueCreateResourceKeeps ==
  ASSUME Catalogue!Assumptions, Catalogue!CatalogueInv, NEW a \in Setting.catalogue.Admin,
         Catalogue!CreateResource(a) \/ Catalogue!UpdateResource(a)
  PROVE  Catalogue!CatalogueInv'
<1>1. PICK r \in Setting.catalogue.ResourceId,
         type \in Catalogue!Type : resources' = [resources EXCEPT ![r] = type]
  BY DEF Catalogue!CreateResource, Catalogue!UpdateResource
<1>2. UNCHANGED <<units, groups, used, desk, guest>>
  BY DEF Catalogue!CreateResource, Catalogue!UpdateResource
<1>3. \A s \in Setting.catalogue.ResourceId : Catalogue!Exists(resources, s)
      => Catalogue!Exists(resources', s)
  BY <1>1 DEF Catalogue!CatalogueInv, Catalogue!Tables, Catalogue!Exists, Catalogue!Assumptions
<1>4. Catalogue!UnitsStand' /\ Catalogue!GroupsStand' /\ Catalogue!BookingsStand'
  <2>1. Catalogue!UnitsStand'
    BY <1>2, <1>3, CatalogueRows
     DEF Catalogue!CatalogueInv, Catalogue!UnitsStand, Catalogue!Exists, Catalogue!UnitRow
  <2>2. Catalogue!GroupsStand'
    BY <1>2, <1>3, CatalogueRows
     DEF Catalogue!CatalogueInv, Catalogue!GroupsStand, Catalogue!Exists, Catalogue!GroupRow,
     Catalogue!UnitsOf
  <2>3. Catalogue!BookingsStand'
    BY <1>2, <1>3
     DEF Catalogue!CatalogueInv, Catalogue!BookingsStand, Catalogue!GuestSound, Catalogue!Exists,
     Catalogue!UnitsOf
  <2> QED
    BY <2>1, <2>2, <2>3
<1>5. resources' \in [Setting.catalogue.ResourceId -> {None} \cup Catalogue!Type]
  BY <1>1 DEF Catalogue!CatalogueInv, Catalogue!Tables
<1> QED
  BY <1>2, <1>4, <1>5, CatalogueWriteStep
   DEF Catalogue!CatalogueInv, Catalogue!Tables, Catalogue!Exists

\* What a request reads of a resource is of one there is.
LEMMA CatalogueReadResourceKeeps ==
  ASSUME Catalogue!Assumptions, Catalogue!CatalogueInv, NEW a \in Setting.catalogue.Admin,
         Catalogue!ReadResource(a)
  PROVE  Catalogue!CatalogueInv'
<1>1. PICK r \in Setting.catalogue.ResourceId, pc \in Catalogue!DeskPc,
         u \in Setting.catalogue.UnitId \cup {None} :
        /\ Catalogue!Exists(resources, r)
        /\ pc \in {"updateUnit", "deleteUnit"} => u \in Setting.catalogue.UnitId
        /\ pc # "createGroup"
        /\ Catalogue!Then(a, Catalogue!Found(pc, r, u))
  BY DEF Catalogue!ReadResource, Catalogue!DeskPc, Catalogue!UnitsOf
<1> DEFINE h == Catalogue!Found(pc, r, u)
<1>2. resources[r] \in Catalogue!Type
  BY <1>1, CatalogueRows DEF Catalogue!CatalogueInv
<1>3. h \in Catalogue!DeskRecord
  BY <1>2 DEF Catalogue!Found, Catalogue!DeskRecord
<1>4. Catalogue!DeskSound(h)
  BY <1>1, <1>2 DEF Catalogue!Found, Catalogue!DeskSound
<1>5. desk' = [desk EXCEPT ![a] = h] /\ UNCHANGED <<resources, units, groups, used, guest>>
  BY <1>1 DEF Catalogue!Then
<1> HIDE DEF h
<1> QED
  BY <1>3, <1>4, <1>5, CatalogueDeskStep

\* A request that ends without writing.
LEMMA CatalogueDeskEnds ==
  ASSUME Catalogue!Assumptions, Catalogue!CatalogueInv, NEW a \in Setting.catalogue.Admin,
         Catalogue!Done(a),
         UNCHANGED <<resources, units, groups, used, guest>>
  PROVE  Catalogue!CatalogueInv'
BY CatalogueIdleIsSound, CatalogueDeskStep DEF Catalogue!Done

\* A new unit is of a resource there still is.
LEMMA CatalogueCreateUnitKeeps ==
  ASSUME Catalogue!Assumptions, Catalogue!CatalogueInv, NEW a \in Setting.catalogue.Admin,
         Catalogue!CreateUnit(a)
  PROVE  Catalogue!CatalogueInv'
<1>1. CASE UNCHANGED units
  BY <1>1, CatalogueDeskEnds DEF Catalogue!CreateUnit
<1>2. CASE Catalogue!Exists(resources, desk[a].resource) /\ units' # units
  <2>1. PICK h \in Catalogue!DeskRecord : h = desk[a] /\ h.resource \in Setting.catalogue.ResourceId
    BY DEF Catalogue!CatalogueInv, Catalogue!Tables, Catalogue!DeskSound, Catalogue!CreateUnit
  <2>2. PICK v \in Setting.catalogue.UnitId :
          /\ Catalogue!Free(units, v)
          /\ units'
             = [units EXCEPT ![v] = [resource |-> h.resource, mode |-> Catalogue!ModeFor(h.type)]]
    BY <1>2, <2>1 DEF Catalogue!CreateUnit
  <2> DEFINE row == [resource |-> h.resource, mode |-> Catalogue!ModeFor(h.type)]
  <2>3. row \in Catalogue!UnitRow /\ row # None
    BY <2>1 DEF Catalogue!UnitRow, Catalogue!ModeFor, Catalogue!Mode, Catalogue!Assumptions
  <2>4. row.resource = h.resource /\ Catalogue!Exists(resources, h.resource)
    BY <1>2, <2>1
  <2> HIDE DEF row
  <2>5. units' = [units EXCEPT ![v] = row]
    BY <2>2 DEF row
  <2>6. UNCHANGED <<resources, groups, used, guest>> /\ desk' = [desk EXCEPT ![a] = Catalogue!Idle]
    BY DEF Catalogue!CreateUnit, Catalogue!Done
  <2>7. /\ units' \in [Setting.catalogue.UnitId -> {None} \cup Catalogue!UnitRow]
        /\ units'[v] = row /\ \A u \in Setting.catalogue.UnitId \ {v} : units'[u] = units[u]
    BY <2>3, <2>5 DEF Catalogue!CatalogueInv, Catalogue!Tables
  <2>8. \A u \in Setting.catalogue.UnitId : Catalogue!Exists(units, u) => units'[u] = units[u]
    BY <2>2, <2>7 DEF Catalogue!Free, Catalogue!Exists
  <2>9. Catalogue!UnitsStand'
    BY <2>4, <2>6, <2>7 DEF Catalogue!CatalogueInv, Catalogue!UnitsStand, Catalogue!Exists
  <2>10. Catalogue!GroupsStand'
    <3> SUFFICES ASSUME NEW g \in Setting.catalogue.GroupId, Catalogue!Exists(groups, g)
                 PROVE  /\ Catalogue!Exists(resources, groups[g].resource)
                        /\ groups[g].items \subseteq Catalogue!UnitsOf(groups[g].resource)'
      BY <2>6 DEF Catalogue!GroupsStand, Catalogue!UnitsOf, Catalogue!Exists
    <3> QED
      BY <2>6, <2>8
       DEF Catalogue!CatalogueInv, Catalogue!GroupsStand, Catalogue!UnitsOf, Catalogue!Exists
  <2>11. Catalogue!BookingsStand'
    BY <2>6, <2>8
     DEF Catalogue!CatalogueInv, Catalogue!BookingsStand, Catalogue!UnitsOf, Catalogue!Exists
  <2>12. \A u \in Setting.catalogue.UnitId : ~Catalogue!Exists(units, u) /\ u \in used
         => ~Catalogue!Exists(units', u)
    BY <2>2, <2>7 DEF Catalogue!Free, Catalogue!Exists
  <2> QED
    BY <2>6, <2>7, <2>8, <2>9, <2>10, <2>11, <2>12, CatalogueWriteStep
     DEF Catalogue!CatalogueInv, Catalogue!Tables, Catalogue!Exists
<1> QED
  BY <1>1, <1>2 DEF Catalogue!CreateUnit

\* A unit that is changed keeps its resource.
LEMMA CatalogueUpdateUnitKeeps ==
  ASSUME Catalogue!Assumptions, Catalogue!CatalogueInv, NEW a \in Setting.catalogue.Admin,
         Catalogue!UpdateUnit(a)
  PROVE  Catalogue!CatalogueInv'
<1>1. CASE UNCHANGED units
  BY <1>1, CatalogueDeskEnds DEF Catalogue!UpdateUnit
<1>2. CASE units' # units
  <2>1. PICK v \in Setting.catalogue.UnitId : v = desk[a].unit
    BY DEF Catalogue!CatalogueInv, Catalogue!Tables, Catalogue!DeskSound, Catalogue!UpdateUnit
  <2>2. PICK m \in Catalogue!Mode : Catalogue!Exists(units, v)
           /\ units' = [units EXCEPT ![v].mode = m]
    BY <1>2, <2>1 DEF Catalogue!UpdateUnit, Catalogue!ModeFor, Catalogue!Mode
  <2>3. units[v] \in Catalogue!UnitRow
    BY <2>2, CatalogueRows DEF Catalogue!CatalogueInv
  <2> DEFINE row == [units[v] EXCEPT !.mode = m]
  <2>4. row \in Catalogue!UnitRow /\ row.resource = units[v].resource /\ row # None
    BY <2>3 DEF Catalogue!UnitRow, Catalogue!Assumptions
  <2>5. units' = [units EXCEPT ![v] = row]
    BY <2>2
  <2> HIDE DEF row
  <2>6. UNCHANGED <<resources, groups, used, guest>> /\ desk' = [desk EXCEPT ![a] = Catalogue!Idle]
    BY DEF Catalogue!UpdateUnit, Catalogue!Done
  <2>7. units' \in [Setting.catalogue.UnitId -> {None} \cup Catalogue!UnitRow]
    BY <2>4, <2>5 DEF Catalogue!CatalogueInv, Catalogue!Tables
  <2>8. \A u \in Setting.catalogue.UnitId :
          /\ Catalogue!Exists(units', u) <=> Catalogue!Exists(units, u)
          /\ units'[u].resource = units[u].resource
    BY <2>2, <2>4, <2>5 DEF Catalogue!CatalogueInv, Catalogue!Tables, Catalogue!Exists
  <2>9. Catalogue!UnitsStand'
    BY <2>6, <2>8 DEF Catalogue!CatalogueInv, Catalogue!UnitsStand, Catalogue!Exists
  <2>10. \A r : Catalogue!UnitsOf(r)' = Catalogue!UnitsOf(r)
    BY <2>8 DEF Catalogue!UnitsOf, Catalogue!Exists
  <2>11. Catalogue!GroupsStand' /\ Catalogue!BookingsStand'
    BY <2>6, <2>10
     DEF Catalogue!CatalogueInv, Catalogue!GroupsStand, Catalogue!BookingsStand, Catalogue!Exists
  <2> QED
    BY <2>6, <2>7, <2>8, <2>9, <2>11, CatalogueWriteStep
     DEF Catalogue!CatalogueInv, Catalogue!Tables
<1> QED
  BY <1>1, <1>2

\* What the deletion of some units, which no booking has, leaves of the groups.
LEMMA CatalogueWithoutRows ==
  ASSUME Catalogue!Assumptions, Catalogue!CatalogueInv, NEW V \in SUBSET Setting.catalogue.UnitId
  PROVE  /\ Catalogue!Without(V) \in [Setting.catalogue.GroupId -> {None} \cup Catalogue!GroupRow]
         /\ \A g \in Setting.catalogue.GroupId :
              /\ Catalogue!Without(V)[g] # None <=> Catalogue!Exists(groups, g)
              /\ Catalogue!Exists(groups, g) =>
                   /\ Catalogue!Without(V)[g].resource = groups[g].resource
                   /\ Catalogue!Without(V)[g].items = groups[g].items \ V
<1>1. ASSUME NEW g \in Setting.catalogue.GroupId, Catalogue!Exists(groups, g)
      PROVE  /\ Catalogue!Without(V)[g] \in Catalogue!GroupRow
             /\ Catalogue!Without(V)[g].resource = groups[g].resource
             /\ Catalogue!Without(V)[g].items = groups[g].items \ V
  <2>1. groups[g] \in Catalogue!GroupRow
    BY <1>1, CatalogueRows DEF Catalogue!CatalogueInv
  <2>2. Catalogue!Without(V)[g] = [groups[g] EXCEPT !.items = @ \ V]
    BY <1>1 DEF Catalogue!Without
  <2> QED
    BY <2>1, <2>2 DEF Catalogue!GroupRow
<1>2. \A g \in Setting.catalogue.GroupId : ~Catalogue!Exists(groups, g)
      => Catalogue!Without(V)[g] = None
  BY DEF Catalogue!Without
<1>3. Catalogue!Without(V) = [g \in Setting.catalogue.GroupId |-> Catalogue!Without(V)[g]]
  BY DEF Catalogue!Without
<1>4. None \notin Catalogue!GroupRow
  BY DEF Catalogue!Assumptions
<1> QED
  BY <1>1, <1>2, <1>3, <1>4

\* A unit that no reservation has leaves its groups with it.
LEMMA CatalogueDeleteUnitKeeps ==
  ASSUME Catalogue!Assumptions, Catalogue!CatalogueInv, NEW a \in Setting.catalogue.Admin,
         Catalogue!DeleteUnit(a)
  PROVE  Catalogue!CatalogueInv'
<1>1. PICK v \in Setting.catalogue.UnitId : v = desk[a].unit
  BY DEF Catalogue!CatalogueInv, Catalogue!Tables, Catalogue!DeskSound, Catalogue!DeleteUnit
<1>2. CASE ~(Catalogue!Exists(units, v) /\ Catalogue!BookingsOfUnit(v) = {})
  BY <1>1, <1>2, CatalogueDeskEnds DEF Catalogue!DeleteUnit
<1>3. CASE Catalogue!Exists(units, v) /\ Catalogue!BookingsOfUnit(v) = {}
  <2>1. /\ units' = [units EXCEPT ![v] = None]
        /\ groups' = Catalogue!Without({v})
        /\ used' = used \cup {v}
        /\ UNCHANGED <<resources, guest>> /\ desk' = [desk EXCEPT ![a] = Catalogue!Idle]
    BY <1>1, <1>3 DEF Catalogue!DeleteUnit, Catalogue!Done
  <2>2. /\ units' \in [Setting.catalogue.UnitId -> {None} \cup Catalogue!UnitRow]
        /\ units'[v] = None /\ \A u \in Setting.catalogue.UnitId \ {v} : units'[u] = units[u]
    BY <2>1 DEF Catalogue!CatalogueInv, Catalogue!Tables
  <2>3. \A r : Catalogue!UnitsOf(r)' = Catalogue!UnitsOf(r) \ {v}
    BY <2>2 DEF Catalogue!UnitsOf, Catalogue!Exists
  <2>4. Catalogue!UnitsStand'
    BY <2>1, <2>2 DEF Catalogue!CatalogueInv, Catalogue!UnitsStand, Catalogue!Exists
  <2>5. groups' \in [Setting.catalogue.GroupId -> {None} \cup Catalogue!GroupRow]
    BY <2>1, CatalogueWithoutRows
  <2>6. Catalogue!GroupsStand'
    <3> SUFFICES ASSUME NEW g \in Setting.catalogue.GroupId, Catalogue!Exists(groups', g)
                 PROVE  /\ Catalogue!Exists(resources, groups'[g].resource)
                        /\ groups'[g].items \subseteq Catalogue!UnitsOf(groups'[g].resource) \ {v}
      BY <2>1, <2>3 DEF Catalogue!GroupsStand, Catalogue!Exists
    <3>1. /\ Catalogue!Exists(groups, g)
          /\ groups'[g].resource = groups[g].resource
          /\ groups'[g].items = groups[g].items \ {v}
      BY <2>1, CatalogueWithoutRows DEF Catalogue!Exists
    <3> QED
      BY <3>1 DEF Catalogue!CatalogueInv, Catalogue!GroupsStand
  <2>7. Catalogue!BookingsStand'
    <3> SUFFICES ASSUME NEW q \in Setting.catalogue.Guest, guest[q].pc = "booked"
                 PROVE  /\ Catalogue!Exists(resources, guest[q].resource)
                        /\ \A u \in guest[q].units : u
                           \in Catalogue!UnitsOf(guest[q].resource) \ {v}
      BY <2>1, <2>3 DEF Catalogue!BookingsStand, Catalogue!Exists
    <3>1. v \notin guest[q].units
      BY <1>3 DEF Catalogue!BookingsOfUnit
    <3> QED
      BY <3>1 DEF Catalogue!CatalogueInv, Catalogue!BookingsStand
  <2>8. used' \subseteq Setting.catalogue.ResourceId \cup Setting.catalogue.UnitId
        \cup Setting.catalogue.GroupId /\ used \subseteq used'
    BY <2>1 DEF Catalogue!CatalogueInv, Catalogue!Tables
  <2>9. resources' \in [Setting.catalogue.ResourceId -> {None} \cup Catalogue!Type]
    BY <2>1 DEF Catalogue!CatalogueInv, Catalogue!Tables
  <2>10. \A u \in Setting.catalogue.UnitId :
           /\ Catalogue!Exists(units, u) =>
                IF Catalogue!Exists(units', u) THEN units'[u].resource = units[u].resource
                  ELSE u \in used'
           /\ ~Catalogue!Exists(units, u) => ~Catalogue!Exists(units', u)
    BY <2>1, <2>2 DEF Catalogue!Exists
  <2> QED
    BY <2>1, <2>2, <2>4, <2>5, <2>6, <2>7, <2>8, <2>9, <2>10, CatalogueWriteStep
<1> QED
  BY <1>2, <1>3

\* A resource without reservations goes with its units and groups.
LEMMA CatalogueDeleteResourceKeeps ==
  ASSUME Catalogue!Assumptions, Catalogue!CatalogueInv, NEW a \in Setting.catalogue.Admin,
         Catalogue!DeleteResource(a)
  PROVE  Catalogue!CatalogueInv'
<1>1. PICK r \in Setting.catalogue.ResourceId : r = desk[a].resource
  BY DEF Catalogue!CatalogueInv, Catalogue!Tables, Catalogue!DeskSound, Catalogue!DeleteResource
<1> DEFINE Deletable(x) == /\ Catalogue!Exists(resources, x) /\ Catalogue!BookingsOf(x) = {}
                       /\ \A u \in Catalogue!UnitsOf(x) : Catalogue!BookingsOfUnit(u) = {}
<1>2. CASE ~Deletable(r)
  BY <1>1, <1>2, CatalogueDeskEnds DEF Catalogue!DeleteResource
<1>3. CASE Deletable(r)
  <2>1. PICK V \in SUBSET Setting.catalogue.UnitId : V = Catalogue!UnitsOf(r)
    BY DEF Catalogue!UnitsOf
  <2>2. PICK G \in SUBSET Setting.catalogue.GroupId : G = Catalogue!GroupsOf(r)
    BY DEF Catalogue!GroupsOf
  <2>3. /\ resources' = [resources EXCEPT ![r] = None]
        /\ units' = [u \in Setting.catalogue.UnitId |-> IF u \in V THEN None ELSE units[u]]
        /\ groups'
           = [g \in Setting.catalogue.GroupId |-> IF g \in G THEN None ELSE Catalogue!Without(V)[g]]
        /\ used' = used \cup {r} \cup V \cup G
        /\ UNCHANGED guest /\ desk' = [desk EXCEPT ![a] = Catalogue!Idle]
    BY <1>1, <1>3, <2>1, <2>2 DEF Catalogue!DeleteResource, Catalogue!Done
  <2>4. /\ units' \in [Setting.catalogue.UnitId -> {None} \cup Catalogue!UnitRow]
        /\ \A u \in V : units'[u] = None
        /\ \A u \in Setting.catalogue.UnitId \ V : units'[u] = units[u]
    BY <2>3 DEF Catalogue!CatalogueInv, Catalogue!Tables
  <2>5. /\ resources' \in [Setting.catalogue.ResourceId -> {None} \cup Catalogue!Type]
        /\ \A s \in Setting.catalogue.ResourceId \ {r} : resources'[s] = resources[s]
    BY <2>3 DEF Catalogue!CatalogueInv, Catalogue!Tables
  <2>6. /\ groups' \in [Setting.catalogue.GroupId -> {None} \cup Catalogue!GroupRow]
        /\ \A g \in Setting.catalogue.GroupId : groups'[g] # None =>
             /\ g \notin G /\ Catalogue!Exists(groups, g)
             /\ groups'[g].resource = groups[g].resource
             /\ groups'[g].items = groups[g].items \ V
    BY <2>3, CatalogueWithoutRows
  <2>7. \A u \in Setting.catalogue.UnitId : Catalogue!Exists(units', u)
        <=> Catalogue!Exists(units, u) /\ u \notin V
    BY <2>4 DEF Catalogue!Exists
  <2>8. \A s \in Setting.catalogue.ResourceId : s # r
        => Catalogue!UnitsOf(s)' = Catalogue!UnitsOf(s)
    BY <2>1, <2>4, <2>7 DEF Catalogue!UnitsOf
  <2>9. Catalogue!UnitsStand'
    <3> SUFFICES ASSUME NEW u \in Setting.catalogue.UnitId, Catalogue!Exists(units', u)
                 PROVE  Catalogue!Exists(resources', units'[u].resource)
      BY DEF Catalogue!UnitsStand, Catalogue!Exists
    <3>1. Catalogue!Exists(units, u) /\ u \notin V /\ units'[u] = units[u]
      BY <2>4, <2>7
    <3>2. units[u].resource # r /\ Catalogue!Exists(resources, units[u].resource)
      BY <2>1, <3>1 DEF Catalogue!UnitsOf, Catalogue!CatalogueInv, Catalogue!UnitsStand
    <3>3. units[u].resource \in Setting.catalogue.ResourceId
      BY <3>1, CatalogueRows DEF Catalogue!CatalogueInv, Catalogue!UnitRow
    <3> QED
      BY <2>5, <3>1, <3>2, <3>3 DEF Catalogue!Exists
  <2>10. Catalogue!GroupsStand'
    <3> SUFFICES ASSUME NEW g \in Setting.catalogue.GroupId, groups'[g] # None
                 PROVE  /\ resources'[groups'[g].resource] # None
                        /\ \A u \in groups'[g].items : /\ u \in Setting.catalogue.UnitId
                           /\ units'[u] # None
                                                      /\ units'[u].resource = groups'[g].resource
      BY DEF Catalogue!GroupsStand, Catalogue!Exists, Catalogue!UnitsOf
    <3>1. PICK s \in Setting.catalogue.ResourceId : s = groups[g].resource
      BY <2>6, CatalogueRows DEF Catalogue!CatalogueInv, Catalogue!GroupRow
    <3>2. s # r /\ Catalogue!Exists(resources, s) /\ groups[g].items \subseteq Catalogue!UnitsOf(s)
      BY <2>2, <2>6, <3>1 DEF Catalogue!GroupsOf, Catalogue!CatalogueInv, Catalogue!GroupsStand
    <3>3. groups'[g].resource = s /\ groups'[g].items \subseteq Catalogue!UnitsOf(s)
      BY <2>6, <3>1, <3>2
    <3>4. Catalogue!UnitsOf(s) \subseteq {u \in Setting.catalogue.UnitId : units'[u] # None
          /\ units'[u].resource = s}
      BY <2>8, <3>2 DEF Catalogue!UnitsOf, Catalogue!Exists
    <3>5. resources'[s] # None
      BY <2>5, <3>2 DEF Catalogue!Exists
    <3> QED
      BY <3>3, <3>4, <3>5
  <2>11. Catalogue!BookingsStand'
    <3> SUFFICES ASSUME NEW q \in Setting.catalogue.Guest, guest[q].pc = "booked"
                 PROVE  /\ resources'[guest[q].resource] # None
                        /\ \A u \in guest[q].units : /\ u \in Setting.catalogue.UnitId
                           /\ units'[u] # None
                                                     /\ units'[u].resource = guest[q].resource
      BY <2>3 DEF Catalogue!BookingsStand, Catalogue!Exists, Catalogue!UnitsOf
    <3>1. PICK s \in Setting.catalogue.ResourceId : s = guest[q].resource
      BY DEF Catalogue!CatalogueInv, Catalogue!GuestSound
    <3>2. s # r
      BY <1>3, <3>1 DEF Catalogue!BookingsOf
    <3>3. Catalogue!Exists(resources', s) /\ \A u \in guest[q].units : u \in Catalogue!UnitsOf(s)
      BY <2>5, <3>1, <3>2 DEF Catalogue!CatalogueInv, Catalogue!BookingsStand, Catalogue!Exists
    <3>4. Catalogue!UnitsOf(s) \subseteq {u \in Setting.catalogue.UnitId : units'[u] # None
          /\ units'[u].resource = s}
      BY <2>8, <3>2 DEF Catalogue!UnitsOf, Catalogue!Exists
    <3> QED
      BY <3>1, <3>3, <3>4 DEF Catalogue!Exists
  <2>12. used' \subseteq Setting.catalogue.ResourceId \cup Setting.catalogue.UnitId
         \cup Setting.catalogue.GroupId /\ used \subseteq used'
    BY <2>3 DEF Catalogue!CatalogueInv, Catalogue!Tables
  <2>13. \A u \in Setting.catalogue.UnitId :
           /\ Catalogue!Exists(units, u) =>
                IF Catalogue!Exists(units', u) THEN units'[u].resource = units[u].resource
                  ELSE u \in used'
           /\ ~Catalogue!Exists(units, u) => ~Catalogue!Exists(units', u)
    BY <2>3, <2>4, <2>7
  <2> QED
    BY <2>3, <2>4, <2>5, <2>6, <2>9, <2>10, <2>11, <2>12, <2>13, CatalogueWriteStep
<1> QED
  BY <1>2, <1>3

\* The units that a group is made of are of its resource when they are read,
LEMMA CatalogueReadGroupUnitsKeeps ==
  ASSUME Catalogue!Assumptions, Catalogue!CatalogueInv, NEW a \in Setting.catalogue.Admin,
         Catalogue!ReadGroupUnits(a)
  PROVE  Catalogue!CatalogueInv'
<1>1. PICK items \in SUBSET Catalogue!UnitsOf(desk[a].resource) :
        desk' = [desk EXCEPT ![a] = [@ EXCEPT !.pc = "createGroup", !.items = items]]
  BY DEF Catalogue!ReadGroupUnits
<1> DEFINE h == [desk[a] EXCEPT !.pc = "createGroup", !.items = items]
<1>2. desk[a] \in Catalogue!DeskRecord /\ desk[a].pc = "group" /\ Catalogue!DeskSound(desk[a])
  BY DEF Catalogue!CatalogueInv, Catalogue!Tables, Catalogue!ReadGroupUnits
<1>3. h \in Catalogue!DeskRecord /\ h.pc = "createGroup" /\ h.items = items
      /\ h.resource = desk[a].resource /\ h.type = desk[a].type
  BY <1>1, <1>2 DEF Catalogue!DeskRecord, Catalogue!DeskPc, Catalogue!UnitsOf
<1>4. \A u \in items : Catalogue!IsOrWasOf(u, desk[a].resource)
  BY <1>1 DEF Catalogue!UnitsOf, Catalogue!IsOrWasOf
<1>5. Catalogue!DeskSound(h)
  <2> HIDE DEF h
  <2> QED
    BY <1>2, <1>3, <1>4 DEF Catalogue!DeskSound
<1>6. desk' = [desk EXCEPT ![a] = h] /\ UNCHANGED <<resources, units, groups, used, guest>>
  BY <1>1 DEF Catalogue!CatalogueInv, Catalogue!Tables, Catalogue!ReadGroupUnits
<1> HIDE DEF h
<1> QED
  BY <1>3, <1>5, <1>6, CatalogueDeskStep

\* and those still there when it is inserted still are.
LEMMA CatalogueCreateGroupKeeps ==
  ASSUME Catalogue!Assumptions, Catalogue!CatalogueInv, NEW a \in Setting.catalogue.Admin,
         Catalogue!CreateGroup(a)
  PROVE  Catalogue!CatalogueInv'
<1>1. CASE UNCHANGED groups
  BY <1>1, CatalogueDeskEnds DEF Catalogue!CreateGroup
<1>2. CASE groups' # groups
  <2>1. PICK r \in Setting.catalogue.ResourceId, items \in SUBSET Setting.catalogue.UnitId :
          r = desk[a].resource /\ items = desk[a].items
    BY DEF Catalogue!CatalogueInv, Catalogue!Tables, Catalogue!DeskSound, Catalogue!CreateGroup,
           Catalogue!DeskRecord
  <2>2. PICK g \in Setting.catalogue.GroupId : groups'
           = [groups EXCEPT ![g] = [resource |-> r, items |-> items]]
    BY <1>2, <2>1 DEF Catalogue!CreateGroup
  <2>3. Catalogue!Exists(resources, r) /\ \A u \in items : Catalogue!Exists(units, u)
    BY <1>2, <2>1 DEF Catalogue!CreateGroup
  <2>4. items \subseteq Catalogue!UnitsOf(r)
    BY <2>1, <2>3
     DEF Catalogue!CatalogueInv, Catalogue!DeskSound, Catalogue!CreateGroup, Catalogue!IsOrWasOf,
     Catalogue!UnitsOf
  <2>5. UNCHANGED <<resources, units, used, guest>> /\ desk' = [desk EXCEPT ![a] = Catalogue!Idle]
    BY DEF Catalogue!CreateGroup, Catalogue!Done
  <2>6. /\ groups' \in [Setting.catalogue.GroupId -> {None} \cup Catalogue!GroupRow]
        /\ groups'[g].resource = r /\ groups'[g].items = items
        /\ \A k \in Setting.catalogue.GroupId \ {g} : groups'[k] = groups[k]
    BY <2>2 DEF Catalogue!CatalogueInv, Catalogue!Tables, Catalogue!GroupRow
  <2>7. Catalogue!GroupsStand'
    BY <2>3, <2>4, <2>5, <2>6
     DEF Catalogue!CatalogueInv, Catalogue!GroupsStand, Catalogue!Exists, Catalogue!UnitsOf
  <2>8. Catalogue!UnitsStand' /\ Catalogue!BookingsStand'
    BY <2>5 DEF Catalogue!CatalogueInv, Catalogue!UnitsStand, Catalogue!BookingsStand,
       Catalogue!Exists, Catalogue!UnitsOf
  <2> QED
    BY <2>5, <2>6, <2>7, <2>8, CatalogueWriteStep
     DEF Catalogue!CatalogueInv, Catalogue!Tables, Catalogue!Exists
<1> QED
  BY <1>1, <1>2

-----------------------------------------------------------------------------
(* The catalogue: reservations *)

\* A step of a reservation that has read sound rows, or has them when it books.
LEMMA CatalogueGuestStep ==
  ASSUME Catalogue!Assumptions, Catalogue!CatalogueInv, NEW q \in Setting.catalogue.Guest,
         NEW g \in Catalogue!GuestRecord, Catalogue!GuestSound(g),
         g.pc = "booked" => /\ Catalogue!Exists(resources, g.resource)
                            /\ \A u \in g.units : u \in Catalogue!UnitsOf(g.resource),
         guest' = [guest EXCEPT ![q] = g],
         UNCHANGED <<resources, units, groups, used, desk>>
  PROVE  Catalogue!CatalogueInv'
<1>1. Catalogue!Tables'
  BY DEF Catalogue!CatalogueInv, Catalogue!Tables
<1>2. Catalogue!UnitsStand' /\ Catalogue!GroupsStand'
  BY DEF Catalogue!CatalogueInv, Catalogue!UnitsStand, Catalogue!GroupsStand, Catalogue!Exists,
         Catalogue!UnitsOf
<1>3. Catalogue!BookingsStand'
  BY DEF Catalogue!CatalogueInv, Catalogue!Tables, Catalogue!BookingsStand, Catalogue!Exists,
         Catalogue!UnitsOf
<1>4. \A b \in Setting.catalogue.Admin : Catalogue!DeskSound(desk[b])'
  BY DEF Catalogue!CatalogueInv, Catalogue!DeskSound, Catalogue!IsOrWasOf, Catalogue!Exists
<1>5. \A p \in Setting.catalogue.Guest : Catalogue!GuestSound(guest[p])'
  BY DEF Catalogue!CatalogueInv, Catalogue!Tables, Catalogue!GuestSound, Catalogue!IsOrWasOf,
         Catalogue!Exists
<1> QED
  BY <1>1, <1>2, <1>3, <1>4, <1>5 DEF Catalogue!CatalogueInv

\* A reservation reads units of one resource,
LEMMA CatalogueReadKeeps ==
  ASSUME Catalogue!Assumptions, Catalogue!CatalogueInv, NEW q \in Setting.catalogue.Guest,
         Catalogue!Read(q)
  PROVE  Catalogue!CatalogueInv'
<1>1. PICK r, us :
        /\ guest' = [guest EXCEPT ![q] = [pc |-> "checked", resource |-> r, units |-> us]]
        /\ \/ \E u \in Setting.catalogue.UnitId : Catalogue!Exists(units, u)
              /\ r = units[u].resource /\ us = {u}
           \/ \E g \in Setting.catalogue.GroupId : Catalogue!Exists(groups, g)
              /\ r = groups[g].resource
                                 /\ us = groups[g].items
  BY DEF Catalogue!Read, Catalogue!ReadUnit, Catalogue!ReadCourts
<1>2. r \in Setting.catalogue.ResourceId /\ us \subseteq Catalogue!UnitsOf(r)
  <2>1. CASE \E u \in Setting.catalogue.UnitId : Catalogue!Exists(units, u)
           /\ r = units[u].resource /\ us = {u}
    BY <2>1, CatalogueRows DEF Catalogue!CatalogueInv, Catalogue!UnitRow, Catalogue!UnitsOf
  <2>2. CASE \E g \in Setting.catalogue.GroupId : Catalogue!Exists(groups, g)
           /\ r = groups[g].resource
                               /\ us = groups[g].items
    BY <2>2, CatalogueRows DEF Catalogue!CatalogueInv, Catalogue!GroupsStand, Catalogue!GroupRow
  <2> QED
    BY <1>1, <2>1, <2>2
<1> DEFINE g == [pc |-> "checked", resource |-> r, units |-> us]
<1>3. g \in Catalogue!GuestRecord
  BY <1>2 DEF Catalogue!GuestRecord, Catalogue!UnitsOf
<1>4. Catalogue!GuestSound(g) /\ g.pc # "booked"
  BY <1>2 DEF Catalogue!GuestSound, Catalogue!UnitsOf, Catalogue!IsOrWasOf
<1>5. guest' = [guest EXCEPT ![q] = g] /\ UNCHANGED <<resources, units, groups, used, desk>>
  BY <1>1 DEF Catalogue!Read
<1> HIDE DEF g
<1> QED
  BY <1>3, <1>4, <1>5, CatalogueGuestStep

\* and is inserted only while all of them are there.
LEMMA CatalogueInsertKeeps ==
  ASSUME Catalogue!Assumptions, Catalogue!CatalogueInv, NEW q \in Setting.catalogue.Guest,
         Catalogue!Insert(q)
  PROVE  Catalogue!CatalogueInv'
<1>1. PICK pc \in {"booked", "refused"} :
        /\ guest' = [guest EXCEPT ![q].pc = pc]
        /\ pc = "booked" => /\ Catalogue!Exists(resources, guest[q].resource)
                            /\ \A u \in guest[q].units : Catalogue!Exists(units, u)
  BY DEF Catalogue!Insert
<1> DEFINE g == [guest[q] EXCEPT !.pc = pc]
<1>2. guest[q] \in Catalogue!GuestRecord /\ guest[q].pc = "checked"
      /\ Catalogue!GuestSound(guest[q])
  BY DEF Catalogue!CatalogueInv, Catalogue!Tables, Catalogue!Insert
<1>3. /\ g \in Catalogue!GuestRecord /\ g.pc = pc
      /\ g.resource = guest[q].resource /\ g.units = guest[q].units
  BY <1>2 DEF Catalogue!GuestRecord
<1>4. guest' = [guest EXCEPT ![q] = g] /\ UNCHANGED <<resources, units, groups, used, desk>>
  BY <1>1 DEF Catalogue!Insert, Catalogue!CatalogueInv, Catalogue!Tables
<1> HIDE DEF g
<1>5. Catalogue!GuestSound(g)
  BY <1>2, <1>3 DEF Catalogue!GuestSound
<1>6. pc = "booked" => \A u \in g.units : u \in Catalogue!UnitsOf(g.resource)
  BY <1>1, <1>2, <1>3
   DEF Catalogue!GuestSound, Catalogue!GuestRecord, Catalogue!IsOrWasOf, Catalogue!UnitsOf
<1> QED
  BY <1>1, <1>3, <1>4, <1>5, <1>6, CatalogueGuestStep

-----------------------------------------------------------------------------
(* The catalogue: all steps *)

\* The catalogue starts sound,
LEMMA CatalogueInitSound ==
  ASSUME Catalogue!Init
  PROVE  Catalogue!CatalogueInv
<1>1. Catalogue!Tables
  BY CatalogueIdleIsSound
   DEF Catalogue!Init, Catalogue!Tables, Catalogue!NewGuest, Catalogue!GuestRecord
<1>2. Catalogue!UnitsStand /\ Catalogue!GroupsStand
  BY DEF Catalogue!Init, Catalogue!UnitsStand, Catalogue!GroupsStand, Catalogue!Exists
<1>3. Catalogue!BookingsStand /\ \A q \in Setting.catalogue.Guest : Catalogue!GuestSound(guest[q])
  BY DEF Catalogue!Init, Catalogue!BookingsStand, Catalogue!NewGuest, Catalogue!GuestSound
<1>4. \A a \in Setting.catalogue.Admin : Catalogue!DeskSound(desk[a])
  BY CatalogueIdleIsSound DEF Catalogue!Init
<1> QED
  BY <1>1, <1>2, <1>3, <1>4 DEF Catalogue!CatalogueInv

\* and every step keeps it so.
LEMMA CatalogueNextSound ==
  ASSUME Catalogue!Assumptions, Catalogue!CatalogueInv, [Catalogue!Next]_(Catalogue!vars)
  PROVE  Catalogue!CatalogueInv'
<1>1. ASSUME NEW a \in Setting.catalogue.Admin, Catalogue!Administer(a)
      PROVE  Catalogue!CatalogueInv'
  BY <1>1, CatalogueCreateResourceKeeps, CatalogueReadResourceKeeps, CatalogueCreateUnitKeeps,
     CatalogueUpdateUnitKeeps,
     CatalogueDeleteUnitKeeps, CatalogueDeleteResourceKeeps, CatalogueReadGroupUnitsKeeps,
       CatalogueCreateGroupKeeps
  DEF Catalogue!Administer
<1>2. ASSUME NEW q \in Setting.catalogue.Guest, Catalogue!Read(q) \/ Catalogue!Insert(q)
      PROVE  Catalogue!CatalogueInv'
  BY <1>2, CatalogueReadKeeps, CatalogueInsertKeeps
<1>3. CASE UNCHANGED Catalogue!vars
  BY <1>3 DEF Catalogue!vars, Catalogue!CatalogueInv, Catalogue!Tables, Catalogue!UnitsStand,
     Catalogue!GroupsStand, Catalogue!BookingsStand, Catalogue!DeskSound,
              Catalogue!GuestSound, Catalogue!IsOrWasOf, Catalogue!Exists, Catalogue!UnitsOf
<1> QED
  BY <1>1, <1>2, <1>3 DEF Catalogue!Next

\* The invariant has the types.
LEMMA CatalogueTypes == Catalogue!CatalogueInv => Catalogue!TypeOK
BY DEF Catalogue!CatalogueInv, Catalogue!Tables, Catalogue!TypeOK, Catalogue!UnitRow,
       Catalogue!GroupRow, Catalogue!DeskRecord, Catalogue!DeskPc, Catalogue!GuestRecord

-----------------------------------------------------------------------------
(* Activities *)

\* The instance's finite sets and cardinalities are the ones that are known.
LEMMA ActivityCounts ==
  ASSUME NEW at, NEW S
  PROVE  /\ Activities(at)!IsFiniteSet(S) <=> IsFiniteSet(S)
         /\ Activities(at)!Cardinality(S) = Cardinality(S)
<1>1. Activities(at)!IsFiniteSet(S) <=> IsFiniteSet(S)
  BY DEF Activities!IsFiniteSet, IsFiniteSet
<1>2. Activities(at)!Cardinality(S) = Cardinality(S)
  BY DEF Activities!Cardinality, Cardinality
<1> QED
  BY <1>1, <1>2

\* The tickets are finitely many, and so are their places.
LEMMA ActivityPlacesOfTickets ==
  ASSUME NEW at, Activities(at)!Assumptions,
         NEW f \in [Setting[at].TicketId -> Activities(at)!TicketRecord],
         NEW S \in SUBSET Setting[at].TicketId
  PROVE  IsFiniteSet(UNION {{t} \X (1..f[t].stock) : t \in S})
<1> DEFINE P(t) == {t} \X (1..f[t].stock)
           g == [t \in S |-> P(t)]
<1>1. IsFiniteSet(S)
  BY FS_Subset, ActivityCounts DEF Activities!Assumptions
<1>2. IsFiniteSet({P(t) : t \in S})
  <2> HIDE DEF P
  <2>1. g \in Surjection(S, {P(t) : t \in S})
    BY DEF Surjection
  <2> HIDE DEF g
  <2> QED
    BY <1>1, <2>1, FS_Surjection
<1>3. ASSUME NEW t \in S PROVE IsFiniteSet(P(t))
  <2>1. f[t].stock \in Int /\ 1 \in Int
    BY DEF Activities!TicketRecord
  <2>2. IsFiniteSet(1..f[t].stock)
    BY <2>1, FS_Interval
  <2>3. IsFiniteSet({t})
    BY FS_Singleton
  <2> QED
    BY <2>2, <2>3, FS_Product
<1> QED
  <2> HIDE DEF P, g
  <2>1. IsFiniteSet(UNION {P(t) : t \in S})
    BY <1>2, <1>3, FS_UNION
  <2> QED
    BY <2>1 DEF P

\* Places are finitely many, and what they add up to is a number.
LEMMA ActivityPlacesAreFinite ==
  ASSUME NEW at, Activities(at)!Assumptions, NEW a, NEW b
  PROVE  /\ Activities(at)!RowsSound
            => IsFiniteSet(Activities(at)!Places(a, b)) /\ Activities(at)!StockOf(a, b) \in Nat
         /\ Activities(at)!RowsSound'
            => IsFiniteSet(Activities(at)!Places(a, b)') /\ Activities(at)!StockOf(a, b)' \in Nat
<1>1. ASSUME Activities(at)!RowsSound PROVE IsFiniteSet(Activities(at)!Places(a, b))
  BY <1>1, ActivityPlacesOfTickets DEF Activities!RowsSound, Activities!Places
<1>2. ASSUME Activities(at)!RowsSound' PROVE IsFiniteSet(Activities(at)!Places(a, b)')
  BY <1>2, ActivityPlacesOfTickets DEF Activities!RowsSound, Activities!Places
<1> QED
  BY <1>1, <1>2, FS_CardinalityType, ActivityCounts DEF Activities!StockOf

\* The stock is a matter of the tickets alone.
LEMMA ActivityStockIsSame ==
  ASSUME NEW at, NEW a, NEW b, UNCHANGED tickets
  PROVE  Activities(at)!StockOf(a, b)' = Activities(at)!StockOf(a, b)
BY DEF Activities!StockOf, Activities!Places

\* What is seen and stays of the tickets, committed or not, is still counted.
LEMMA ActivityStockStays ==
  ASSUME NEW at, Activities(at)!Assumptions, Activities(at)!RowsSound, Activities(at)!RowsSound',
         NEW a, NEW b, NEW c,
         \A t \in Setting[at].TicketId : tickets[t].activity = a /\ tickets[t].tx \in {None, b} =>
            /\ tickets'[t].activity = a /\ tickets'[t].stock = tickets[t].stock
            /\ tickets'[t].tx \in {None, c}
  PROVE  Activities(at)!StockOf(a, b) <= Activities(at)!StockOf(a, c)'
<1>1. Activities(at)!Places(a, b) \subseteq Activities(at)!Places(a, c)'
  BY DEF Activities!Places
<1>2. IsFiniteSet(Activities(at)!Places(a, c)')
  BY ActivityPlacesAreFinite
<1> QED
  BY <1>1, <1>2, FS_Subset, ActivityCounts DEF Activities!StockOf

\* A ticket that has been committed is counted.
LEMMA ActivityTicketCounts ==
  ASSUME NEW at, Activities(at)!Assumptions, Activities(at)!RowsSound',
         NEW t \in Setting[at].TicketId, NEW a, NEW n,
         tickets'[t] = [activity |-> a, stock |-> n, tx |-> None]
  PROVE  n <= Activities(at)!StockOf(a, None)'
<1>1. n \in Int /\ n \in Nat /\ 1 \in Int
  BY DEF Activities!RowsSound, Activities!TicketRecord
<1>2. {t} \X (1..n) \subseteq Activities(at)!Places(a, None)'
  <2> DEFINE S == {u \in Setting[at].TicketId : tickets'[u].activity = a
           /\ tickets'[u].tx \in {None, None}}
  <2>1. t \in S
    OBVIOUS
  <2>2. Activities(at)!Places(a, None)' = UNION {{u} \X (1..tickets'[u].stock) : u \in S}
    BY DEF Activities!Places
  <2> HIDE DEF S
  <2> QED
    BY <2>1, <2>2
<1>3. IsFiniteSet({t}) /\ Cardinality({t}) = 1
  BY FS_Singleton
<1>4. IsFiniteSet(1..n) /\ Cardinality(1..n) = n
  BY <1>1, FS_Interval
<1>5. Cardinality({t} \X (1..n)) = Cardinality({t}) * Cardinality(1..n)
  <2> DEFINE T == {t}
             N == 1..n
  <2> HIDE DEF T, N
  <2>1. IsFiniteSet(T) /\ IsFiniteSet(N) => Cardinality(T \X N) = Cardinality(T) * Cardinality(N)
    BY FS_Product
  <2> QED
    BY <1>3, <1>4, <2>1 DEF T, N
<1>6. IsFiniteSet(Activities(at)!Places(a, None)')
  BY ActivityPlacesAreFinite
<1>7. n <= Cardinality(Activities(at)!Places(a, None)')
  BY <1>1, <1>2, <1>3, <1>4, <1>5, <1>6, FS_Subset
<1> QED
  BY <1>7, ActivityCounts DEF Activities!StockOf

-----------------------------------------------------------------------------
\* Of activities, the first one is one of them.
LEMMA ActivityFirstOf ==
  ASSUME NEW at, Activities(at)!Assumptions, NEW S \in SUBSET Setting[at].ActivityId, S # {}
  PROVE  Activities(at)!Min(S) \in S
<1>1. \E m \in S : \A n \in S : m <= n
  BY LeastNat DEF Activities!Assumptions
<1> QED
  BY <1>1 DEF Activities!Min

\* Then the stock of an activity does not fall, as the others see it,
LEMMA ActivityStockKeeps ==
  ASSUME NEW at, Activities(at)!Assumptions, Activities(at)!RowsSound, Activities(at)!RowsSound',
         NEW b \in Setting[at].Browser, Activities(at)!Keeps(b),
         NEW a \in Setting[at].ActivityId, NEW c \in {None} \cup (Setting[at].Browser \ {b})
  PROVE  Activities(at)!StockOf(a, c) <= Activities(at)!StockOf(a, c)'
<1>1. \A t \in Setting[at].TicketId : tickets[t].activity = a /\ tickets[t].tx \in {None, c} =>
            /\ tickets'[t].activity = a /\ tickets'[t].stock = tickets[t].stock
            /\ tickets'[t].tx \in {None, c}
  BY DEF Activities!Keeps, Activities!Assumptions
<1> QED
  BY <1>1, ActivityStockStays

\* what workspaces show stays sound,
LEMMA ActivityPageKeeps ==
  ASSUME NEW at, NEW b, Activities(at)!Keeps(b), NEW p, Activities(at)!PageSound(p)
  PROVE  Activities(at)!PageSound(p)'
BY DEF Activities!Keeps, Activities!PageSound, Activities!PageRecord

\* and so do the requests of the others.
LEMMA ActivityCallKeeps ==
  ASSUME NEW at, Activities(at)!Assumptions, Activities(at)!RowsSound, Activities(at)!RowsSound',
         NEW b \in Setting[at].Browser, Activities(at)!Keeps(b),
         NEW d \in Setting[at].Browser \ {b}, NEW c, Activities(at)!CallSound(d, c)
  PROVE  Activities(at)!CallSound(d, c)'
<1>1. c.pc \in {"created", "insert", "sum", "commit", "find", "update"} =>
         c.activity \in Setting[at].ActivityId /\ Activities(at)!Exists(c.activity)'
  BY DEF Activities!Keeps, Activities!CallSound
<1>2. ASSUME c.pc = "commit" PROVE c.amount <= Activities(at)!StockOf(c.activity, d)'
  <2>1. c.activity \in Setting[at].ActivityId /\ c.amount \in Nat
        /\ c.amount <= Activities(at)!StockOf(c.activity, d)
    BY <1>2 DEF Activities!CallSound, Activities!CallRecord
  <2>2. Activities(at)!StockOf(c.activity, d) <= Activities(at)!StockOf(c.activity, d)'
    BY <2>1, ActivityStockKeeps
  <2>3. Activities(at)!StockOf(c.activity, d) \in Nat
        /\ Activities(at)!StockOf(c.activity, d)' \in Nat
    BY ActivityPlacesAreFinite
  <2> QED
    BY <2>1, <2>2, <2>3
<1>3. ASSUME c.pc = "update", c.amount # None
      PROVE  c.amount <= Activities(at)!StockOf(c.activity, None)'
  <2>1. c.activity \in Setting[at].ActivityId /\ c.amount \in Nat
        /\ c.amount <= Activities(at)!StockOf(c.activity, None)
    BY <1>3 DEF Activities!CallSound, Activities!CallRecord
  <2>2. Activities(at)!StockOf(c.activity, None) <= Activities(at)!StockOf(c.activity, None)'
    BY <2>1, ActivityStockKeeps
  <2>3. Activities(at)!StockOf(c.activity, None) \in Nat
        /\ Activities(at)!StockOf(c.activity, None)' \in Nat
    BY ActivityPlacesAreFinite
  <2> QED
    BY <2>1, <2>2, <2>3
<1> QED
  BY <1>1, <1>2, <1>3 DEF Activities!CallSound, Activities!CallRecord

\* A request of workspace b leads to a sound state if what it does itself is sound.
LEMMA ActivityHandlerKeeps ==
  ASSUME NEW at, Activities(at)!Assumptions, Activities(at)!ActivityInv,
         NEW b \in Setting[at].Browser, Activities(at)!RowsSound', Activities(at)!Keeps(b),
         UNCHANGED page,
         NEW c, call' = [call EXCEPT ![b] = c], Activities(at)!CallSound(b, c)',
         \A a \in Setting[at].ActivityId : quota'[a] # quota[a]
           => quota'[a] <= Activities(at)!StockOf(a, None)'
  PROVE  Activities(at)!ActivityInv'
<1>1. Activities(at)!PagesSound'
  BY ActivityPageKeeps DEF Activities!ActivityInv, Activities!PagesSound
<1>2. ASSUME NEW d \in Setting[at].Browser PROVE Activities(at)!CallSound(d, call[d])'
  <2>1. CASE d = b
    BY <2>1 DEF Activities!ActivityInv, Activities!CallsSound
  <2>2. CASE d # b
    <3>1. call'[d] = call[d] /\ Activities(at)!CallSound(d, call[d])
      BY <2>2 DEF Activities!ActivityInv, Activities!CallsSound
    <3> QED
      BY <2>2, <3>1, ActivityCallKeeps DEF Activities!ActivityInv
  <2> QED
    BY <2>1, <2>2
<1>3. Activities(at)!CallsSound'
  <2>1. c \in Activities(at)!CallRecord
    BY DEF Activities!CallSound
  <2>2. call' \in [Setting[at].Browser -> Activities(at)!CallRecord]
    BY <2>1 DEF Activities!ActivityInv, Activities!CallsSound
  <2> QED
    BY <1>2, <2>2 DEF Activities!CallsSound
<1>4. ASSUME NEW a \in Setting[at].ActivityId, Activities(at)!Exists(a)', quota'[a] = quota[a]
      PROVE  quota'[a] <= Activities(at)!StockOf(a, None)'
  <2>1. quota[a] \in Nat /\ quota[a] <= Activities(at)!StockOf(a, None)
    BY <1>4 DEF Activities!ActivityInv, Activities!RowsSound, Activities!QuotaWithinStock,
       Activities!Exists
  <2>2. Activities(at)!StockOf(a, None) <= Activities(at)!StockOf(a, None)'
    BY ActivityStockKeeps DEF Activities!ActivityInv
  <2>3. Activities(at)!StockOf(a, None) \in Nat /\ Activities(at)!StockOf(a, None)' \in Nat
    BY ActivityPlacesAreFinite DEF Activities!ActivityInv
  <2> QED
    BY <1>4, <2>1, <2>2, <2>3
<1>5. Activities(at)!QuotaWithinStock'
  BY <1>4 DEF Activities!QuotaWithinStock
<1> QED
  BY <1>1, <1>3, <1>5 DEF Activities!ActivityInv

\* A request that changes nothing but itself.
LEMMA ActivityRequestKeeps ==
  ASSUME NEW at, Activities(at)!Assumptions, Activities(at)!ActivityInv,
         NEW b \in Setting[at].Browser, UNCHANGED <<quota, tickets, page>>,
         NEW c, call' = [call EXCEPT ![b] = c], Activities(at)!CallSound(b, c)
  PROVE  Activities(at)!ActivityInv'
<1>1. Activities(at)!RowsSound' /\ Activities(at)!Keeps(b)
  BY DEF Activities!ActivityInv, Activities!RowsSound, Activities!Keeps, Activities!Exists
<1>2. Activities(at)!CallSound(b, c)'
  BY ActivityStockIsSame DEF Activities!CallSound, Activities!Exists
<1> QED
  BY <1>1, <1>2, ActivityHandlerKeeps

\* A step that changes what workspace b shows.
LEMMA ActivityShowKeeps ==
  ASSUME NEW at, Activities(at)!ActivityInv, NEW b \in Setting[at].Browser, UNCHANGED <<quota,
         tickets, call>>,
         NEW p, page' = [page EXCEPT ![b] = p], Activities(at)!PageSound(p)
  PROVE  Activities(at)!ActivityInv'
<1>1. Activities(at)!RowsSound' /\ Activities(at)!CallsSound'
  BY ActivityStockIsSame
   DEF Activities!ActivityInv, Activities!RowsSound, Activities!CallsSound, Activities!CallSound,
   Activities!Exists
<1>3. Activities(at)!QuotaWithinStock'
  BY ActivityStockIsSame DEF Activities!ActivityInv, Activities!QuotaWithinStock, Activities!Exists
<1>2. Activities(at)!PagesSound'
  BY DEF Activities!ActivityInv, Activities!PagesSound, Activities!PageSound, Activities!Exists
<1> QED
  BY <1>1, <1>2, <1>3 DEF Activities!ActivityInv

-----------------------------------------------------------------------------
(* Activities: the workspaces *)

\* A list that arrives keeps the invariant: whatever was chosen is in it.
LEMMA ActivityRefetchKeeps ==
  ASSUME NEW at, Activities(at)!Assumptions, Activities(at)!ActivityInv,
         NEW b \in Setting[at].Browser, Activities(at)!Refetch(b)
  PROVE  Activities(at)!ActivityInv'
<1> DEFINE list == {a \in Setting[at].ActivityId : Activities(at)!Exists(a)}
           chosen == IF page[b].chosen = None
             /\ list # {} THEN Activities(at)!Min(list) ELSE page[b].chosen
           p == [page[b] EXCEPT !.list = list, !.chosen = chosen]
<1>1. Activities(at)!PageSound(page[b])
  BY DEF Activities!ActivityInv, Activities!PagesSound
<1>2. list # {} => Activities(at)!Min(list) \in list
  BY ActivityFirstOf
<1>3. page' = [page EXCEPT ![b] = p] /\ UNCHANGED <<quota, tickets, call>>
  BY DEF Activities!Refetch, Activities!ActivityInv, Activities!PagesSound
<1>4. chosen \in Setting[at].ActivityId \cup {None}
      /\ (chosen # None => Activities(at)!Exists(chosen))
      /\ (chosen = None => list = {})
  BY <1>1, <1>2 DEF Activities!PageSound, Activities!PageRecord, Activities!Assumptions
<1>5. p \in Activities(at)!PageRecord /\ p.list = list /\ p.chosen = chosen
  <2> HIDE DEF chosen
  <2> QED
    BY <1>1, <1>4 DEF Activities!PageSound, Activities!PageRecord
<1>6. Activities(at)!PageSound(p)
  <2> HIDE DEF chosen, p
  <2> QED
    BY <1>4, <1>5 DEF Activities!PageSound
<1> HIDE DEF p
<1> QED
  BY <1>3, <1>6, ActivityShowKeeps

\* A selection keeps it,
LEMMA ActivitySelectKeeps ==
  ASSUME NEW at, Activities(at)!Assumptions, Activities(at)!ActivityInv,
         NEW b \in Setting[at].Browser, Activities(at)!Select(b)
  PROVE  Activities(at)!ActivityInv'
<1>1. PICK a \in page[b].list : page' = [page EXCEPT ![b].chosen = a]
  BY DEF Activities!Select
<1> DEFINE p == [page[b] EXCEPT !.chosen = a]
<1>2. Activities(at)!PageSound(page[b]) /\ page' = [page EXCEPT ![b] = p]
  BY <1>1 DEF Activities!ActivityInv, Activities!PagesSound
<1>3. Activities(at)!PageSound(p)
  BY <1>1, <1>2
   DEF Activities!PageSound, Activities!PageRecord, Activities!Exists, Activities!ActivityInv,
   Activities!RowsSound, Activities!Assumptions
<1> HIDE DEF p
<1> QED
  BY <1>2, <1>3, ActivityShowKeeps DEF Activities!Select

\* and so does what is entered in the form.
LEMMA ActivityFormKeeps ==
  ASSUME NEW at, Activities(at)!Assumptions, Activities(at)!ActivityInv,
         NEW b \in Setting[at].Browser, Activities(at)!EditForm(b) \/ Activities(at)!ToggleCustom(b)
  PROVE  Activities(at)!ActivityInv'
<1>1. Activities(at)!PageSound(page[b]) /\ UNCHANGED <<quota, tickets, call>>
      /\ Setting[at].Amount \subseteq Nat
  BY DEF Activities!ActivityInv, Activities!PagesSound, Activities!EditForm,
         Activities!ToggleCustom, Activities!Assumptions
<1>2. PICK form \in [quota : Nat, custom : BOOLEAN, stock : Nat] :
        page' = [page EXCEPT ![b] = [page[b] EXCEPT !.form = form]]
  <2> DEFINE f == page[b].form
  <2>1. f \in [quota : Nat, custom : BOOLEAN, stock : Nat] /\ DOMAIN page = Setting[at].Browser
    BY <1>1 DEF Activities!PageSound, Activities!PageRecord, Activities!ActivityInv,
       Activities!PagesSound
  <2>2. CASE Activities(at)!EditForm(b)
    <3>1. PICK n \in Nat : \/ page' = [page EXCEPT ![b].form.quota = n]
                           \/ page' = [page EXCEPT ![b].form.stock = n]
      BY <1>1, <2>2 DEF Activities!EditForm
    <3>2. [f EXCEPT !.quota = n] \in [quota : Nat, custom : BOOLEAN, stock : Nat]
          /\ [f EXCEPT !.stock = n] \in [quota : Nat, custom : BOOLEAN, stock : Nat]
      BY <2>1
    <3> QED
      BY <2>1, <3>1, <3>2
  <2>3. CASE Activities(at)!ToggleCustom(b)
    <3> DEFINE g == IF f.custom THEN [f EXCEPT !.custom = FALSE]
                    ELSE [f EXCEPT !.custom = TRUE, !.stock = page[b].form.quota]
    <3>1. page' = [page EXCEPT ![b].form = g]
      BY <2>3 DEF Activities!ToggleCustom
    <3>2. g \in [quota : Nat, custom : BOOLEAN, stock : Nat]
      BY <2>1
    <3> HIDE DEF g
    <3> QED
      BY <2>1, <3>1, <3>2
  <2> QED
    BY <2>2, <2>3
<1> DEFINE p == [page[b] EXCEPT !.form = form]
<1>3. Activities(at)!PageSound(p)
  BY <1>1 DEF Activities!PageSound, Activities!PageRecord, Activities!Exists
<1> HIDE DEF p
<1> QED
  BY <1>1, <1>2, <1>3, ActivityShowKeeps DEF p

\* What a workspace shows is an activity there is.
LEMMA ActivityShownExists ==
  ASSUME NEW at, Activities(at)!Assumptions, Activities(at)!ActivityInv,
         NEW b \in Setting[at].Browser, Activities(at)!Shown(b) # None
  PROVE  Activities(at)!Shown(b) \in Setting[at].ActivityId
         /\ Activities(at)!Exists(Activities(at)!Shown(b))
<1>1. Activities(at)!PageSound(page[b]) /\ page[b].list \in SUBSET Setting[at].ActivityId
  BY DEF Activities!ActivityInv, Activities!PagesSound, Activities!PageSound, Activities!PageRecord
<1>2. page[b].list # {} => Activities(at)!Min(page[b].list) \in page[b].list
  BY <1>1, ActivityFirstOf
<1> QED
  BY <1>1, <1>2 DEF Activities!Shown, Activities!PageSound

\* A save or a new ticket is about the activity that is shown.
LEMMA ActivitySubmitKeeps ==
  ASSUME NEW at, Activities(at)!Assumptions, Activities(at)!ActivityInv,
         NEW b \in Setting[at].Browser, Activities(at)!Submit(b)
  PROVE  Activities(at)!ActivityInv'
<1>1. Activities(at)!PageSound(page[b]) /\ Setting[at].Amount \subseteq Nat /\ None \notin Nat
  BY DEF Activities!ActivityInv, Activities!PagesSound, Activities!Assumptions
<1>2. ASSUME NEW c, Activities(at)!CallSound(b, c), Activities(at)!Start(b, c)
      PROVE  Activities(at)!ActivityInv'
  BY <1>2, ActivityRequestKeeps DEF Activities!Start
<1>3. ASSUME Activities(at)!Start(b,
         [Activities(at)!NoCall EXCEPT !.pc = "create", !.amount = page[b].form.quota,
                                   !.stock = Activities(at)!EffectiveStock(page[b].form)])
      PROVE  Activities(at)!ActivityInv'
  <2>1. Activities(at)!CallSound(b,
        [Activities(at)!NoCall EXCEPT !.pc = "create", !.amount = page[b].form.quota,
                                  !.stock = Activities(at)!EffectiveStock(page[b].form)])
    BY <1>1 DEF Activities!NoCall, Activities!CallSound, Activities!CallRecord,
       Activities!EffectiveStock, Activities!PageSound, Activities!PageRecord
  <2> QED
    BY <1>2, <1>3, <2>1
<1>4. ASSUME Activities(at)!Shown(b) # None, NEW n \in Setting[at].Amount,
             Activities(at)!Start(b,
               [Activities(at)!NoCall EXCEPT !.pc = "insert", !.activity = Activities(at)!Shown(b),
               !.stock = n])
      PROVE  Activities(at)!ActivityInv'
  <2>1. Activities(at)!CallSound(b,
        [Activities(at)!NoCall EXCEPT !.pc = "insert", !.activity = Activities(at)!Shown(b),
        !.stock = n])
    BY <1>1, <1>4, ActivityShownExists
     DEF Activities!NoCall, Activities!CallSound, Activities!CallRecord
  <2> QED
    BY <1>2, <1>4, <2>1
<1>5. ASSUME Activities(at)!Shown(b) # None,
         Activities(at)!Start(b,
         [Activities(at)!NoCall EXCEPT !.pc = "find", !.activity = Activities(at)!Shown(b)])
      PROVE  Activities(at)!ActivityInv'
  <2>1. Activities(at)!CallSound(b,
        [Activities(at)!NoCall EXCEPT !.pc = "find", !.activity = Activities(at)!Shown(b)])
    BY <1>1, <1>5, ActivityShownExists
     DEF Activities!NoCall, Activities!CallSound, Activities!CallRecord
  <2> QED
    BY <1>2, <1>5, <2>1
<1>6. ASSUME NEW a \in Setting[at].ActivityId, NEW n \in Setting[at].Amount,
         Activities(at)!Exists(a),
             Activities(at)!Start(b,
               [Activities(at)!NoCall EXCEPT !.pc = "find", !.activity = a, !.amount = n])
      PROVE  Activities(at)!ActivityInv'
  <2>1. Activities(at)!CallSound(b,
        [Activities(at)!NoCall EXCEPT !.pc = "find", !.activity = a, !.amount = n])
    BY <1>1, <1>6 DEF Activities!NoCall, Activities!CallSound, Activities!CallRecord
  <2> QED
    BY <1>2, <1>6, <2>1
<1> QED
  BY <1>3, <1>4, <1>5, <1>6 DEF Activities!Submit

\* An answer chooses an activity there is.
LEMMA ActivityReceiveKeeps ==
  ASSUME NEW at, Activities(at)!Assumptions, Activities(at)!ActivityInv,
         NEW b \in Setting[at].Browser, Activities(at)!Receive(b)
  PROVE  Activities(at)!ActivityInv'
<1>1. Activities(at)!PageSound(page[b]) /\ Activities(at)!CallSound(b, call[b])
  BY DEF Activities!ActivityInv, Activities!PagesSound, Activities!CallsSound
<1> DEFINE p == IF call[b].pc = "created"
                THEN [page[b] EXCEPT !.chosen = call[b].activity, !.form = Activities(at)!EmptyForm]
                ELSE page[b]
<1>2. page' = [page EXCEPT ![b] = p] /\ UNCHANGED <<quota, tickets>>
  BY DEF Activities!Receive, Activities!ActivityInv, Activities!PagesSound
<1>3. Activities(at)!PageSound(p)
  BY <1>1 DEF Activities!PageSound, Activities!PageRecord, Activities!CallSound,
     Activities!EmptyForm, Activities!Assumptions, Activities!Exists,
              Activities!ActivityInv, Activities!RowsSound
<1> HIDE DEF p
<1>4. Activities(at)!PagesSound'
  BY <1>2, <1>3
   DEF Activities!ActivityInv, Activities!PagesSound, Activities!PageSound, Activities!Exists
<1>5. Activities(at)!CallSound(b, Activities(at)!NoCall)
  BY DEF Activities!NoCall, Activities!CallSound, Activities!CallRecord
<1>6. Activities(at)!CallsSound'
  BY <1>2, <1>5, ActivityStockIsSame
   DEF Activities!Receive, Activities!ActivityInv, Activities!CallsSound, Activities!CallSound,
   Activities!Exists
<1>7. Activities(at)!RowsSound'
  BY <1>2 DEF Activities!ActivityInv, Activities!RowsSound
<1>8. Activities(at)!QuotaWithinStock'
  BY <1>2, ActivityStockIsSame
   DEF Activities!ActivityInv, Activities!QuotaWithinStock, Activities!Exists
<1> QED
  BY <1>4, <1>6, <1>7, <1>8 DEF Activities!ActivityInv

-----------------------------------------------------------------------------
(* Activities: the handlers *)

\* A handler that goes on, or answers, without writing.
LEMMA ActivityGoKeeps ==
  ASSUME NEW at, Activities(at)!Assumptions, Activities(at)!ActivityInv,
         NEW b \in Setting[at].Browser, Activities(at)!RowsSound', Activities(at)!Keeps(b),
         UNCHANGED <<quota, page>>, Activities(at)!Go(b, "answered")
  PROVE  Activities(at)!ActivityInv'
<1>1. PICK c : c = [call[b] EXCEPT !.pc = "answered"]
  OBVIOUS
<1>2. Activities(at)!CallSound(b, call[b]) /\ call' = [call EXCEPT ![b] = c]
  BY <1>1 DEF Activities!ActivityInv, Activities!CallsSound, Activities!Go
<1>3. c \in Activities(at)!CallRecord /\ c.pc = "answered"
  BY <1>1, <1>2 DEF Activities!CallSound, Activities!CallRecord
<1>4. Activities(at)!CallSound(b, c)'
  BY <1>3 DEF Activities!CallSound
<1> QED
  BY <1>2, <1>4, ActivityHandlerKeeps

\* A new activity has no ticket yet, and no quota above its stock.
LEMMA ActivityCreateKeeps ==
  ASSUME NEW at, Activities(at)!Assumptions, Activities(at)!ActivityInv,
         NEW b \in Setting[at].Browser, Activities(at)!CreateActivity(b)
  PROVE  Activities(at)!ActivityInv'
<1> DEFINE c == call[b]
<1>1. Activities(at)!CallSound(b, c) /\ UNCHANGED page /\ c.pc = "create"
  BY DEF Activities!ActivityInv, Activities!CallsSound, Activities!CreateActivity
<1>2. c.amount \in Nat /\ c.stock \in Nat
  BY <1>1 DEF Activities!CallSound, Activities!CallRecord
<1>3. ASSUME c.amount = c.stock, NEW a \in Setting[at].ActivityId, NEW t \in Setting[at].TicketId,
             ~Activities(at)!Exists(a), tickets[t] = Activities(at)!NoTicket,
             quota' = [quota EXCEPT ![a] = c.amount],
             tickets' = [tickets EXCEPT ![t] = [activity |-> a, stock |-> c.stock, tx |-> None]],
             call' = [call EXCEPT ![b]
               = [Activities(at)!NoCall EXCEPT !.pc = "created", !.activity = a]]
      PROVE  Activities(at)!ActivityInv'
  <2> DEFINE d == [Activities(at)!NoCall EXCEPT !.pc = "created", !.activity = a]
  <2>1. Activities(at)!RowsSound'
    BY <1>2, <1>3 DEF Activities!ActivityInv, Activities!RowsSound, Activities!TicketRecord
  <2>2. Activities(at)!Keeps(b)
    BY <1>2, <1>3
     DEF Activities!ActivityInv, Activities!RowsSound, Activities!Keeps, Activities!NoTicket,
     Activities!Exists, Activities!Assumptions
  <2>3. d \in Activities(at)!CallRecord /\ d.pc = "created" /\ d.activity = a
    BY DEF Activities!NoCall, Activities!CallRecord
  <2>4. quota'[a] = c.amount /\ \A e \in Setting[at].ActivityId : quota'[e] # quota[e] => e = a
    BY <1>3 DEF Activities!ActivityInv, Activities!RowsSound
  <2>5. c.amount # None
    BY <1>2 DEF Activities!Assumptions
  <2>6. tickets'[t] = [activity |-> a, stock |-> c.stock, tx |-> None]
    BY <1>3 DEF Activities!ActivityInv, Activities!RowsSound
  <2>7. c.stock <= Activities(at)!StockOf(a, None)'
    BY <2>1, <2>6, ActivityTicketCounts
  <2>8. quota'[a] <= Activities(at)!StockOf(a, None)'
    BY <1>3, <2>4, <2>7
  <2> HIDE DEF d
  <2>9. Activities(at)!CallSound(b, d)'
    BY <2>3, <2>4, <2>5 DEF Activities!CallSound, Activities!Exists
  <2>10. \A e \in Setting[at].ActivityId : quota'[e] # quota[e]
         => quota'[e] <= Activities(at)!StockOf(e, None)'
    BY <2>4, <2>8
  <2> QED
    BY <1>1, <1>3, <2>1, <2>2, <2>9, <2>10, ActivityHandlerKeeps DEF d
<1>4. ASSUME Activities(at)!Go(b, "answered"), UNCHANGED <<quota, tickets>>
      PROVE  Activities(at)!ActivityInv'
  <2>1. Activities(at)!RowsSound' /\ Activities(at)!Keeps(b)
    BY <1>4 DEF Activities!ActivityInv, Activities!RowsSound, Activities!Keeps, Activities!Exists
  <2> QED
    BY <1>1, <1>4, <2>1, ActivityGoKeeps
<1> QED
  BY <1>3, <1>4 DEF Activities!CreateActivity

\* The ticket that a transaction inserts is not committed yet.
LEMMA ActivityInsertKeeps ==
  ASSUME NEW at, Activities(at)!Assumptions, Activities(at)!ActivityInv,
         NEW b \in Setting[at].Browser, Activities(at)!InsertTicket(b)
  PROVE  Activities(at)!ActivityInv'
<1>1. Activities(at)!CallSound(b, call[b]) /\ call[b].pc = "insert" /\ UNCHANGED <<quota, page>>
  BY DEF Activities!ActivityInv, Activities!CallsSound, Activities!InsertTicket
<1>2. PICK t \in Setting[at].TicketId :
        /\ tickets[t] = Activities(at)!NoTicket
        /\ tickets' = [tickets EXCEPT ![t] = [activity |-> call[b].activity,
                                             stock |-> call[b].stock, tx |-> b]]
  BY DEF Activities!InsertTicket
<1>3. call[b].activity \in Setting[at].ActivityId /\ call[b].stock \in Nat
  BY <1>1 DEF Activities!CallSound, Activities!CallRecord
<1>4. Activities(at)!RowsSound'
  <2>1. [activity |-> call[b].activity, stock |-> call[b].stock, tx |-> b]
        \in Activities(at)!TicketRecord
    BY <1>3 DEF Activities!TicketRecord
  <2> QED
    BY <1>1, <1>2, <2>1 DEF Activities!ActivityInv, Activities!RowsSound
<1>5. Activities(at)!Keeps(b)
  BY <1>1, <1>2
   DEF Activities!ActivityInv, Activities!RowsSound, Activities!Keeps, Activities!NoTicket,
   Activities!Exists
<1>6. PICK c : c = [call[b] EXCEPT !.pc = "sum"]
  OBVIOUS
<1>7. call' = [call EXCEPT ![b] = c]
  BY <1>6 DEF Activities!InsertTicket, Activities!Go, Activities!ActivityInv, Activities!CallsSound
<1>8. c \in Activities(at)!CallRecord /\ c.pc = "sum" /\ c.activity \in Setting[at].ActivityId
      /\ Activities(at)!Exists(c.activity)
  BY <1>1, <1>6 DEF Activities!CallSound, Activities!CallRecord
<1>9. Activities(at)!CallSound(b, c)'
  BY <1>1, <1>8 DEF Activities!CallSound, Activities!Exists
<1> QED
  BY <1>1, <1>4, <1>5, <1>7, <1>9, ActivityHandlerKeeps

\* The stock that a transaction adds up is what will be there once it commits.
LEMMA ActivitySumKeeps ==
  ASSUME NEW at, Activities(at)!Assumptions, Activities(at)!ActivityInv,
         NEW b \in Setting[at].Browser, Activities(at)!SumStock(b)
  PROVE  Activities(at)!ActivityInv'
<1> DEFINE n == Activities(at)!StockOf(call[b].activity, b)
           c == [call[b] EXCEPT !.pc = "commit", !.amount = n]
<1>1. Activities(at)!CallSound(b, call[b]) /\ call[b].pc = "sum"
      /\ UNCHANGED <<quota, tickets, page>>
  BY DEF Activities!ActivityInv, Activities!CallsSound, Activities!SumStock
<1>2. n \in Nat
  BY ActivityPlacesAreFinite DEF Activities!ActivityInv
<1>3. call' = [call EXCEPT ![b] = c]
  BY DEF Activities!SumStock, Activities!ActivityInv, Activities!CallsSound
<1>4. c \in Activities(at)!CallRecord /\ c.pc = "commit" /\ c.activity = call[b].activity
      /\ c.amount = n
  <2> HIDE DEF n
  <2> QED
    BY <1>1, <1>2 DEF Activities!CallSound, Activities!CallRecord
<1> HIDE DEF c
<1>5. c.amount # None /\ c.amount <= Activities(at)!StockOf(c.activity, b)
  BY <1>2, <1>4 DEF Activities!Assumptions
<1>6. Activities(at)!CallSound(b, c)
  BY <1>1, <1>4, <1>5 DEF Activities!CallSound
<1> QED
  BY <1>1, <1>3, <1>6, ActivityRequestKeeps

\* The quota that a transaction commits is at most the stock it commits.
LEMMA ActivityCommitKeeps ==
  ASSUME NEW at, Activities(at)!Assumptions, Activities(at)!ActivityInv,
         NEW b \in Setting[at].Browser, Activities(at)!CommitTicket(b)
  PROVE  Activities(at)!ActivityInv'
<1>0. PICK a, n, c : a = call[b].activity /\ n = call[b].amount
                     /\ c = [call[b] EXCEPT !.pc = "answered"]
  OBVIOUS
<1>1. /\ Activities(at)!CallSound(b, call[b]) /\ call[b].pc = "commit" /\ UNCHANGED page
      /\ quota' = [quota EXCEPT ![a] = n]
      /\ \A t \in Setting[at].TicketId : tickets'[t] = IF tickets[t].tx = b
         THEN [tickets[t] EXCEPT !.tx = None]
                                         ELSE tickets[t]
      /\ tickets' = [t \in Setting[at].TicketId |-> tickets'[t]]
      /\ call' = [call EXCEPT ![b] = c]
  BY <1>0 DEF Activities!ActivityInv, Activities!CallsSound, Activities!CommitTicket, Activities!Go
<1>2. a \in Setting[at].ActivityId /\ n \in Nat /\ n # None /\ n <= Activities(at)!StockOf(a, b)
  BY <1>0, <1>1 DEF Activities!CallSound, Activities!CallRecord
<1>3. Activities(at)!RowsSound'
  <2>1. quota' \in [Setting[at].ActivityId -> Nat \cup {None}]
    BY <1>1, <1>2 DEF Activities!ActivityInv, Activities!RowsSound
  <2>2. \A t \in Setting[at].TicketId : tickets'[t] \in Activities(at)!TicketRecord
    BY <1>1 DEF Activities!ActivityInv, Activities!RowsSound, Activities!TicketRecord
  <2>3. tickets' \in [Setting[at].TicketId -> Activities(at)!TicketRecord]
    BY <1>1, <2>2
  <2> QED
    BY <2>1, <2>3 DEF Activities!RowsSound
<1>4. Activities(at)!Keeps(b)
  BY <1>1, <1>2
   DEF Activities!ActivityInv, Activities!RowsSound, Activities!Keeps, Activities!Exists,
   Activities!Assumptions
<1>5. Activities(at)!StockOf(a, b) <= Activities(at)!StockOf(a, None)'
  <2>1. \A t \in Setting[at].TicketId : tickets[t].activity = a /\ tickets[t].tx \in {None, b} =>
            /\ tickets'[t].activity = a /\ tickets'[t].stock = tickets[t].stock
            /\ tickets'[t].tx \in {None, None}
    BY <1>1 DEF Activities!ActivityInv, Activities!RowsSound, Activities!TicketRecord
  <2> QED
    BY <1>3, <2>1, ActivityStockStays DEF Activities!ActivityInv
<1>6. quota'[a] <= Activities(at)!StockOf(a, None)'
      /\ \A e \in Setting[at].ActivityId : quota'[e] # quota[e] => e = a
  <2>1. Activities(at)!StockOf(a, b) \in Nat
    BY ActivityPlacesAreFinite DEF Activities!ActivityInv
  <2>2. Activities(at)!StockOf(a, None)' \in Nat
    BY <1>3, ActivityPlacesAreFinite
  <2>3. quota'[a] = n /\ \A e \in Setting[at].ActivityId : quota'[e] # quota[e] => e = a
    BY <1>1, <1>2 DEF Activities!ActivityInv, Activities!RowsSound
  <2> QED
    BY <1>2, <1>5, <2>1, <2>2, <2>3
<1>7. c \in Activities(at)!CallRecord /\ c.pc = "answered"
  BY <1>0, <1>1 DEF Activities!CallSound, Activities!CallRecord
<1>8. Activities(at)!CallSound(b, c)'
  BY <1>7 DEF Activities!CallSound
<1>9. \A e \in Setting[at].ActivityId : quota'[e] # quota[e]
      => quota'[e] <= Activities(at)!StockOf(e, None)'
  BY <1>6
<1> QED
  BY <1>1, <1>3, <1>4, <1>8, <1>9, ActivityHandlerKeeps

\* A transaction that fails takes its ticket with it.
LEMMA ActivityTicketFailsKeeps ==
  ASSUME NEW at, Activities(at)!Assumptions, Activities(at)!ActivityInv,
         NEW b \in Setting[at].Browser, Activities(at)!TicketFails(b)
  PROVE  Activities(at)!ActivityInv'
<1>1. Activities(at)!RowsSound'
  <2>1. Activities(at)!NoTicket \in Activities(at)!TicketRecord
    BY DEF Activities!NoTicket, Activities!TicketRecord
  <2> QED
    BY <2>1 DEF Activities!TicketFails, Activities!ActivityInv, Activities!RowsSound
<1>2. Activities(at)!Keeps(b)
  BY DEF Activities!TicketFails, Activities!ActivityInv, Activities!RowsSound, Activities!Keeps,
         Activities!Exists, Activities!Assumptions
<1> QED
  BY <1>1, <1>2, ActivityGoKeeps DEF Activities!TicketFails

\* The stock that a save finds will not become less,
LEMMA ActivityFindKeeps ==
  ASSUME NEW at, Activities(at)!Assumptions, Activities(at)!ActivityInv,
         NEW b \in Setting[at].Browser, Activities(at)!FindActivity(b)
  PROVE  Activities(at)!ActivityInv'
<1> DEFINE pc == IF call[b].amount \in {None, Activities(at)!StockOf(call[b].activity, None)}
                 THEN "update" ELSE "answered"
           c == [call[b] EXCEPT !.pc = pc]
<1>1. Activities(at)!CallSound(b, call[b]) /\ call[b].pc = "find"
      /\ UNCHANGED <<quota, tickets, page>>
  BY DEF Activities!ActivityInv, Activities!CallsSound, Activities!FindActivity
<1>2. call' = [call EXCEPT ![b] = c]
  BY DEF Activities!FindActivity, Activities!Go, Activities!ActivityInv, Activities!CallsSound
<1>3. c \in Activities(at)!CallRecord /\ c.pc = pc /\ c.activity = call[b].activity
      /\ c.amount = call[b].amount
  BY <1>1 DEF Activities!CallSound, Activities!CallRecord
<1>4. Activities(at)!StockOf(call[b].activity, None) \in Nat
  BY ActivityPlacesAreFinite DEF Activities!ActivityInv
<1>5. c.pc \in {"update", "answered"}
      /\ (c.pc = "update" /\ c.amount # None
         => c.amount <= Activities(at)!StockOf(c.activity, None))
  BY <1>3, <1>4
<1> HIDE DEF c, pc
<1>6. Activities(at)!CallSound(b, c)
  BY <1>1, <1>3, <1>5 DEF Activities!CallSound
<1> QED
  BY <1>1, <1>2, <1>6, ActivityRequestKeeps

\* so that the quota it writes is at most the stock.
LEMMA ActivityUpdateKeeps ==
  ASSUME NEW at, Activities(at)!Assumptions, Activities(at)!ActivityInv,
         NEW b \in Setting[at].Browser, Activities(at)!UpdateActivity(b)
  PROVE  Activities(at)!ActivityInv'
<1>0. PICK a, n, c : a = call[b].activity /\ n = call[b].amount
                     /\ c = [call[b] EXCEPT !.pc = "answered"]
  OBVIOUS
<1>1. /\ Activities(at)!CallSound(b, call[b]) /\ call[b].pc = "update"
         /\ UNCHANGED <<tickets, page>>
      /\ quota' = IF n = None THEN quota ELSE [quota EXCEPT ![a] = n]
      /\ call' = [call EXCEPT ![b] = c]
  BY <1>0 DEF Activities!ActivityInv, Activities!CallsSound, Activities!UpdateActivity,
     Activities!Go
<1>2. a \in Setting[at].ActivityId /\ n \in Nat \cup {None}
      /\ (n # None => n <= Activities(at)!StockOf(a, None))
  BY <1>0, <1>1 DEF Activities!CallSound, Activities!CallRecord
<1>3. Activities(at)!RowsSound' /\ Activities(at)!Keeps(b)
  BY <1>1, <1>2
   DEF Activities!ActivityInv, Activities!RowsSound, Activities!Keeps, Activities!Exists
<1>4. \A e \in Setting[at].ActivityId : quota'[e] # quota[e] => e = a /\ n # None /\ quota'[e] = n
  BY <1>1, <1>2 DEF Activities!ActivityInv, Activities!RowsSound
<1>5. Activities(at)!StockOf(a, None)' = Activities(at)!StockOf(a, None)
  <2> QED
    BY <1>1, ActivityStockIsSame
<1>6. c \in Activities(at)!CallRecord /\ c.pc = "answered"
  BY <1>0, <1>1 DEF Activities!CallSound, Activities!CallRecord
<1>7. Activities(at)!CallSound(b, c)'
  BY <1>6 DEF Activities!CallSound
<1>8. \A e \in Setting[at].ActivityId : quota'[e] # quota[e]
      => quota'[e] <= Activities(at)!StockOf(e, None)'
  BY <1>2, <1>4, <1>5
<1> QED
  BY <1>1, <1>3, <1>7, <1>8, ActivityHandlerKeeps

-----------------------------------------------------------------------------
\* The activities start sound,
LEMMA ActivityInit ==
  ASSUME NEW at
  PROVE Activities(at)!Assumptions /\ Activities(at)!Init => Activities(at)!ActivityInv
<1> SUFFICES ASSUME Activities(at)!Assumptions, Activities(at)!Init PROVE Activities(at)!ActivityInv
  OBVIOUS
<1>1. Activities(at)!RowsSound /\ Activities(at)!QuotaWithinStock
  BY DEF Activities!Init, Activities!RowsSound, Activities!TicketRecord, Activities!NoTicket,
         Activities!QuotaWithinStock, Activities!Exists
<1>2. Activities(at)!NewPage \in Activities(at)!PageRecord /\ Activities(at)!NewPage.list = {}
      /\ Activities(at)!NewPage.chosen = None
  BY DEF Activities!NewPage, Activities!PageRecord, Activities!EmptyForm, Activities!Assumptions
<1>3. Activities(at)!PagesSound
  BY <1>2 DEF Activities!Init, Activities!PagesSound, Activities!PageSound
<1>4. Activities(at)!NoCall \in Activities(at)!CallRecord /\ Activities(at)!NoCall.pc = "idle"
  BY DEF Activities!NoCall, Activities!CallRecord
<1>5. Activities(at)!CallsSound
  BY <1>4 DEF Activities!Init, Activities!CallsSound, Activities!CallSound
<1> QED
  BY <1>1, <1>3, <1>5 DEF Activities!ActivityInv

\* and every step keeps them so.
LEMMA ActivityStep ==
  ASSUME NEW at
  PROVE Activities(at)!Assumptions /\ Activities(at)!ActivityInv
  /\ [Activities(at)!Next]_(Activities(at)!vars) => Activities(at)!ActivityInv'
<1> SUFFICES ASSUME Activities(at)!Assumptions, Activities(at)!ActivityInv,
         [Activities(at)!Next]_(Activities(at)!vars) PROVE Activities(at)!ActivityInv'
  OBVIOUS
<1>1. CASE UNCHANGED Activities(at)!vars
  <2>1. Activities(at)!RowsSound' /\ Activities(at)!PagesSound'
    BY <1>1 DEF Activities!vars, Activities!ActivityInv, Activities!RowsSound,
       Activities!PagesSound, Activities!PageSound, Activities!Exists
  <2>2. Activities(at)!CallsSound' /\ Activities(at)!QuotaWithinStock'
    BY <1>1, ActivityStockIsSame
     DEF Activities!vars, Activities!ActivityInv, Activities!CallsSound, Activities!CallSound,
     Activities!QuotaWithinStock, Activities!Exists
  <2> QED
    BY <2>1, <2>2 DEF Activities!ActivityInv
<1>2. ASSUME NEW b \in Setting[at].Browser, Activities(at)!Work(b) PROVE Activities(at)!ActivityInv'
  BY <1>2, ActivityRefetchKeeps, ActivitySelectKeeps, ActivityFormKeeps, ActivitySubmitKeeps,
     ActivityReceiveKeeps DEF Activities!Work
<1>3. ASSUME NEW b \in Setting[at].Browser, Activities(at)!Handle(b)
      PROVE  Activities(at)!ActivityInv'
  BY <1>3, ActivityCreateKeeps, ActivityInsertKeeps, ActivitySumKeeps, ActivityCommitKeeps,
     ActivityTicketFailsKeeps, ActivityFindKeeps,
     ActivityUpdateKeeps DEF Activities!Handle
<1> QED
  BY <1>1, <1>2, <1>3 DEF Activities!Next

\* Sound activities have their types.
LEMMA ActivityTypes ==
  ASSUME NEW at PROVE Activities(at)!ActivityInv => Activities(at)!TypeOK
BY DEF Activities!ActivityInv, Activities!RowsSound, Activities!PagesSound, Activities!CallsSound,
       Activities!TypeOK, Activities!TicketRecord, Activities!PageRecord, Activities!CallRecord

\* What a workspace shows changes only with what is chosen.
LEMMA ActivityShownStays ==
  ASSUME NEW at
  PROVE Activities(at)!Assumptions /\ Activities(at)!ActivityInv
  /\ [Activities(at)!Next]_(Activities(at)!vars) => Activities(at)!KeepsShown
<1> SUFFICES ASSUME Activities(at)!Assumptions, Activities(at)!ActivityInv,
         [Activities(at)!Next]_(Activities(at)!vars), NEW b \in Setting[at].Browser,
                    Activities(at)!Shown(b) # None, page'[b].chosen = page[b].chosen
             PROVE  Activities(at)!Shown(b)' \in {Activities(at)!Shown(b), page[b].chosen}
  BY DEF Activities!KeepsShown
<1>1. Activities(at)!PageSound(page[b])
      /\ page \in [Setting[at].Browser -> Activities(at)!PageRecord]
  BY DEF Activities!ActivityInv, Activities!PagesSound
<1>2. CASE page'[b].list = page[b].list
  BY <1>2 DEF Activities!Shown
<1>3. CASE Activities(at)!Refetch(b)
  <2>1. page'[b].list = {a \in Setting[at].ActivityId : Activities(at)!Exists(a)}
    BY <1>1, <1>3 DEF Activities!Refetch, Activities!PageRecord
  <2>2. page[b].list # {}
    BY <1>1 DEF Activities!Shown, Activities!PageSound, Activities!PageRecord,
       Activities!Assumptions, Activities!ActivityInv, Activities!RowsSound
  <2>3. page[b].chosen # None /\ page[b].chosen \in Setting[at].ActivityId
        /\ Activities(at)!Exists(page[b].chosen)
    BY <1>1, <2>2 DEF Activities!PageSound, Activities!PageRecord
  <2> QED
    BY <2>1, <2>3 DEF Activities!Shown
<1>4. CASE ~Activities(at)!Refetch(b)
  <2>1. ASSUME NEW c \in Setting[at].Browser, Activities(at)!Refetch(c), c # b
        PROVE  page'[b] = page[b]
    BY <1>1, <2>1 DEF Activities!Refetch
  <2>2. ASSUME NEW c \in Setting[at].Browser, Activities(at)!Work(c), ~Activities(at)!Refetch(c)
        PROVE  page'[b].list = page[b].list
    <3>1. CASE Activities(at)!Select(c)
      BY <1>1, <3>1 DEF Activities!Select, Activities!PageRecord
    <3>2. CASE Activities(at)!EditForm(c)
      BY <1>1, <3>2 DEF Activities!EditForm, Activities!PageRecord
    <3>3. CASE Activities(at)!ToggleCustom(c)
      BY <1>1, <3>3 DEF Activities!ToggleCustom, Activities!PageRecord
    <3>4. CASE Activities(at)!Submit(c)
      BY <3>4 DEF Activities!Submit, Activities!Start
    <3>5. CASE Activities(at)!Receive(c)
      BY <1>1, <3>5 DEF Activities!Receive, Activities!PageRecord
    <3> QED
      BY <2>2, <3>1, <3>2, <3>3, <3>4, <3>5 DEF Activities!Work
  <2>3. ASSUME NEW c \in Setting[at].Browser, Activities(at)!Handle(c) PROVE page' = page
    BY <2>3 DEF Activities!Handle, Activities!CreateActivity, Activities!InsertTicket,
       Activities!SumStock, Activities!CommitTicket, Activities!TicketFails,
                Activities!FindActivity, Activities!UpdateActivity
  <2> QED
    BY <1>2, <1>4, <2>1, <2>2, <2>3 DEF Activities!Next, Activities!vars
<1> QED
  BY <1>3, <1>4

-----------------------------------------------------------------------------
(* Service requests *)

\* The first request of a list that is not empty is in it.
LEMMA RequestFirstIsListed ==
  ASSUME NEW at, Requests(at)!Assumptions,
         NEW list \in [Setting[at].RequestId -> Requests(at)!Status \cup {None}],
         Requests(at)!First(list) # None
  PROVE  Requests(at)!First(list) \in Setting[at].RequestId /\ list[Requests(at)!First(list)] # None
<1> DEFINE S == {r \in Setting[at].RequestId : list[r] # None}
<1>1. S # {}
  BY DEF Requests!First
<1>2. PICK r \in S : \A q \in S : q <= r
  BY <1>1 DEF Requests!Assumptions
<1>3. \E s \in Setting[at].RequestId :
        list[s] # None /\ \A q \in Setting[at].RequestId : list[q] # None => q <= s
  BY <1>2
<1>4. Requests(at)!First(list) = CHOOSE s \in Setting[at].RequestId :
        list[s] # None /\ \A q \in Setting[at].RequestId : list[q] # None => q <= s
  BY <1>1 DEF Requests!First
<1> QED
  BY <1>3, <1>4

\* So is the one that is shown.
LEMMA RequestShownIsListed ==
  ASSUME NEW at, Requests(at)!Assumptions, NEW p \in Requests(at)!PageRecord,
         Requests(at)!ShownIn(p) # None
  PROVE  Requests(at)!ShownIn(p) \in Setting[at].RequestId /\ p.list[Requests(at)!ShownIn(p)] # None
<1>1. CASE p.chosen # None /\ p.list[p.chosen] # None
  BY <1>1 DEF Requests!ShownIn, Requests!PageRecord
<1>2. CASE ~(p.chosen # None /\ p.list[p.chosen] # None)
  <2>1. Requests(at)!ShownIn(p) = Requests(at)!First(p.list)
    BY <1>2 DEF Requests!ShownIn
  <2> QED
    BY <2>1, RequestFirstIsListed DEF Requests!PageRecord
<1> QED
  BY <1>1, <1>2

\* Something is shown of every list that is not empty, and nothing of an empty one.
LEMMA RequestSomeIsShown ==
  ASSUME NEW at, Requests(at)!Assumptions, NEW p \in Requests(at)!PageRecord
  PROVE  Requests(at)!ShownIn(p) # None <=> \E r \in Setting[at].RequestId : p.list[r] # None
<1>1. ASSUME NEW r \in Setting[at].RequestId, p.list[r] # None
      PROVE  Requests(at)!First(p.list) # None
  <2> DEFINE S == {q \in Setting[at].RequestId : p.list[q] # None}
  <2>1. PICK q \in S : \A u \in S : u <= q
    BY <1>1 DEF Requests!Assumptions
  <2>2. Requests(at)!First(p.list) = CHOOSE u \in Setting[at].RequestId :
          p.list[u] # None /\ \A v \in Setting[at].RequestId : p.list[v] # None => v <= u
    BY <1>1 DEF Requests!First
  <2>3. \E u \in Setting[at].RequestId :
          p.list[u] # None /\ \A v \in Setting[at].RequestId : p.list[v] # None => v <= u
    BY <2>1
  <2> QED
    BY <2>2, <2>3 DEF Requests!Assumptions
<1>2. ASSUME \A r \in Setting[at].RequestId : p.list[r] = None
      PROVE  Requests(at)!ShownIn(p) = None
  BY <1>2 DEF Requests!ShownIn, Requests!First, Requests!PageRecord
<1> QED
  BY <1>1, <1>2 DEF Requests!ShownIn

\* Whatever is rendered has the form of what is shown, if it had before and the list
\* has not become empty.
LEMMA RequestFormFollows ==
  ASSUME NEW at, NEW old \in Requests(at)!PageRecord, NEW p \in Requests(at)!PageRecord,
         NEW q \in {p, Requests(at)!FillFrom(p, Requests(at)!ShownIn(p))},
         old.of = Requests(at)!ShownIn(old), p.of = old.of,
         Requests(at)!ShownIn(old) # None => Requests(at)!ShownIn(p) # None
  PROVE  Requests(at)!Filled(old, q).of = Requests(at)!ShownIn(Requests(at)!Filled(old, q))
<1>1. /\ q.list = p.list /\ q.chosen = p.chosen
      /\ q.of \in {p.of, Requests(at)!ShownIn(p)}
  BY DEF Requests!FillFrom, Requests!PageRecord
<1>2. Requests(at)!ShownIn(q) = Requests(at)!ShownIn(p)
  BY <1>1 DEF Requests!ShownIn
<1> DEFINE new == Requests(at)!FillFrom(q, Requests(at)!ShownIn(q))
<1>3. new.list = q.list /\ new.chosen = q.chosen /\ new.of = Requests(at)!ShownIn(q)
  BY DEF Requests!FillFrom, Requests!PageRecord
<1>4. Requests(at)!ShownIn(new) = Requests(at)!ShownIn(q)
  BY <1>3 DEF Requests!ShownIn
<1>5. Requests(at)!Filled(old, q) = IF Requests(at)!ShownIn(q) # None
      /\ Requests(at)!IsNew(old, q, Requests(at)!ShownIn(q)) THEN new ELSE q
  BY DEF Requests!Filled
<1> HIDE DEF new
<1>6. CASE Requests(at)!ShownIn(q) # None /\ Requests(at)!IsNew(old, q, Requests(at)!ShownIn(q))
  BY <1>3, <1>4, <1>5, <1>6
<1>7. CASE ~(Requests(at)!ShownIn(q) # None /\ Requests(at)!IsNew(old, q, Requests(at)!ShownIn(q)))
  <2>1. Requests(at)!ShownIn(q) = Requests(at)!ShownIn(old)
    BY <1>2, <1>7 DEF Requests!IsNew
  <2> QED
    BY <1>1, <1>2, <1>5, <1>7, <2>1
<1> QED
  BY <1>6, <1>7

\* Filling the form changes nothing else of the page.
LEMMA RequestFilledIsPage ==
  ASSUME NEW at, Requests(at)!Assumptions, NEW p \in Requests(at)!PageRecord, NEW old
  PROVE  /\ Requests(at)!Filled(old, p) \in Requests(at)!PageRecord
         /\ Requests(at)!Filled(old, p).list = p.list
         /\ Requests(at)!ShownIn(p) # None =>
              Requests(at)!FillFrom(p, Requests(at)!ShownIn(p)) \in Requests(at)!PageRecord
                /\ Requests(at)!FillFrom(p, Requests(at)!ShownIn(p)).list = p.list
<1>1. CASE Requests(at)!ShownIn(p) = None
  BY <1>1 DEF Requests!Filled
<1>2. CASE Requests(at)!ShownIn(p) # None
  <2>1. /\ Requests(at)!ShownIn(p) \in Setting[at].RequestId
        /\ p.list[Requests(at)!ShownIn(p)] \in Requests(at)!Status
    BY <1>2, RequestShownIsListed DEF Requests!PageRecord
  <2>2. Requests(at)!FillFrom(p, Requests(at)!ShownIn(p)) \in Requests(at)!PageRecord
        /\ Requests(at)!FillFrom(p, Requests(at)!ShownIn(p)).list = p.list
    BY <2>1 DEF Requests!FillFrom, Requests!PageRecord
  <2>3. Requests(at)!Filled(old, p) \in {p, Requests(at)!FillFrom(p, Requests(at)!ShownIn(p))}
    BY DEF Requests!Filled
  <2> QED
    BY <2>2, <2>3
<1> QED
  BY <1>1, <1>2

-----------------------------------------------------------------------------
(* Service requests: steps *)

\* A step of workspace b that leaves rows and calls alone shows what exists.
LEMMA RequestShowsWhatExists ==
  ASSUME NEW at, Requests(at)!Assumptions, Requests(at)!DeskInv, NEW b \in Setting[at].Browser,
         NEW p \in Requests(at)!PageRecord,
         \A r \in Setting[at].RequestId : p.list[r] # None => rows[r] # Requests(at)!NoRow,
         p.of = Requests(at)!ShownIn(p),
         page' = [page EXCEPT ![b] = p],
         UNCHANGED <<now, rows, call>>
  PROVE  Requests(at)!DeskInv'
<1>1. Requests(at)!RowsSound'
  BY DEF Requests!DeskInv, Requests!RowsSound, Requests!Past, Requests!Agrees
<1>2. Requests(at)!PagesSound'
  BY DEF Requests!DeskInv, Requests!PagesSound
<1>3. Requests(at)!FormIsOfShown'
  BY DEF Requests!DeskInv, Requests!PagesSound, Requests!FormIsOfShown
<1> QED
  BY <1>1, <1>2, <1>3 DEF Requests!DeskInv

\* A workspace that renders a list keeps its page and its form sound.
LEMMA RequestRenderKeeps ==
  ASSUME NEW at, Requests(at)!Assumptions, Requests(at)!DeskInv, NEW b \in Setting[at].Browser,
         NEW p \in Requests(at)!PageRecord,
         NEW q \in {p, Requests(at)!FillFrom(p, Requests(at)!ShownIn(p))},
         q = p \/ Requests(at)!ShownIn(p) # None,
         \A r \in Setting[at].RequestId : p.list[r] # None => rows[r] # Requests(at)!NoRow,
         \A r \in Setting[at].RequestId : page[b].list[r] # None => p.list[r] # None,
         p.of = page[b].of,
         Requests(at)!Render(b, q)
  PROVE  Requests(at)!DeskInv'
<1>1. q \in Requests(at)!PageRecord /\ q.list = p.list
  BY RequestFilledIsPage
<1>2. /\ Requests(at)!Filled(page[b], q) \in Requests(at)!PageRecord
      /\ Requests(at)!Filled(page[b], q).list = p.list
  <2>1. ASSUME NEW x \in Requests(at)!PageRecord
        PROVE  Requests(at)!Filled(page[b], x) \in Requests(at)!PageRecord
               /\ Requests(at)!Filled(page[b], x).list = x.list
    BY RequestFilledIsPage
  <2> QED
    BY <1>1, <2>1
<1>3. page[b] \in Requests(at)!PageRecord /\ page[b].of = Requests(at)!ShownIn(page[b])
  BY DEF Requests!DeskInv, Requests!PagesSound, Requests!FormIsOfShown
<1>4. Requests(at)!ShownIn(page[b]) # None => Requests(at)!ShownIn(p) # None
  BY <1>3, RequestSomeIsShown
<1>5. Requests(at)!Filled(page[b], q).of = Requests(at)!ShownIn(Requests(at)!Filled(page[b], q))
  BY <1>3, <1>4, RequestFormFollows
<1> QED
  BY <1>2, <1>5, RequestShowsWhatExists DEF Requests!Render

\* A list that arrives keeps the invariant.
LEMMA RequestRefetchKeeps ==
  ASSUME NEW at, Requests(at)!Assumptions, Requests(at)!DeskInv, NEW b \in Setting[at].Browser,
         Requests(at)!Refetch(b)
  PROVE  Requests(at)!DeskInv'
<1> DEFINE list == [r \in Setting[at].RequestId |-> rows[r].status]
           new  == [page[b] EXCEPT !.list = list,
             !.chosen = IF @ = None THEN Requests(at)!First(list) ELSE @]
<1>1. page[b] \in Requests(at)!PageRecord
  BY DEF Requests!DeskInv, Requests!PagesSound
<1>2. list \in [Setting[at].RequestId -> Requests(at)!Status \cup {None}]
  BY DEF Requests!DeskInv, Requests!RowsSound, Requests!Row, Requests!NoRow
<1>3. Requests(at)!First(list) \in Setting[at].RequestId \cup {None}
  BY <1>2, RequestFirstIsListed
<1>4. new \in Requests(at)!PageRecord /\ new.list = list /\ new.of = page[b].of
  BY <1>1, <1>2, <1>3 DEF Requests!PageRecord
<1>5. /\ \A r \in Setting[at].RequestId : new.list[r] # None => rows[r] # Requests(at)!NoRow
      /\ \A r \in Setting[at].RequestId : page[b].list[r] # None => new.list[r] # None
  BY <1>4 DEF Requests!NoRow, Requests!Row, Requests!DeskInv, Requests!RowsSound,
     Requests!PagesSound, Requests!Assumptions
<1>6. \/ Requests(at)!Render(b, new)
      \/ Requests(at)!ShownIn(new) # None
         /\ Requests(at)!Render(b, Requests(at)!FillFrom(new, Requests(at)!ShownIn(new)))
  BY DEF Requests!Refetch
<1> HIDE DEF new
<1> QED
  BY <1>4, <1>5, <1>6, RequestRenderKeeps

\* A selection fills the form with what is selected.
LEMMA RequestSelectKeeps ==
  ASSUME NEW at, Requests(at)!Assumptions, Requests(at)!DeskInv, NEW b \in Setting[at].Browser,
         Requests(at)!Select(b)
  PROVE  Requests(at)!DeskInv'
<1>1. PICK r \in Setting[at].RequestId : Requests(at)!Render(b, [page[b] EXCEPT !.chosen = r])
  BY DEF Requests!Select
<1> DEFINE p == [page[b] EXCEPT !.chosen = r]
<1>2. p \in Requests(at)!PageRecord /\ p.list = page[b].list /\ p.of = page[b].of
  BY DEF Requests!DeskInv, Requests!PagesSound, Requests!PageRecord
<1>3. Requests(at)!Render(b, p)
  BY <1>1
<1>4. \A q \in Setting[at].RequestId : page[b].list[q] # None => rows[q] # Requests(at)!NoRow
  BY DEF Requests!DeskInv, Requests!PagesSound
<1> HIDE DEF p
<1> QED
  BY <1>2, <1>3, <1>4, RequestRenderKeeps

\* What is entered stays in the form of the request shown.
LEMMA RequestEnterStatusKeeps ==
  ASSUME NEW at, Requests(at)!Assumptions, Requests(at)!DeskInv, NEW b \in Setting[at].Browser,
         Requests(at)!EnterStatus(b)
  PROVE  Requests(at)!DeskInv'
<1>1. PICK s \in Setting[at].Offered : page' = [page EXCEPT ![b].status = s]
  BY DEF Requests!EnterStatus
<1> DEFINE p == [page[b] EXCEPT !.status = s]
<1>2. /\ p \in Requests(at)!PageRecord /\ p.list = page[b].list
      /\ p.of = page[b].of /\ p.chosen = page[b].chosen
  BY DEF Requests!DeskInv, Requests!PagesSound, Requests!PageRecord, Requests!Assumptions
<1>3. page' = [page EXCEPT ![b] = p]
  BY <1>1
<1>4. \A r \in Setting[at].RequestId : p.list[r] # None => rows[r] # Requests(at)!NoRow
  BY <1>2 DEF Requests!DeskInv, Requests!PagesSound
<1>5. UNCHANGED <<now, rows, call>>
  BY DEF Requests!EnterStatus
<1>6. p.of = Requests(at)!ShownIn(p)
  BY <1>2 DEF Requests!DeskInv, Requests!FormIsOfShown, Requests!ShownIn
<1> HIDE DEF p
<1> QED
  BY <1>2, <1>3, <1>4, <1>5, <1>6, RequestShowsWhatExists

\* A save is for a request that is shown, and so exists.
LEMMA RequestSaveKeeps ==
  ASSUME NEW at, Requests(at)!Assumptions, Requests(at)!DeskInv, NEW b \in Setting[at].Browser,
         Requests(at)!Save(b)
  PROVE  Requests(at)!DeskInv'
<1>1. /\ Requests(at)!ShownIn(page[b]) \in Setting[at].RequestId
      /\ page[b].list[Requests(at)!ShownIn(page[b])] # None
  BY RequestShownIsListed DEF Requests!Save, Requests!DeskInv, Requests!PagesSound
<1>2. PICK s \in {page[b].status, None} :
        call' = [call EXCEPT ![b]
          = [Requests(at)!NoCall EXCEPT !.pc = "find", !.id = Requests(at)!ShownIn(page[b]),
                                                   !.status = s]]
  BY DEF Requests!Save
<1>3. s \in Requests(at)!Status \cup {None}
  BY DEF Requests!DeskInv, Requests!PagesSound, Requests!PageRecord
<1> DEFINE c == [Requests(at)!NoCall EXCEPT !.pc = "find", !.id = Requests(at)!ShownIn(page[b]),
         !.status = s]
<1>4. call' = [call EXCEPT ![b] = c]
  BY <1>2
<1>5. c \in Requests(at)!CallRecord /\ c.pc = "find" /\ c.id = Requests(at)!ShownIn(page[b])
  BY <1>1, <1>3 DEF Requests!CallRecord, Requests!NoCall
<1> HIDE DEF c
<1>6. rows[Requests(at)!ShownIn(page[b])] # Requests(at)!NoRow
  BY <1>1 DEF Requests!DeskInv, Requests!PagesSound
<1>7. Requests(at)!RowsSound'
  BY <1>4, <1>5, <1>6
   DEF Requests!DeskInv, Requests!RowsSound, Requests!Past, Requests!Agrees, Requests!Save
<1>8. Requests(at)!PagesSound'
  BY DEF Requests!DeskInv, Requests!PagesSound, Requests!Save
<1>9. Requests(at)!FormIsOfShown'
  BY DEF Requests!DeskInv, Requests!FormIsOfShown, Requests!Save
<1> QED
  BY <1>7, <1>8, <1>9 DEF Requests!DeskInv

\* What a save reads is a row whose time stamps agree with its status,
LEMMA RequestFindKeeps ==
  ASSUME NEW at, Requests(at)!Assumptions, Requests(at)!DeskInv, NEW b \in Setting[at].Browser,
         Requests(at)!Find(b)
  PROVE  Requests(at)!DeskInv'
<1> DEFINE c == [call[b] EXCEPT !.pc = "update", !.row = rows[call[b].id]]
<1>1. call[b].id \in Setting[at].RequestId /\ call[b].status \in Requests(at)!Status \cup {None}
  BY DEF Requests!DeskInv, Requests!RowsSound, Requests!CallRecord, Requests!NoCall, Requests!Find
<1>2. rows[call[b].id] \in Requests(at)!Row /\ Requests(at)!Agrees(rows[call[b].id])
      /\ Requests(at)!Past(rows[call[b].id])
  BY <1>1 DEF Requests!DeskInv, Requests!RowsSound, Requests!Find
<1>3. call' = [call EXCEPT ![b] = c]
  BY DEF Requests!Find
<1>4. c \in Requests(at)!CallRecord /\ c.pc = "update" /\ c.row = rows[call[b].id]
  BY <1>1, <1>2
   DEF Requests!DeskInv, Requests!RowsSound, Requests!CallRecord, Requests!NoCall, Requests!Find
<1> HIDE DEF c
<1>5. Requests(at)!RowsSound'
  <2>1. \A a \in Setting[at].Browser \ {b} : call'[a] = call[a]
    BY <1>3 DEF Requests!DeskInv, Requests!RowsSound
  <2>2. call'[b] = c
    BY <1>3 DEF Requests!DeskInv, Requests!RowsSound
  <2>3. call' \in [Setting[at].Browser -> Requests(at)!CallRecord]
    BY <1>3, <1>4 DEF Requests!DeskInv, Requests!RowsSound
  <2>4. \A a \in Setting[at].Browser : call'[a].pc = "update"
        => Requests(at)!Agrees(call'[a].row) /\ Requests(at)!Past(call'[a].row)
    BY <1>2, <1>4, <2>1, <2>2 DEF Requests!DeskInv, Requests!RowsSound
  <2>5. \A a \in Setting[at].Browser : call'[a].pc = "find"
        => rows[call'[a].id] # Requests(at)!NoRow
    BY <1>4, <2>1, <2>2 DEF Requests!DeskInv, Requests!RowsSound
  <2> QED
    BY <2>3, <2>4, <2>5
     DEF Requests!DeskInv, Requests!RowsSound, Requests!Past, Requests!Agrees, Requests!Find
<1>6. Requests(at)!PagesSound'
  BY DEF Requests!DeskInv, Requests!PagesSound, Requests!Find
<1>7. Requests(at)!FormIsOfShown'
  BY DEF Requests!DeskInv, Requests!FormIsOfShown, Requests!Find
<1> QED
  BY <1>5, <1>6, <1>7 DEF Requests!DeskInv

\* What a save writes agrees with its status, if what it has read did with its own.
LEMMA RequestWithStatusAgrees ==
  ASSUME NEW at, Requests(at)!Assumptions, now \in Requests(at)!Time, NEW r,
         NEW s \in Requests(at)!Status, NEW row \in Requests(at)!Row,
         Requests(at)!Agrees(row), Requests(at)!Past(row)
  PROVE  /\ Requests(at)!WithStatus(r, s, row) \in Requests(at)!Row
         /\ Requests(at)!Agrees(Requests(at)!WithStatus(r, s, row))
            /\ Requests(at)!Past(Requests(at)!WithStatus(r, s, row))
BY DEF Requests!Assumptions, Requests!WithStatus, Requests!OrNow, Requests!Row, Requests!Agrees,
       Requests!Past, Requests!Time, Requests!Received, Requests!Resolved, Requests!Status

\* and so they do in what it writes over the row there is by then.
LEMMA RequestUpdateKeeps ==
  ASSUME NEW at, Requests(at)!Assumptions, Requests(at)!DeskInv, NEW b \in Setting[at].Browser,
         Requests(at)!Update(b)
  PROVE  Requests(at)!DeskInv'
<1> DEFINE c == call[b]
           new == Requests(at)!WithStatus(c.id, c.status, c.row)
<1>1. c.id \in Setting[at].RequestId /\ c.status \in Requests(at)!Status \cup {None}
      /\ c.row \in Requests(at)!Row
  BY DEF Requests!DeskInv, Requests!RowsSound, Requests!CallRecord, Requests!NoCall, Requests!Update
<1>2. Requests(at)!Agrees(c.row) /\ Requests(at)!Past(c.row)
  BY DEF Requests!DeskInv, Requests!RowsSound, Requests!Update
<1>3. c.status # None
      => new \in Requests(at)!Row /\ Requests(at)!Agrees(new) /\ Requests(at)!Past(new)
  BY <1>1, <1>2, RequestWithStatusAgrees DEF Requests!DeskInv, Requests!RowsSound
<1>4. \A row \in Requests(at)!Row : row # Requests(at)!NoRow
  BY DEF Requests!NoRow, Requests!Assumptions, Requests!Row
<1>5. /\ rows' = IF c.status = None THEN rows ELSE [rows EXCEPT ![c.id] = new]
      /\ call' = [call EXCEPT ![b] = Requests(at)!NoCall]
      /\ UNCHANGED <<now, page>>
  BY DEF Requests!Update
<1>6. Requests(at)!NoCall \in Requests(at)!CallRecord /\ Requests(at)!NoCall.pc = "idle"
  BY DEF Requests!NoCall, Requests!CallRecord
<1> HIDE DEF new
<1>7. \A r \in Setting[at].RequestId : rows[r] # Requests(at)!NoRow => rows'[r] # Requests(at)!NoRow
  BY <1>1, <1>3, <1>4, <1>5 DEF Requests!DeskInv, Requests!RowsSound
<1>8. Requests(at)!RowsSound'
  <2>1. rows' \in [Setting[at].RequestId -> {Requests(at)!NoRow} \cup Requests(at)!Row]
    BY <1>1, <1>3, <1>5 DEF Requests!DeskInv, Requests!RowsSound
  <2>2. \A r \in Setting[at].RequestId : rows'[r] # Requests(at)!NoRow
        => Requests(at)!Agrees(rows'[r]) /\ Requests(at)!Past(rows'[r])
    BY <1>1, <1>3, <1>5 DEF Requests!DeskInv, Requests!RowsSound
  <2>3. call' \in [Setting[at].Browser -> Requests(at)!CallRecord]
    BY <1>5, <1>6 DEF Requests!DeskInv, Requests!RowsSound
  <2> QED
    BY <1>5, <1>6, <1>7, <2>1, <2>2, <2>3
     DEF Requests!DeskInv, Requests!RowsSound, Requests!Past, Requests!Agrees, Requests!CallRecord,
     Requests!NoCall
<1>9. Requests(at)!PagesSound'
  BY <1>5, <1>7 DEF Requests!DeskInv, Requests!PagesSound
<1>10. Requests(at)!FormIsOfShown'
  BY <1>5 DEF Requests!DeskInv, Requests!FormIsOfShown
<1> QED
  BY <1>8, <1>9, <1>10 DEF Requests!DeskInv

\* A save that fails changes no row.
LEMMA RequestFailsKeeps ==
  ASSUME NEW at, Requests(at)!Assumptions, Requests(at)!DeskInv, NEW b \in Setting[at].Browser,
         Requests(at)!Fails(b)
  PROVE  Requests(at)!DeskInv'
<1>1. Requests(at)!RowsSound'
  BY DEF Requests!DeskInv, Requests!RowsSound, Requests!Past, Requests!Agrees, Requests!Fails,
         Requests!NoCall, Requests!CallRecord
<1>2. Requests(at)!PagesSound'
  BY DEF Requests!DeskInv, Requests!PagesSound, Requests!Fails
<1>3. Requests(at)!FormIsOfShown'
  BY DEF Requests!DeskInv, Requests!FormIsOfShown, Requests!Fails
<1> QED
  BY <1>1, <1>2, <1>3 DEF Requests!DeskInv

\* A new request has no time stamps.
LEMMA RequestCreateKeeps ==
  ASSUME NEW at, Requests(at)!Assumptions, Requests(at)!DeskInv, NEW q \in Setting[at].RequestId,
         Requests(at)!Create(q)
  PROVE  Requests(at)!DeskInv'
<1>1. Requests(at)!NewRow \in Requests(at)!Row /\ Requests(at)!Agrees(Requests(at)!NewRow)
      /\ Requests(at)!NewRow.receivedAt = None /\ Requests(at)!NewRow # Requests(at)!NoRow
  BY DEF Requests!NewRow, Requests!NoRow, Requests!Row, Requests!Agrees, Requests!Received,
         Requests!Resolved, Requests!Status, Requests!Assumptions
<1>2. rows' = [rows EXCEPT ![q] = Requests(at)!NewRow] /\ UNCHANGED <<now, page, call>>
  BY DEF Requests!Create
<1> HIDE DEF Requests!NewRow
<1>3. Requests(at)!RowsSound'
  BY <1>1, <1>2
   DEF Requests!DeskInv, Requests!RowsSound, Requests!Past, Requests!Agrees, Requests!CallRecord,
   Requests!NoCall
<1>4. Requests(at)!PagesSound'
  BY <1>1, <1>2 DEF Requests!DeskInv, Requests!PagesSound, Requests!RowsSound
<1>5. Requests(at)!FormIsOfShown'
  BY <1>2 DEF Requests!DeskInv, Requests!FormIsOfShown
<1> QED
  BY <1>3, <1>4, <1>5 DEF Requests!DeskInv

\* Time only makes the stamps older.
LEMMA RequestTickKeeps ==
  ASSUME NEW at, Requests(at)!Assumptions, Requests(at)!DeskInv, Requests(at)!Tick
  PROVE  Requests(at)!DeskInv'
<1>1. now' \in Requests(at)!Time /\ now <= now'
  BY DEF Requests!DeskInv, Requests!RowsSound, Requests!Tick, Requests!Time, Requests!Assumptions
<1>2. ASSUME NEW row \in Requests(at)!Row, Requests(at)!Past(row)
      PROVE  Requests(at)!Past(row)'
  BY <1>1, <1>2
   DEF Requests!Past, Requests!Row, Requests!Time, Requests!DeskInv, Requests!RowsSound,
   Requests!Assumptions
<1>3. \A r \in Setting[at].RequestId : rows[r] # Requests(at)!NoRow => Requests(at)!Past(rows[r])'
  BY <1>2 DEF Requests!Tick, Requests!DeskInv, Requests!RowsSound, Requests!Past
<1>4. \A b \in Setting[at].Browser : call[b].pc = "update" => Requests(at)!Past(call[b].row)'
  BY <1>2 DEF Requests!Tick, Requests!DeskInv, Requests!RowsSound, Requests!Past,
     Requests!CallRecord, Requests!NoCall
<1> QED
  BY <1>1, <1>3, <1>4
   DEF Requests!Tick, Requests!DeskInv, Requests!RowsSound, Requests!PagesSound,
   Requests!FormIsOfShown, Requests!Agrees, Requests!Past

-----------------------------------------------------------------------------
\* A desk starts sound,
LEMMA RequestInit ==
  ASSUME NEW at, Requests(at)!Assumptions, Requests(at)!Init
  PROVE  Requests(at)!DeskInv
<1>1. Requests(at)!NoCall \in Requests(at)!CallRecord /\ Requests(at)!NoCall.pc = "idle"
  BY DEF Requests!NoCall, Requests!CallRecord
<1>2. Requests(at)!NewPage \in Requests(at)!PageRecord
      /\ \A r \in Setting[at].RequestId : Requests(at)!NewPage.list[r] = None
  BY DEF Requests!NewPage, Requests!PageRecord, Requests!Status
<1>3. Requests(at)!RowsSound
  BY <1>1 DEF Requests!Init, Requests!RowsSound, Requests!Time, Requests!Assumptions
<1>4. Requests(at)!PagesSound
  BY <1>2 DEF Requests!Init, Requests!PagesSound
<1>5. Requests(at)!FormIsOfShown
  BY DEF Requests!Init, Requests!FormIsOfShown, Requests!NewPage, Requests!ShownIn, Requests!First
<1> QED
  BY <1>3, <1>4, <1>5 DEF Requests!DeskInv

\* and stays so.
LEMMA RequestStep ==
  ASSUME NEW at, Requests(at)!Assumptions, Requests(at)!DeskInv,
         [Requests(at)!Next]_(Requests(at)!vars)
  PROVE  Requests(at)!DeskInv'
<1>1. CASE Requests(at)!Tick
  BY <1>1, RequestTickKeeps
<1>2. CASE \E r \in Setting[at].RequestId : Requests(at)!Create(r)
  BY <1>2, RequestCreateKeeps
<1>3. ASSUME NEW b \in Setting[at].Browser,
             Requests(at)!Refetch(b) \/ Requests(at)!Select(b) \/ Requests(at)!EnterStatus(b)
               \/ Requests(at)!Save(b)
               \/ Requests(at)!Find(b) \/ Requests(at)!Update(b) \/ Requests(at)!Fails(b)
      PROVE  Requests(at)!DeskInv'
  BY <1>3, RequestRefetchKeeps, RequestSelectKeeps, RequestEnterStatusKeeps, RequestSaveKeeps,
     RequestFindKeeps, RequestUpdateKeeps,
     RequestFailsKeeps
<1>4. CASE UNCHANGED Requests(at)!vars
  BY <1>4 DEF Requests!vars, Requests!DeskInv, Requests!RowsSound, Requests!PagesSound,
     Requests!FormIsOfShown, Requests!Past, Requests!Agrees
<1> QED
  BY <1>1, <1>2, <1>3, <1>4 DEF Requests!Next

\* A sound desk has the types, and time stamps that agree with the status.
LEMMA RequestImplies ==
  ASSUME NEW at
  PROVE  Requests(at)!DeskInv
         => Requests(at)!TypeOK /\ Requests(at)!TimestampsAgree /\ Requests(at)!FormIsOfShown
BY DEF Requests!DeskInv, Requests!RowsSound, Requests!PagesSound, Requests!PageRecord,
       Requests!TypeOK, Requests!TimestampsAgree

-----------------------------------------------------------------------------
(* Notices *)

\* A list that is not empty has a first notice.
LEMMA NoticeFirstIsListed ==
  ASSUME NEW at, Notices(at)!Assumptions,
         NEW list \in [Setting[at].NoticeId -> {None} \cup Notices(at)!Row],
         Notices(at)!Listed(list) # {}
  PROVE  Notices(at)!First(list) \in Notices(at)!Listed(list)
<1> DEFINE L == Notices(at)!Listed(list)
           T == {list[n].updatedAt : n \in L}
<1>1. \A n \in L : n \in Setting[at].NoticeId /\ list[n] \in Notices(at)!Row
      /\ list[n].updatedAt \in 1..Setting[at].MaxTime
  BY DEF Notices!Listed, Notices!Row, Notices!Time
<1>2. T \in SUBSET (0..Setting[at].MaxTime) /\ T # {} /\ Setting[at].MaxTime \in Nat
  BY <1>1 DEF Notices!Assumptions
<1>3. PICK t \in T : \A u \in T : u <= t
  BY <1>2, GreatestUpTo
<1> DEFINE S == {n \in L : list[n].updatedAt = t}
<1>4. S \in SUBSET Setting[at].NoticeId /\ S # {}
  BY <1>1, <1>3
<1>5. PICK n \in S : \A m \in S : m <= n
  BY <1>4 DEF Notices!Assumptions
<1>6. ASSUME NEW m \in L \ {n} PROVE Notices(at)!Before(list, n, m)
  <2>1. list[m].updatedAt <= t
    BY <1>3, <1>6
  <2> m \in L /\ n \in L
    BY <1>5, <1>6
  <2> L \subseteq Setting[at].NoticeId /\ Setting[at].NoticeId \subseteq Int
    BY <1>1 DEF Notices!Assumptions
  <2> list[m].updatedAt \in Int /\ list[n].updatedAt = t
    BY <1>1, <1>2, <1>5
  <2> t \in Int
    BY <1>2, <1>3
  <2> HIDE DEF L
  <2> m \in Int /\ n \in Int /\ n # m
    BY <1>6
  <2>2. CASE list[m].updatedAt = t
    BY <1>5, <2>1, <2>2 DEF Notices!Before
  <2>3. CASE list[m].updatedAt # t
    BY <1>5, <2>1, <2>3 DEF Notices!Before
  <2> QED
    BY <2>2, <2>3
<1>7. Notices(at)!First(list) = CHOOSE k \in L : \A m \in L \ {k} : Notices(at)!Before(list, k, m)
  BY DEF Notices!First
<1> HIDE DEF L
<1>8. n \in L
  BY <1>5
<1>9. Notices(at)!First(list) \in L
  BY <1>6, <1>7, <1>8
<1> QED
  BY <1>9 DEF L

\* Something is shown of every list that is not empty, and it is listed.
LEMMA NoticeSomeIsShown ==
  ASSUME NEW at, Notices(at)!Assumptions, NEW p \in Notices(at)!PageRecord
  PROVE  /\ Notices(at)!Listed(p.list) # {} => Notices(at)!ShownIn(p) \in Notices(at)!Listed(p.list)
         /\ Notices(at)!Listed(p.list) = {} => Notices(at)!ShownIn(p) = None
         /\ None \notin Notices(at)!Listed(p.list)
<1>1. p.list \in [Setting[at].NoticeId -> {None} \cup Notices(at)!Row]
  BY DEF Notices!PageRecord
<1>2. None \notin Notices(at)!Listed(p.list)
  BY DEF Notices!Listed, Notices!Assumptions
<1>3. Notices(at)!Listed(p.list) # {} => Notices(at)!ShownIn(p) \in Notices(at)!Listed(p.list)
  BY <1>1, NoticeFirstIsListed DEF Notices!ShownIn
<1>4. Notices(at)!Listed(p.list) = {} => Notices(at)!ShownIn(p) = None
  BY DEF Notices!ShownIn, Notices!First
<1> QED
  BY <1>2, <1>3, <1>4

\* Whatever is rendered has the form of what is shown, if it had before and the list
\* has not become empty.
LEMMA NoticeFilledKeeps ==
  ASSUME NEW at, Notices(at)!Assumptions, NEW old \in Notices(at)!PageRecord,
         NEW p \in Notices(at)!PageRecord,
         old.of = Notices(at)!ShownIn(old), p.of = old.of,
           Notices(at)!Listed(old.list) \subseteq Notices(at)!Listed(p.list)
  PROVE  /\ Notices(at)!Filled(old, p) \in Notices(at)!PageRecord
         /\ Notices(at)!Filled(old, p).list = p.list
         /\ Notices(at)!Filled(old, p).of = Notices(at)!ShownIn(Notices(at)!Filled(old, p))
<1> DEFINE n == Notices(at)!ShownIn(p)
           new == Notices(at)!FillFrom(p, n)
           fills == n # None /\ (\/ n # Notices(at)!ShownIn(old) \/ p.list[n] # old.list[n]
                                \/ Notices(at)!Place(p.list, n) # Notices(at)!Place(old.list, n))
<1>1. Notices(at)!Filled(old, p) = IF fills THEN new ELSE p
  BY DEF Notices!Filled
<1>2. CASE fills
  <2>1. n \in Setting[at].NoticeId /\ p.list[n] \in Notices(at)!Row
    BY <1>2, NoticeSomeIsShown DEF Notices!Listed, Notices!PageRecord
  <2>2. new \in Notices(at)!PageRecord /\ new.list = p.list /\ new.chosen = p.chosen /\ new.of = n
    BY <2>1 DEF Notices!FillFrom, Notices!PageRecord, Notices!Row
  <2>3. Notices(at)!ShownIn(new) = n
    BY <2>2 DEF Notices!ShownIn
  <2> QED
    BY <1>1, <1>2, <2>2, <2>3
<1>3. CASE ~fills
  <2>1. Notices(at)!Filled(old, p) = p
    BY <1>1, <1>3
  <2>2. CASE n = None
    <3>1. Notices(at)!Listed(old.list) = {}
      BY <2>2, NoticeSomeIsShown
    <3>2. Notices(at)!ShownIn(old) = None
      BY <3>1, NoticeSomeIsShown
    <3> QED
      BY <2>1, <2>2, <3>2
  <2>3. CASE n # None
    BY <1>3, <2>1, <2>3
  <2> QED
    BY <2>2, <2>3
<1> QED
  BY <1>2, <1>3

-----------------------------------------------------------------------------
(* Notices: steps *)

\* A step of workspace b that leaves rows alone shows what exists.
LEMMA NoticeShowsWhatExists ==
  ASSUME NEW at, Notices(at)!Assumptions, Notices(at)!BoardInv, NEW b \in Setting[at].Browser,
         NEW p \in Notices(at)!PageRecord,
         Notices(at)!Listed(p.list) \subseteq Notices(at)!Listed(rows),
           p.of = Notices(at)!ShownIn(p),
         page' = [page EXCEPT ![b] = p], UNCHANGED rows
  PROVE  Notices(at)!PagesSound' /\ Notices(at)!EditsShown'
<1>1. Notices(at)!Listed(rows)' = Notices(at)!Listed(rows)
  BY DEF Notices!Listed
<1>2. page \in [Setting[at].Browser -> Notices(at)!PageRecord]
  BY DEF Notices!BoardInv, Notices!PagesSound
<1>3. Notices(at)!PagesSound'
  BY <1>1, <1>2
   DEF Notices!BoardInv, Notices!PagesSound, Notices!PageRecord, Notices!Row, Notices!Time
<1>4. Notices(at)!EditsShown'
  BY <1>2 DEF Notices!BoardInv, Notices!EditsShown
<1> QED
  BY <1>3, <1>4

\* A workspace that renders a longer list keeps pages and editors sound.
LEMMA NoticeRenderKeeps ==
  ASSUME NEW at, Notices(at)!Assumptions, Notices(at)!BoardInv, NEW b \in Setting[at].Browser,
         NEW p \in Notices(at)!PageRecord,
         p.of = page[b].of, Notices(at)!Listed(page[b].list) \subseteq Notices(at)!Listed(p.list),
         Notices(at)!Listed(p.list) \subseteq Notices(at)!Listed(rows),
         page' = [page EXCEPT ![b] = Notices(at)!Filled(page[b], p)], UNCHANGED rows
  PROVE  Notices(at)!PagesSound' /\ Notices(at)!EditsShown'
<1>1. page[b] \in Notices(at)!PageRecord /\ page[b].of = Notices(at)!ShownIn(page[b])
  BY DEF Notices!BoardInv, Notices!PagesSound, Notices!EditsShown
<1>2. /\ Notices(at)!Filled(page[b], p) \in Notices(at)!PageRecord
      /\ Notices(at)!Filled(page[b], p).list = p.list
      /\ Notices(at)!Filled(page[b], p).of = Notices(at)!ShownIn(Notices(at)!Filled(page[b], p))
  BY <1>1, NoticeFilledKeeps
<1> QED
  BY <1>2, NoticeShowsWhatExists

\* The rows and requests do not change with a page.
LEMMA NoticeRowsKeep ==
  ASSUME NEW at, Notices(at)!BoardInv, UNCHANGED <<now, rows, call>>
  PROVE  Notices(at)!RowsSound'
BY DEF Notices!BoardInv, Notices!RowsSound, Notices!RowSound, Notices!CallSound, Notices!Agrees,
       Notices!Listed, Notices!Row, Notices!Time, Notices!CallRecord

\* A list that arrives keeps the invariant.
LEMMA NoticeRefetchKeeps ==
  ASSUME NEW at, Notices(at)!Assumptions, Notices(at)!BoardInv, NEW b \in Setting[at].Browser,
         Notices(at)!Refetch(b)
  PROVE  Notices(at)!BoardInv'
<1> DEFINE p == [page[b] EXCEPT !.list = rows,
                     !.chosen = IF page[b].chosen = None THEN Notices(at)!First(rows)
                       ELSE page[b].chosen]
<1>1. page[b] \in Notices(at)!PageRecord
      /\ rows \in [Setting[at].NoticeId -> {None} \cup Notices(at)!Row]
  BY DEF Notices!BoardInv, Notices!PagesSound, Notices!RowsSound
<1>2. Notices(at)!First(rows) \in Setting[at].NoticeId \cup {None}
  <2>1. CASE Notices(at)!Listed(rows) = {}
    BY <2>1 DEF Notices!First
  <2>2. CASE Notices(at)!Listed(rows) # {}
    BY <1>1, <2>2, NoticeFirstIsListed DEF Notices!Listed
  <2> QED
    BY <2>1, <2>2
<1>3. p \in Notices(at)!PageRecord /\ p.list = rows /\ p.of = page[b].of
  BY <1>1, <1>2 DEF Notices!PageRecord
<1>4. page' = [page EXCEPT ![b] = Notices(at)!Filled(page[b], p)] /\ UNCHANGED <<now, rows, call>>
  BY DEF Notices!Refetch, Notices!BoardInv, Notices!PagesSound
<1> HIDE DEF p
<1>5. Notices(at)!Listed(page[b].list) \subseteq Notices(at)!Listed(rows)
  BY DEF Notices!BoardInv, Notices!PagesSound
<1>6. Notices(at)!PagesSound' /\ Notices(at)!EditsShown'
  BY <1>3, <1>4, <1>5, NoticeRenderKeeps
<1> QED
  BY <1>4, <1>6, NoticeRowsKeep DEF Notices!BoardInv

\* A selection fills the editor with what is selected.
LEMMA NoticeSelectKeeps ==
  ASSUME NEW at, Notices(at)!Assumptions, Notices(at)!BoardInv, NEW b \in Setting[at].Browser,
         Notices(at)!Select(b)
  PROVE  Notices(at)!BoardInv'
<1>1. PICK n \in Notices(at)!Listed(page[b].list) :
        page' = [page EXCEPT ![b] = Notices(at)!Filled(@, [@ EXCEPT !.chosen = n])]
  BY DEF Notices!Select
<1> DEFINE p == [page[b] EXCEPT !.chosen = n]
<1>2. p \in Notices(at)!PageRecord /\ p.list = page[b].list /\ p.of = page[b].of
  BY DEF Notices!BoardInv, Notices!PagesSound, Notices!PageRecord, Notices!Listed
<1>3. page' = [page EXCEPT ![b] = Notices(at)!Filled(page[b], p)] /\ UNCHANGED <<now, rows, call>>
  BY <1>1 DEF Notices!Select, Notices!BoardInv, Notices!PagesSound
<1> HIDE DEF p
<1>4. Notices(at)!PagesSound' /\ Notices(at)!EditsShown'
  BY <1>2, <1>3, NoticeRenderKeeps DEF Notices!BoardInv, Notices!PagesSound
<1> QED
  BY <1>3, <1>4, NoticeRowsKeep DEF Notices!BoardInv

\* What is entered in the editor stays that of the notice shown.
LEMMA NoticeEditStatusKeeps ==
  ASSUME NEW at, Notices(at)!Assumptions, Notices(at)!BoardInv, NEW b \in Setting[at].Browser,
         Notices(at)!EditStatus(b)
  PROVE  Notices(at)!BoardInv'
<1>1. PICK st \in Notices(at)!Status : page' = [page EXCEPT ![b].status = st]
  BY DEF Notices!EditStatus
<1> DEFINE p == [page[b] EXCEPT !.status = st]
<1>2. /\ p \in Notices(at)!PageRecord /\ p.list = page[b].list
      /\ p.of = page[b].of /\ p.chosen = page[b].chosen
  BY DEF Notices!BoardInv, Notices!PagesSound, Notices!PageRecord
<1>3. page' = [page EXCEPT ![b] = p] /\ UNCHANGED <<now, rows, call>>
  BY <1>1 DEF Notices!EditStatus
<1>4. p.of = Notices(at)!ShownIn(p)
  BY <1>2 DEF Notices!BoardInv, Notices!EditsShown, Notices!ShownIn
<1> HIDE DEF p
<1>5. Notices(at)!PagesSound' /\ Notices(at)!EditsShown'
  BY <1>2, <1>3, <1>4, NoticeShowsWhatExists DEF Notices!BoardInv, Notices!PagesSound
<1> QED
  BY <1>3, <1>5, NoticeRowsKeep DEF Notices!BoardInv

\* A step that changes the request of b alone.
LEMMA NoticeCallStepKeeps ==
  ASSUME NEW at, Notices(at)!BoardInv, NEW b \in Setting[at].Browser, NEW c,
         Notices(at)!CallSound(c),
         call' = [call EXCEPT ![b] = c], UNCHANGED <<now, rows>>
  PROVE  Notices(at)!RowsSound'
<1>1. \A a \in Setting[at].Browser : call'[a] = IF a = b THEN c ELSE call[a]
  BY DEF Notices!BoardInv, Notices!RowsSound
<1>2. \A a \in Setting[at].Browser : Notices(at)!CallSound(call'[a])
  BY <1>1 DEF Notices!BoardInv, Notices!RowsSound
<1>3. \A x : Notices(at)!CallSound(x)' <=> Notices(at)!CallSound(x)
  BY DEF Notices!CallSound, Notices!RowSound, Notices!Agrees, Notices!CallRecord, Notices!Row,
         Notices!Time
<1> QED
  BY <1>2 DEF Notices!BoardInv, Notices!RowsSound, Notices!RowSound, Notices!Agrees,
     Notices!CallSound, Notices!CallRecord, Notices!Row, Notices!Time, Notices!Listed

\* Pages and editors stay sound while neither rows nor pages change.
LEMMA NoticePagesKeep ==
  ASSUME NEW at, Notices(at)!BoardInv, UNCHANGED <<rows, page>>
  PROVE  Notices(at)!PagesSound' /\ Notices(at)!EditsShown'
BY DEF Notices!BoardInv, Notices!PagesSound, Notices!EditsShown, Notices!Listed

\* A request is about the notice whose editor is open.
LEMMA NoticeSubmitKeeps ==
  ASSUME NEW at, Notices(at)!Assumptions, Notices(at)!BoardInv, NEW b \in Setting[at].Browser,
         Notices(at)!Submit(b)
  PROVE  Notices(at)!BoardInv'
<1>1. page[b] \in Notices(at)!PageRecord
      /\ Notices(at)!Listed(page[b].list) \subseteq Notices(at)!Listed(rows)
  BY DEF Notices!BoardInv, Notices!PagesSound
<1>2. PICK c : Notices(at)!CallSound(c) /\ call' = [call EXCEPT ![b] = c]
  <2>1. ASSUME NEW st \in Notices(at)!Status,
               call' = [call EXCEPT ![b]
                 = [Notices(at)!NoCall EXCEPT !.pc = "create", !.status = st]]
        PROVE  \E c : Notices(at)!CallSound(c) /\ call' = [call EXCEPT ![b] = c]
    <3> DEFINE c == [Notices(at)!NoCall EXCEPT !.pc = "create", !.status = st]
    <3>1. Notices(at)!CallSound(c)
      BY DEF Notices!CallSound, Notices!NoCall, Notices!CallRecord, Notices!Assumptions
    <3> QED
      BY <2>1, <3>1
  <2>2. ASSUME Notices(at)!ShownIn(page[b]) # None, NEW st \in {page[b].status, None},
               call' = [call EXCEPT ![b]
                 = [Notices(at)!NoCall EXCEPT !.pc = "find", !.id = Notices(at)!ShownIn(page[b]),
                                                          !.status = st]]
        PROVE  \E c : Notices(at)!CallSound(c) /\ call' = [call EXCEPT ![b] = c]
    <3> DEFINE c == [Notices(at)!NoCall EXCEPT !.pc = "find", !.id = Notices(at)!ShownIn(page[b]),
             !.status = st]
    <3>1. Notices(at)!ShownIn(page[b]) \in Notices(at)!Listed(rows)
      BY <1>1, <2>2, NoticeSomeIsShown
    <3>2. Notices(at)!CallSound(c)
      BY <1>1, <3>1
       DEF Notices!CallSound, Notices!NoCall, Notices!CallRecord, Notices!Listed, Notices!PageRecord
    <3> QED
      BY <2>2, <3>2
  <2> QED
    BY <2>1, <2>2 DEF Notices!Submit
<1>3. UNCHANGED <<now, rows, page>>
  BY DEF Notices!Submit
<1> QED
  BY <1>2, <1>3, NoticeCallStepKeeps, NoticePagesKeep DEF Notices!BoardInv

\* An answer puts a notice there is into the list.
LEMMA NoticeReceiveKeeps ==
  ASSUME NEW at, Notices(at)!Assumptions, Notices(at)!BoardInv, NEW b \in Setting[at].Browser,
         Notices(at)!Receive(b)
  PROVE  Notices(at)!BoardInv'
<1>1. Notices(at)!CallSound(Notices(at)!NoCall)
  BY DEF Notices!CallSound, Notices!NoCall, Notices!CallRecord
<1>2. call' = [call EXCEPT ![b] = Notices(at)!NoCall] /\ UNCHANGED <<now, rows>>
  BY DEF Notices!Receive
<1>3. Notices(at)!RowsSound'
  BY <1>1, <1>2, NoticeCallStepKeeps
<1>4. CASE call[b].pc = "created"
  <2> DEFINE p == [page[b] EXCEPT !.chosen = call[b].id]
  <2>1. call[b].id \in Setting[at].NoticeId
    BY <1>4 DEF Notices!BoardInv, Notices!RowsSound, Notices!CallSound
  <2>2. p \in Notices(at)!PageRecord /\ p.list = page[b].list /\ p.of = page[b].of
    BY <2>1 DEF Notices!BoardInv, Notices!PagesSound, Notices!PageRecord
  <2>3. page' = [page EXCEPT ![b] = Notices(at)!Filled(page[b], p)]
    BY <1>4 DEF Notices!Receive, Notices!BoardInv, Notices!PagesSound
  <2> HIDE DEF p
  <2>4. Notices(at)!PagesSound' /\ Notices(at)!EditsShown'
    BY <1>2, <2>2, <2>3, NoticeRenderKeeps DEF Notices!BoardInv, Notices!PagesSound
  <2> QED
    BY <1>3, <2>4 DEF Notices!BoardInv
<1>5. CASE call[b].pc # "created"
  BY <1>2, <1>3, <1>5, NoticePagesKeep DEF Notices!Receive, Notices!BoardInv
<1> QED
  BY <1>4, <1>5

\* What a save reads is a row whose time stamp agrees with its status.
LEMMA NoticeFindKeeps ==
  ASSUME NEW at, Notices(at)!Assumptions, Notices(at)!BoardInv, NEW b \in Setting[at].Browser,
         Notices(at)!FindNotification(b)
  PROVE  Notices(at)!BoardInv'
<1> DEFINE c == [call[b] EXCEPT !.pc = "update", !.row = rows[call[b].id]]
<1>1. Notices(at)!CallSound(call[b]) /\ call[b].pc = "find"
  BY DEF Notices!FindNotification, Notices!BoardInv, Notices!RowsSound
<1>2. call[b].id \in Notices(at)!Listed(rows) /\ rows[call[b].id] \in Notices(at)!Row
  BY <1>1 DEF Notices!CallSound, Notices!Listed, Notices!BoardInv, Notices!RowsSound
<1>3. Notices(at)!RowSound(rows[call[b].id])
  BY <1>2 DEF Notices!BoardInv, Notices!RowsSound
<1>4. Notices(at)!CallSound(c)
  BY <1>1, <1>2, <1>3 DEF Notices!CallSound, Notices!CallRecord, Notices!Listed
<1>5. call' = [call EXCEPT ![b] = c] /\ UNCHANGED <<now, rows, page>>
  BY DEF Notices!FindNotification
<1> HIDE DEF c
<1> QED
  BY <1>4, <1>5, NoticeCallStepKeeps, NoticePagesKeep DEF Notices!BoardInv

\* A request that fails changes no row.
LEMMA NoticeFailsKeeps ==
  ASSUME NEW at, Notices(at)!Assumptions, Notices(at)!BoardInv, NEW b \in Setting[at].Browser,
         Notices(at)!Fails(b)
  PROVE  Notices(at)!BoardInv'
<1> DEFINE c == [Notices(at)!NoCall EXCEPT !.pc = "answered"]
<1>1. Notices(at)!CallSound(c)
  BY DEF Notices!CallSound, Notices!CallRecord, Notices!NoCall
<1>2. call' = [call EXCEPT ![b] = c] /\ UNCHANGED <<now, rows, page>>
  BY DEF Notices!Fails
<1> HIDE DEF c
<1> QED
  BY <1>1, <1>2, NoticeCallStepKeeps, NoticePagesKeep DEF Notices!BoardInv

\* A handler that writes a row of now, and no other.
LEMMA NoticeWriteKeeps ==
  ASSUME NEW at, Notices(at)!Assumptions, Notices(at)!BoardInv, NEW b \in Setting[at].Browser,
         NEW n \in Setting[at].NoticeId, NEW row \in Notices(at)!Row,
         Notices(at)!RowSound(row), NEW c \in Notices(at)!CallRecord,
           c.pc \in {"created", "answered"},
         c.pc = "created" => c.id \in Setting[at].NoticeId,
         rows' = [rows EXCEPT ![n] = row], call' = [call EXCEPT ![b] = c],
         UNCHANGED <<now, page>>
  PROVE  Notices(at)!BoardInv'
<1>1. rows \in [Setting[at].NoticeId -> {None} \cup Notices(at)!Row] /\ None \notin Notices(at)!Row
  BY DEF Notices!BoardInv, Notices!RowsSound, Notices!Assumptions
<1>2. Notices(at)!Listed(rows) \subseteq Notices(at)!Listed(rows)'
      /\ rows' \in [Setting[at].NoticeId -> {None} \cup Notices(at)!Row]
  BY <1>1 DEF Notices!Listed
<1>3. \A m \in Notices(at)!Listed(rows)' : Notices(at)!RowSound(rows[m]')
  BY <1>1 DEF Notices!BoardInv, Notices!RowsSound, Notices!RowSound, Notices!Agrees, Notices!Listed
<1>4. \A a \in Setting[at].Browser : call'[a] = IF a = b THEN c ELSE call[a]
  BY DEF Notices!BoardInv, Notices!RowsSound
<1>5. ASSUME NEW a \in Setting[at].Browser PROVE Notices(at)!CallSound(call[a])'
  <2>1. CASE a = b
    BY <1>4, <2>1 DEF Notices!CallSound, Notices!CallRecord, Notices!Row, Notices!Time
  <2>2. CASE a # b
    <3>1. call'[a] = call[a] /\ Notices(at)!CallSound(call[a])
      BY <1>4, <2>2 DEF Notices!BoardInv, Notices!RowsSound
    <3>2. call[a].pc \in {"find", "update"} => rows'[call[a].id] # None
      BY <1>1, <3>1 DEF Notices!CallSound
    <3> QED
      BY <3>1, <3>2
       DEF Notices!CallSound, Notices!RowSound, Notices!Agrees, Notices!CallRecord, Notices!Row,
       Notices!Time
  <2> QED
    BY <2>1, <2>2
<1>6. Notices(at)!RowsSound'
  BY <1>2, <1>3, <1>4, <1>5
   DEF Notices!BoardInv, Notices!RowsSound, Notices!RowSound, Notices!Time, Notices!Row
<1>7. Notices(at)!PagesSound'
  BY <1>2 DEF Notices!BoardInv, Notices!PagesSound, Notices!PageRecord, Notices!Row, Notices!Time
<1>8. Notices(at)!EditsShown'
  BY DEF Notices!BoardInv, Notices!EditsShown
<1> QED
  BY <1>6, <1>7, <1>8 DEF Notices!BoardInv

\* A new notice has the time stamp of its status,
LEMMA NoticeCreateKeeps ==
  ASSUME NEW at, Notices(at)!Assumptions, Notices(at)!BoardInv, NEW b \in Setting[at].Browser,
         Notices(at)!CreateNotification(b)
  PROVE  Notices(at)!BoardInv'
<1>1. PICK n \in Setting[at].NoticeId :
        /\ rows' = [rows EXCEPT ![n] =
             [status |-> call[b].status, updatedAt |-> now,
              publishedAt |-> IF call[b].status = "published" THEN now ELSE None]]
        /\ call' = [call EXCEPT ![b] = [Notices(at)!NoCall EXCEPT !.pc = "created", !.id = n]]
  BY DEF Notices!CreateNotification
<1> DEFINE row == [status |-> call[b].status, updatedAt |-> now,
                   publishedAt |-> IF call[b].status = "published" THEN now ELSE None]
           c == [Notices(at)!NoCall EXCEPT !.pc = "created", !.id = n]
<1>2. call[b].status \in Notices(at)!Status /\ now \in Notices(at)!Time
  BY DEF Notices!CreateNotification, Notices!BoardInv, Notices!RowsSound, Notices!CallSound,
         Notices!CallRecord
<1>3. row \in Notices(at)!Row /\ Notices(at)!RowSound(row)
  BY <1>2 DEF Notices!Row, Notices!RowSound, Notices!Agrees, Notices!Status, Notices!Time,
     Notices!Assumptions
<1>4. c \in Notices(at)!CallRecord /\ c.pc = "created" /\ c.id = n
  BY DEF Notices!CallRecord, Notices!NoCall
<1>5. UNCHANGED <<now, page>>
  BY DEF Notices!CreateNotification
<1>6. rows' = [rows EXCEPT ![n] = row] /\ call' = [call EXCEPT ![b] = c]
  BY <1>1
<1> HIDE DEF row, c
<1> QED
  BY <1>3, <1>4, <1>5, <1>6, NoticeWriteKeeps

\* and so has one that is saved over what was read before.
LEMMA NoticeUpdateKeeps ==
  ASSUME NEW at, Notices(at)!Assumptions, Notices(at)!BoardInv, NEW b \in Setting[at].Browser,
         Notices(at)!UpdateNotification(b)
  PROVE  Notices(at)!BoardInv'
<1> DEFINE u == call[b]
           row == IF u.status = None THEN [rows[u.id] EXCEPT !.updatedAt = now]
                  ELSE [status |-> u.status, updatedAt |-> now,
                        publishedAt |-> Notices(at)!PublishedAt(u.id, u.status, u.row)]
           c == [Notices(at)!NoCall EXCEPT !.pc = "answered"]
<1>1. Notices(at)!CallSound(u) /\ u.pc = "update" /\ now \in Notices(at)!Time
  BY DEF Notices!UpdateNotification, Notices!BoardInv, Notices!RowsSound
<1>2. /\ u.id \in Notices(at)!Listed(rows) /\ rows[u.id] \in Notices(at)!Row
         /\ u.row \in Notices(at)!Row
      /\ Notices(at)!RowSound(u.row) /\ u.status \in Notices(at)!Status \cup {None}
  BY <1>1 DEF Notices!CallSound, Notices!CallRecord, Notices!Listed, Notices!BoardInv,
     Notices!RowsSound
<1>3. Notices(at)!RowSound(rows[u.id])
  BY <1>2 DEF Notices!BoardInv, Notices!RowsSound
<1>4. ASSUME u.status = None PROVE row \in Notices(at)!Row /\ Notices(at)!RowSound(row)
  <2>1. row = [rows[u.id] EXCEPT !.updatedAt = now]
    BY <1>4
  <2> QED
    BY <1>1, <1>2, <1>3, <2>1
     DEF Notices!Row, Notices!RowSound, Notices!Agrees, Notices!Time, Notices!Assumptions
<1>5. ASSUME u.status # None PROVE row \in Notices(at)!Row /\ Notices(at)!RowSound(row)
  <2>1. row = [status |-> u.status, updatedAt |-> now,
               publishedAt |-> Notices(at)!PublishedAt(u.id, u.status, u.row)]
    BY <1>5
  <2> QED
    BY <1>1, <1>2, <1>5, <2>1
     DEF Notices!Row, Notices!RowSound, Notices!Agrees, Notices!PublishedAt, Notices!Status,
     Notices!Time, Notices!Assumptions
<1>6. row \in Notices(at)!Row /\ Notices(at)!RowSound(row)
  BY <1>4, <1>5
<1>7. rows' = [rows EXCEPT ![u.id] = row] /\ call' = [call EXCEPT ![b] = c]
  BY DEF Notices!UpdateNotification
<1>8. c \in Notices(at)!CallRecord /\ c.pc = "answered" /\ u.id \in Setting[at].NoticeId
  BY <1>2 DEF Notices!CallRecord, Notices!NoCall, Notices!Listed
<1>9. UNCHANGED <<now, page>>
  BY DEF Notices!UpdateNotification
<1> HIDE DEF row, c
<1> QED
  BY <1>6, <1>7, <1>8, <1>9, NoticeWriteKeeps

\* Time only makes the stamps older.
LEMMA NoticeTickKeeps ==
  ASSUME NEW at, Notices(at)!Assumptions, Notices(at)!BoardInv, Notices(at)!Tick
  PROVE  Notices(at)!BoardInv'
<1>1. now \in Int /\ now' = now + 1 /\ now' \in Notices(at)!Time /\ UNCHANGED <<rows, page, call>>
  BY DEF Notices!BoardInv, Notices!RowsSound, Notices!Tick, Notices!Time, Notices!Assumptions
<1>2. ASSUME NEW row \in Notices(at)!Row, Notices(at)!RowSound(row) PROVE Notices(at)!RowSound(row)'
  BY <1>1, <1>2 DEF Notices!RowSound, Notices!Agrees, Notices!Row, Notices!Time
<1>3. \A n \in Notices(at)!Listed(rows) : rows[n] \in Notices(at)!Row
  BY DEF Notices!Listed, Notices!BoardInv, Notices!RowsSound
<1>4. \A n \in Notices(at)!Listed(rows) : Notices(at)!RowSound(rows[n])'
  BY <1>1, <1>2, <1>3 DEF Notices!BoardInv, Notices!RowsSound, Notices!RowSound
<1>5. \A b \in Setting[at].Browser : Notices(at)!CallSound(call[b])'
  BY <1>1, <1>2
   DEF Notices!BoardInv, Notices!RowsSound, Notices!CallSound, Notices!RowSound,
   Notices!CallRecord, Notices!Row, Notices!Time
<1>6. Notices(at)!RowsSound'
  BY <1>1, <1>4, <1>5
   DEF Notices!BoardInv, Notices!RowsSound, Notices!Listed, Notices!RowSound, Notices!Row,
   Notices!Time
<1> QED
  BY <1>1, <1>6, NoticePagesKeep DEF Notices!BoardInv

\* Nothing is lost when nothing happens.
LEMMA NoticeStutterKeeps ==
  ASSUME NEW at, Notices(at)!BoardInv, UNCHANGED Notices(at)!vars
  PROVE  Notices(at)!BoardInv'
<1>1. UNCHANGED <<now, rows, page, call>>
  BY DEF Notices!vars
<1> QED
  BY <1>1, NoticeRowsKeep, NoticePagesKeep DEF Notices!BoardInv

\* The board starts sound,
LEMMA NoticeInit ==
  ASSUME NEW at, Notices(at)!Assumptions, Notices(at)!Init
  PROVE  Notices(at)!BoardInv
<1>1. Notices(at)!CallSound(Notices(at)!NoCall)
  BY DEF Notices!CallSound, Notices!CallRecord, Notices!NoCall
<1>2. Notices(at)!NewPage \in Notices(at)!PageRecord
      /\ Notices(at)!Listed(Notices(at)!NewPage.list) = {} /\ Notices(at)!NewPage.of = None
  BY DEF Notices!NewPage, Notices!PageRecord, Notices!Status, Notices!Listed
<1>3. Notices(at)!NewPage.of = Notices(at)!ShownIn(Notices(at)!NewPage)
  BY <1>2 DEF Notices!ShownIn, Notices!First
<1>4. Notices(at)!RowsSound
  BY <1>1 DEF Notices!Init, Notices!RowsSound, Notices!Listed, Notices!Time, Notices!Assumptions
<1>5. Notices(at)!PagesSound
  BY <1>2 DEF Notices!Init, Notices!PagesSound
<1>6. Notices(at)!EditsShown
  BY <1>3 DEF Notices!Init, Notices!EditsShown
<1> QED
  BY <1>4, <1>5, <1>6 DEF Notices!BoardInv

\* and every step keeps it so.
LEMMA NoticeStep ==
  ASSUME NEW at, Notices(at)!Assumptions, Notices(at)!BoardInv,
         [Notices(at)!Next]_(Notices(at)!vars)
  PROVE  Notices(at)!BoardInv'
<1>1. CASE Notices(at)!Tick
  BY <1>1, NoticeTickKeeps
<1>2. ASSUME NEW b \in Setting[at].Browser,
             \/ Notices(at)!Refetch(b) \/ Notices(at)!Select(b) \/ Notices(at)!EditStatus(b)
                \/ Notices(at)!Submit(b) \/ Notices(at)!Receive(b)
             \/ Notices(at)!CreateNotification(b) \/ Notices(at)!FindNotification(b)
                \/ Notices(at)!UpdateNotification(b) \/ Notices(at)!Fails(b)
      PROVE  Notices(at)!BoardInv'
  BY <1>2, NoticeRefetchKeeps, NoticeSelectKeeps, NoticeEditStatusKeeps, NoticeSubmitKeeps,
     NoticeReceiveKeeps, NoticeCreateKeeps,
     NoticeFindKeeps, NoticeUpdateKeeps, NoticeFailsKeeps
<1> QED
  BY <1>1, <1>2, NoticeStutterKeeps DEF Notices!Next

\* On a sound board the stamps agree and the editors are of what is shown.
LEMMA NoticeImplies ==
  ASSUME NEW at
  PROVE Notices(at)!BoardInv
  => Notices(at)!TypeOK /\ Notices(at)!PublishedAgrees /\ Notices(at)!EditsShown
BY DEF Notices!BoardInv, Notices!RowsSound, Notices!PagesSound, Notices!CallSound,
       Notices!CallRecord, Notices!PageRecord, Notices!RowSound, Notices!TypeOK,
       Notices!PublishedAgrees

-----------------------------------------------------------------------------
(* The rules workspace *)

\* The first of some rules is one of them, if there are any.
LEMMA RuleFirstIsOne ==
  ASSUME RulesPage!Assumptions, NEW S \in SUBSET Setting.rulesPage.RuleId
  PROVE  RulesPage!FirstOf(S) \in S \cup {Setting.rulesPage.New}
         /\ (S # {} => RulesPage!FirstOf(S) \in S)
<1>1. S # {} => \E m \in S : \A n \in S : m <= n
  BY LeastNat DEF RulesPage!Assumptions
<1> QED
  BY <1>1 DEF RulesPage!FirstOf

\* Whatever is rendered of a page, the editor is of what is selected then, and what was
\* selected stays so if it is visible.
LEMMA RuleRenderedIsRight ==
  ASSUME RulesPage!Assumptions, NEW old, NEW p \in RulesPage!PageRecord,
         old.of = RulesPage!Shown(old), p.of = old.of
  PROVE  LET q == RulesPage!Rendered(old, p) IN
         /\ q \in RulesPage!PageRecord /\ q.list = p.list /\ q.domain = p.domain
         /\ q.of = RulesPage!Shown(q) /\ q.selected = RulesPage!Shown(q)
         /\ p.selected \in RulesPage!Visible(p) \cup {Setting.rulesPage.New}
            => q.selected = p.selected
<1> DEFINE once == RulesPage!Filled(old, p)
           re == RulesPage!Reselected(once)
           q == RulesPage!Filled(once, re)
           V == RulesPage!Visible(p)
<1>1. V \subseteq Setting.rulesPage.RuleId /\ Setting.rulesPage.New \notin Setting.rulesPage.RuleId
  BY DEF RulesPage!Visible, RulesPage!Listed, RulesPage!Assumptions
<1>2. RulesPage!Shown(p) \in V \cup {Setting.rulesPage.New}
      /\ RulesPage!FirstOf(V) \in V \cup {Setting.rulesPage.New}
  BY <1>1, RuleFirstIsOne DEF RulesPage!Shown
<1>3. /\ once \in RulesPage!PageRecord /\ once.list = p.list /\ once.domain = p.domain
      /\ once.selected = p.selected /\ once.of = RulesPage!Shown(p)
  BY <1>1, <1>2 DEF RulesPage!Filled, RulesPage!PageRecord
<1> HIDE DEF once
<1>4. RulesPage!Visible(once) = V /\ RulesPage!Shown(once) = RulesPage!Shown(p)
  BY <1>3 DEF RulesPage!Visible, RulesPage!Shown
<1>5. /\ re \in RulesPage!PageRecord /\ re.list = p.list /\ re.domain = p.domain
      /\ re.selected = IF p.selected \in V \cup {Setting.rulesPage.New} THEN p.selected
         ELSE RulesPage!FirstOf(V)
      /\ re.of = RulesPage!Shown(p)
  BY <1>1, <1>2, <1>3, <1>4 DEF RulesPage!Reselected, RulesPage!PageRecord
<1> HIDE DEF re
<1>6. RulesPage!Visible(re) = V
  BY <1>5 DEF RulesPage!Visible
<1>7. re.selected \in V \cup {Setting.rulesPage.New} /\ RulesPage!Shown(re) = re.selected
  BY <1>1, <1>2, <1>5, <1>6 DEF RulesPage!Shown
<1>8. /\ q \in RulesPage!PageRecord /\ q.list = p.list /\ q.domain = p.domain
      /\ q.selected = re.selected /\ q.of = re.selected
  BY <1>1, <1>4, <1>5, <1>7 DEF RulesPage!Filled, RulesPage!PageRecord
<1>9. RulesPage!Rendered(old, p) = q
  BY DEF RulesPage!Rendered, once, re
<1> HIDE DEF q
<1>10. RulesPage!Visible(q) = V
  BY <1>8 DEF RulesPage!Visible
<1>11. RulesPage!Shown(q) = q.selected
  BY <1>7, <1>8, <1>10 DEF RulesPage!Shown
<1> QED
  BY <1>5, <1>8, <1>9, <1>11

\* A rendering keeps the editor that of the selected rule.
LEMMA RuleTurnKeeps ==
  ASSUME RulesPage!Assumptions, RulesPage!EditorInv, NEW p \in RulesPage!PageRecord,
         p.of = page.of, RulesPage!Turn(p)
  PROVE  page' \in RulesPage!PageRecord /\ RulesPage!EditorIsOfSelected'
<1>1. page.of = RulesPage!Shown(page) /\ page' = RulesPage!Rendered(page, p)
  BY DEF RulesPage!EditorInv, RulesPage!EditorIsOfSelected, RulesPage!Turn
<1>2. LET q == RulesPage!Rendered(page, p) IN q \in RulesPage!PageRecord
      /\ q.of = RulesPage!Shown(q) /\ q.selected = RulesPage!Shown(q)
  BY <1>1, RuleRenderedIsRight
<1> QED
  BY <1>1, <1>2
   DEF RulesPage!EditorIsOfSelected, RulesPage!Shown, RulesPage!Visible, RulesPage!Listed

\* What is shown is a rule, or the form of a new one.
LEMMA RuleShownIsRule ==
  ASSUME RulesPage!Assumptions, RulesPage!EditorInv, RulesPage!Shown(page) # Setting.rulesPage.New
  PROVE  RulesPage!Shown(page) \in Setting.rulesPage.RuleId
BY DEF RulesPage!Shown, RulesPage!Visible, RulesPage!Listed

\* A call that is sent is about the rule that is shown.
LEMMA RuleSendKeeps ==
  ASSUME RulesPage!Assumptions, RulesPage!EditorInv, NEW kind, NEW domain,
         RulesPage!Send(kind, domain),
         RulesPage!CallSound([kind |-> kind, rule |-> RulesPage!Shown(page), domain |-> domain,
           answered |-> FALSE])
  PROVE  RulesPage!EditorInv'
BY DEF RulesPage!Send, RulesPage!EditorInv, RulesPage!EditorIsOfSelected, RulesPage!Shown,
       RulesPage!Visible, RulesPage!CallSound, RulesPage!Listed

\* What a handler writes keeps the rows and the calls sound,
LEMMA RuleAnswerKeeps ==
  ASSUME RulesPage!EditorInv, NEW c \in call, NEW row \in (SUBSET RulesPage!Domain) \cup {None},
         NEW r \in Setting.rulesPage.RuleId,
         RulesPage!Answer(c, row, r), used' \subseteq Setting.rulesPage.RuleId,
         \A s \in Setting.rulesPage.RuleId : s \in used' => IF s = r THEN row = None ELSE s \in used
  PROVE  RulesPage!EditorInv'
<1>1. rows' \in RulesPage!Rows /\ used' \subseteq Setting.rulesPage.RuleId \ RulesPage!Listed(rows')
  BY DEF RulesPage!EditorInv, RulesPage!Answer, RulesPage!Rows, RulesPage!Listed
<1>2. RulesPage!CallSound([c EXCEPT !.answered = TRUE, !.rule = r])
  BY DEF RulesPage!EditorInv, RulesPage!CallSound
<1>3. \A d \in call' : RulesPage!CallSound(d)
  BY <1>2 DEF RulesPage!EditorInv, RulesPage!Answer
<1>4. page' \in RulesPage!PageRecord /\ RulesPage!EditorIsOfSelected'
  BY DEF RulesPage!EditorInv, RulesPage!Answer, RulesPage!EditorIsOfSelected, RulesPage!Shown,
         RulesPage!Visible, RulesPage!Listed
<1> QED
  BY <1>1, <1>3, <1>4 DEF RulesPage!EditorInv, RulesPage!Listed, RulesPage!CallSound

\* whichever handler it is.
LEMMA RuleHandleKeeps ==
  ASSUME RulesPage!Assumptions, RulesPage!EditorInv, NEW c \in call, RulesPage!Handle(c)
  PROVE  RulesPage!EditorInv'
<1>1. RulesPage!CallSound(c) /\ rows \in RulesPage!Rows
      /\ used \subseteq Setting.rulesPage.RuleId \ RulesPage!Listed(rows)
  BY DEF RulesPage!EditorInv
<1>2. \A r \in used : r \in Setting.rulesPage.RuleId /\ rows[r] = None
  BY <1>1 DEF RulesPage!Listed
<1>3. CASE c.kind = "create"
  <2>1. PICK r \in Setting.rulesPage.RuleId \ used : RulesPage!Answer(c, {}, r) /\ UNCHANGED used
    BY <1>3 DEF RulesPage!Handle
  <2> QED
    BY <1>1, <1>2, <2>1, RuleAnswerKeeps
<1>4. CASE c.kind # "create"
  <2> DEFINE r == c.rule
  <2>1. r \in Setting.rulesPage.RuleId /\ rows[r] # None /\ rows[r] \in SUBSET RulesPage!Domain
        /\ r \notin used
    BY <1>1, <1>2, <1>4 DEF RulesPage!Handle, RulesPage!CallSound, RulesPage!Rows
  <2> HIDE DEF r
  <2>2. CASE c.kind \in {"update", "status"}
    <3>1. RulesPage!Answer(c, rows[r], r) /\ UNCHANGED used
      BY <2>2 DEF RulesPage!Handle, r
    <3> QED
      BY <1>1, <2>1, <3>1, RuleAnswerKeeps
  <2>3. CASE c.kind = "bind"
    <3>1. RulesPage!Answer(c, rows[r] \cup {c.domain}, r) /\ UNCHANGED used
      BY <2>3 DEF RulesPage!Handle, r
    <3>2. c.domain \in RulesPage!Domain
      BY <1>1, <2>3 DEF RulesPage!CallSound
    <3> QED
      BY <1>1, <2>1, <3>1, <3>2, RuleAnswerKeeps
  <2>4. CASE c.kind = "unbind"
    <3>1. RulesPage!Answer(c, rows[r] \ {c.domain}, r) /\ UNCHANGED used
      BY <2>4 DEF RulesPage!Handle, r
    <3> QED
      BY <1>1, <2>1, <3>1, RuleAnswerKeeps
  <2>5. CASE c.kind = "delete"
    <3>1. RulesPage!Answer(c, None, r) /\ used' = used \cup {r}
      BY <2>5 DEF RulesPage!Handle, r
    <3> QED
      BY <1>1, <2>1, <3>1, RuleAnswerKeeps
  <2> QED
    BY <1>4, <2>2, <2>3, <2>4, <2>5 DEF RulesPage!Handle
<1> QED
  BY <1>3, <1>4

\* An answer selects a rule only where it is visible.
LEMMA RuleReceiveKeeps ==
  ASSUME RulesPage!Assumptions, RulesPage!EditorInv, NEW c \in call, RulesPage!Receive(c)
  PROVE  RulesPage!EditorInv'
<1>1. RulesPage!CallSound(c) /\ c.answered /\ c.rule \in Setting.rulesPage.RuleId
      /\ page \in RulesPage!PageRecord
  BY DEF RulesPage!EditorInv, RulesPage!Receive, RulesPage!CallSound
<1>2. page' \in RulesPage!PageRecord /\ RulesPage!EditorIsOfSelected'
  <2>1. CASE c.kind \in {"create", "update", "status"}
    <3>1. RulesPage!Turn([page EXCEPT !.selected = c.rule])
      BY <2>1 DEF RulesPage!Receive
    <3>2. [page EXCEPT !.selected = c.rule] \in RulesPage!PageRecord
          /\ [page EXCEPT !.selected = c.rule].of = page.of
      BY <1>1 DEF RulesPage!PageRecord
    <3> QED
      BY <3>1, <3>2, RuleTurnKeeps
  <2>2. CASE c.kind = "delete"
    <3>1. RulesPage!Turn([page EXCEPT !.selected = Setting.rulesPage.New])
      BY <2>2 DEF RulesPage!Receive
    <3>2. [page EXCEPT !.selected = Setting.rulesPage.New] \in RulesPage!PageRecord
          /\ [page EXCEPT !.selected = Setting.rulesPage.New].of = page.of
      BY <1>1 DEF RulesPage!PageRecord
    <3> QED
      BY <3>1, <3>2, RuleTurnKeeps
  <2>3. CASE c.kind \notin {"create", "update", "status", "delete"}
    BY <2>3 DEF RulesPage!Receive, RulesPage!EditorInv, RulesPage!EditorIsOfSelected,
       RulesPage!Shown, RulesPage!Visible, RulesPage!Listed
  <2> QED
    BY <2>1, <2>2, <2>3
<1> QED
  BY <1>2 DEF RulesPage!EditorInv, RulesPage!Receive, RulesPage!Listed, RulesPage!CallSound

\* Lists, domains and selections fill the editor with what they select.
LEMMA RuleListKeeps ==
  ASSUME RulesPage!Assumptions, RulesPage!EditorInv, RulesPage!Refetch \/ RulesPage!SelectDomain
         \/ RulesPage!SelectRule
  PROVE  RulesPage!EditorInv'
<1>1. page \in RulesPage!PageRecord /\ rows \in RulesPage!Rows
  BY DEF RulesPage!EditorInv
<1>2. CASE RulesPage!Refetch
  <2>1. [page EXCEPT !.list = rows] \in RulesPage!PageRecord
        /\ [page EXCEPT !.list = rows].of = page.of
    BY <1>1 DEF RulesPage!PageRecord
  <2>2. page' \in RulesPage!PageRecord /\ RulesPage!EditorIsOfSelected'
    BY <1>2, <2>1, RuleTurnKeeps DEF RulesPage!Refetch
  <2> QED
    BY <1>2, <2>2 DEF RulesPage!Refetch, RulesPage!EditorInv, RulesPage!Listed
<1>3. CASE RulesPage!SelectDomain
  <2>1. PICK d \in RulesPage!Domain : RulesPage!Turn([page EXCEPT !.domain = d])
    BY <1>3 DEF RulesPage!SelectDomain
  <2>2. [page EXCEPT !.domain = d] \in RulesPage!PageRecord
        /\ [page EXCEPT !.domain = d].of = page.of
    BY <1>1 DEF RulesPage!PageRecord
  <2>3. page' \in RulesPage!PageRecord /\ RulesPage!EditorIsOfSelected'
    BY <2>1, <2>2, RuleTurnKeeps
  <2> QED
    BY <1>3, <2>3 DEF RulesPage!SelectDomain, RulesPage!EditorInv, RulesPage!Listed
<1>4. CASE RulesPage!SelectRule
  <2>1. PICK r \in Setting.rulesPage.RuleId
           \cup {Setting.rulesPage.New} : RulesPage!Turn([page EXCEPT !.selected = r])
    BY <1>4 DEF RulesPage!SelectRule, RulesPage!Visible, RulesPage!Listed
  <2>2. [page EXCEPT !.selected = r] \in RulesPage!PageRecord
        /\ [page EXCEPT !.selected = r].of = page.of
    BY <1>1 DEF RulesPage!PageRecord
  <2>3. page' \in RulesPage!PageRecord /\ RulesPage!EditorIsOfSelected'
    BY <2>1, <2>2, RuleTurnKeeps
  <2> QED
    BY <1>4, <2>3 DEF RulesPage!SelectRule, RulesPage!EditorInv, RulesPage!Listed
<1> QED
  BY <1>2, <1>3, <1>4

\* The buttons send what is shown.
LEMMA RuleButtonsKeep ==
  ASSUME RulesPage!Assumptions, RulesPage!EditorInv, RulesPage!SaveRule \/ RulesPage!ToggleStatus
         \/ RulesPage!DeleteRule \/ RulesPage!ToggleBinding
  PROVE  RulesPage!EditorInv'
<1>1. page \in RulesPage!PageRecord
      /\ RulesPage!Shown(page) \in Setting.rulesPage.RuleId \cup {Setting.rulesPage.New}
  BY RuleShownIsRule DEF RulesPage!EditorInv
<1>2. ASSUME NEW kind \in {"create", "update", "status", "delete"}, RulesPage!Send(kind, None),
             kind # "create" => RulesPage!Shown(page) # Setting.rulesPage.New
      PROVE  RulesPage!EditorInv'
  BY <1>1, <1>2, RuleSendKeeps DEF RulesPage!CallSound
<1>3. ASSUME NEW kind \in {"bind", "unbind"}, RulesPage!Send(kind, page.domain),
         RulesPage!Shown(page) # Setting.rulesPage.New
      PROVE  RulesPage!EditorInv'
  <2>1. page.domain \in RulesPage!Domain
    BY <1>1 DEF RulesPage!PageRecord
  <2> QED
    BY <1>1, <1>3, <2>1, RuleSendKeeps DEF RulesPage!CallSound
<1> QED
  BY <1>2, <1>3
   DEF RulesPage!SaveRule, RulesPage!ToggleStatus, RulesPage!DeleteRule, RulesPage!ToggleBinding

\* The rules workspace starts sound,
LEMMA RuleEditorInit == RulesPage!Assumptions /\ RulesPage!Init => RulesPage!EditorInv
BY DEF RulesPage!Assumptions, RulesPage!Init, RulesPage!EditorInv, RulesPage!Rows,
       RulesPage!Listed, RulesPage!PageRecord, RulesPage!NewPage, RulesPage!EditorIsOfSelected,
       RulesPage!Shown,
       RulesPage!Visible, RulesPage!Domain

\* and every step keeps it so.
LEMMA RuleEditorStep == RulesPage!Assumptions /\ RulesPage!EditorInv
      /\ [RulesPage!Next]_(RulesPage!vars) => RulesPage!EditorInv'
<1> SUFFICES ASSUME RulesPage!Assumptions, RulesPage!EditorInv, [RulesPage!Next]_(RulesPage!vars)
             PROVE  RulesPage!EditorInv'
  OBVIOUS
<1>1. CASE UNCHANGED RulesPage!vars
  BY <1>1 DEF RulesPage!vars, RulesPage!EditorInv, RulesPage!Listed, RulesPage!EditorIsOfSelected,
     RulesPage!Shown, RulesPage!Visible, RulesPage!CallSound
<1>2. ASSUME NEW c \in call, RulesPage!Fails(c) PROVE RulesPage!EditorInv'
  BY <1>2 DEF RulesPage!Fails, RulesPage!EditorInv, RulesPage!Listed, RulesPage!EditorIsOfSelected,
     RulesPage!Shown, RulesPage!Visible, RulesPage!CallSound
<1> QED
  BY <1>1, <1>2, RuleListKeeps, RuleButtonsKeep, RuleHandleKeeps, RuleReceiveKeeps
   DEF RulesPage!Next

\* A sound workspace has its types.
LEMMA RuleEditorTypes == RulesPage!EditorInv => RulesPage!TypeOK
BY DEF RulesPage!EditorInv, RulesPage!TypeOK, RulesPage!Rows, RulesPage!PageRecord,
       RulesPage!CallSound

\* A list or a domain leaves the selection where it is visible.
LEMMA RuleSelectionStays == RulesPage!Assumptions /\ RulesPage!EditorInv
      /\ [RulesPage!Next]_(RulesPage!vars) => RulesPage!KeepsSelected
<1> SUFFICES ASSUME RulesPage!Assumptions, RulesPage!EditorInv, [RulesPage!Next]_(RulesPage!vars),
         page.selected \in RulesPage!Visible(page)',
                    page.selected # page'.selected
             PROVE  RulesPage!SelectRule \/ \E c \in call : RulesPage!Receive(c)
  BY DEF RulesPage!KeepsSelected
<1>1. page \in RulesPage!PageRecord /\ page.of = RulesPage!Shown(page) /\ rows \in RulesPage!Rows
  BY DEF RulesPage!EditorInv, RulesPage!EditorIsOfSelected
<1>2. ASSUME NEW p \in RulesPage!PageRecord, p.of = page.of, p.selected = page.selected,
         RulesPage!Turn(p)
      PROVE  FALSE
  <2>1. LET q == RulesPage!Rendered(page, p) IN
        /\ q.list = p.list /\ q.domain = p.domain
        /\ p.selected \in RulesPage!Visible(p) => q.selected = p.selected
    BY <1>1, <1>2, RuleRenderedIsRight
  <2>2. RulesPage!Visible(page)' = RulesPage!Visible(p)
    BY <1>2, <2>1 DEF RulesPage!Turn, RulesPage!Visible, RulesPage!Listed
  <2> QED
    BY <1>2, <2>1, <2>2 DEF RulesPage!Turn
<1>3. CASE RulesPage!Refetch
  <2>1. [page EXCEPT !.list = rows] \in RulesPage!PageRecord
        /\ [page EXCEPT !.list = rows].of = page.of
        /\ [page EXCEPT !.list = rows].selected = page.selected
    BY <1>1 DEF RulesPage!PageRecord
  <2> QED
    BY <1>2, <1>3, <2>1 DEF RulesPage!Refetch
<1>4. CASE RulesPage!SelectDomain
  <2>1. PICK d \in RulesPage!Domain : RulesPage!Turn([page EXCEPT !.domain = d])
    BY <1>4 DEF RulesPage!SelectDomain
  <2>2. [page EXCEPT !.domain = d] \in RulesPage!PageRecord
        /\ [page EXCEPT !.domain = d].of = page.of
        /\ [page EXCEPT !.domain = d].selected = page.selected
    BY <1>1 DEF RulesPage!PageRecord
  <2> QED
    BY <1>2, <2>1, <2>2
<1>5. CASE ~(RulesPage!Refetch \/ RulesPage!SelectDomain)
  <2>1. UNCHANGED page \/ RulesPage!SelectRule \/ \E c \in call : RulesPage!Receive(c)
    BY <1>5 DEF RulesPage!Next, RulesPage!vars, RulesPage!SaveRule, RulesPage!ToggleStatus,
       RulesPage!DeleteRule, RulesPage!ToggleBinding, RulesPage!Send, RulesPage!Handle,
                RulesPage!Answer, RulesPage!Fails
  <2> QED
    BY <2>1
<1> QED
  BY <1>3, <1>4, <1>5

-----------------------------------------------------------------------------
(* The resources workspace *)

\* The instance's finite sets and cardinalities are the ones that are known.
LEMMA PanelCounts ==
  ASSUME NEW at, NEW S
  PROVE  /\ Panels(at)!IsFiniteSet(S) <=> IsFiniteSet(S)
         /\ Panels(at)!Cardinality(S) = Cardinality(S)
<1>1. Panels(at)!IsFiniteSet(S) <=> IsFiniteSet(S)
  BY DEF Panels!IsFiniteSet, IsFiniteSet
<1>2. Panels(at)!Cardinality(S) = Cardinality(S)
  BY DEF Panels!Cardinality, Cardinality
<1> QED
  BY <1>1, <1>2

\* The area that is displayed has resources, if there are any.
LEMMA PanelSyncedIsArea ==
  ASSUME NEW at, Panels(at)!Assumptions, NEW p \in Panels(at)!PageRecord
  PROVE  /\ Panels(at)!SyncedArea(p) \in Nat \cup {None}
         /\ Panels(at)!SyncedArea(p) \in Panels(at)!Areas(p.list)
            \/ (Panels(at)!SyncedArea(p) = None /\ Panels(at)!Areas(p.list) = {})
         /\ p.area \in Panels(at)!Areas(p.list) => Panels(at)!SyncedArea(p) = p.area
<1>1. Panels(at)!Areas(p.list) \in SUBSET Nat
  BY DEF Panels!Assumptions, Panels!Areas, Panels!Resources, Panels!PageRecord, Panels!Tables
<1>2. Panels(at)!Areas(p.list) # {}
      => \E a \in Panels(at)!Areas(p.list) : \A b \in Panels(at)!Areas(p.list) : a <= b
  BY <1>1, LeastNat
<1> QED
  BY <1>1, <1>2 DEF Panels!SyncedArea

\* What is visible has the area that is displayed.
LEMMA PanelVisibleIsOfArea ==
  ASSUME NEW at, NEW p, Panels(at)!Visible(p) # {}
  PROVE  p.area \in Panels(at)!Areas(p.list)
BY DEF Panels!Visible, Panels!Areas

\* Whatever is rendered, its panel stands and its area has resources; a panel that stood
\* stays open.
LEMMA PanelRenderedIsRight ==
  ASSUME NEW at, Panels(at)!Assumptions, NEW p \in Panels(at)!PageRecord,
         Panels(at)!PanelSound(p.panel)
  PROVE  LET q == Panels(at)!Rendered(p) IN
         /\ q \in Panels(at)!PageRecord /\ Panels(at)!PanelSound(q.panel)
            /\ Panels(at)!Stands(q.panel, q)
         /\ q.area \in Panels(at)!Areas(q.list) \/ (q.area = None /\ Panels(at)!Areas(q.list) = {})
         /\ q.list = p.list /\ q.form = p.form /\ q.unitForm = p.unitForm
         /\ q.area = Panels(at)!SyncedArea(p)
         /\ q.panel = IF Panels(at)!Stands(p.panel, p) THEN p.panel ELSE Panels(at)!NoPanel
<1> DEFINE q == Panels(at)!Rendered(p)
           panel == IF Panels(at)!Stands(p.panel, p) THEN p.panel ELSE Panels(at)!NoPanel
<1>1. Panels(at)!NoPanel \in Panels(at)!PanelRecord /\ Panels(at)!PanelSound(Panels(at)!NoPanel)
      /\ Panels(at)!Stands(Panels(at)!NoPanel, p) /\ Panels(at)!NoPanel.kind = "none"
  BY DEF Panels!NoPanel, Panels!PanelRecord, Panels!PanelSound, Panels!Stands, Panels!PanelKinds
<1>2. panel \in Panels(at)!PanelRecord /\ Panels(at)!PanelSound(panel)
      /\ Panels(at)!Stands(panel, p)
  BY <1>1 DEF Panels!PanelSound
<1>3. q = [p EXCEPT !.area = Panels(at)!SyncedArea(p), !.panel = panel]
  BY DEF Panels!Rendered
<1> HIDE DEF panel
<1>4. /\ q \in Panels(at)!PageRecord /\ q.list = p.list /\ q.form = p.form
         /\ q.unitForm = p.unitForm
      /\ q.area = Panels(at)!SyncedArea(p) /\ q.panel = panel
  <2>1. Panels(at)!SyncedArea(p) \in Nat \cup {None}
    BY PanelSyncedIsArea
  <2> QED
    BY <1>2, <1>3, <2>1 DEF Panels!PageRecord
<1> HIDE DEF q
<1>5. Panels(at)!Stands(panel, q)
  <2>1. CASE Panels(at)!Visible(p) = {}
    BY <1>2, <2>1 DEF Panels!Stands
  <2>2. CASE Panels(at)!Visible(p) # {}
    <3>1. q.area = p.area
      BY <1>4, <2>2, PanelSyncedIsArea, PanelVisibleIsOfArea
    <3>2. Panels(at)!Visible(q) = Panels(at)!Visible(p)
      BY <1>4, <3>1 DEF Panels!Visible
    <3> QED
      BY <1>2, <1>4, <3>2 DEF Panels!Stands
  <2> QED
    BY <2>1, <2>2
<1>6. q.area \in Panels(at)!Areas(q.list) \/ (q.area = None /\ Panels(at)!Areas(q.list) = {})
  BY <1>4, PanelSyncedIsArea
<1>7. /\ q \in Panels(at)!PageRecord /\ Panels(at)!PanelSound(q.panel)
         /\ Panels(at)!Stands(q.panel, q)
      /\ q.list = p.list /\ q.form = p.form /\ q.unitForm = p.unitForm
      /\ q.area = Panels(at)!SyncedArea(p) /\ q.panel = panel
  BY <1>2, <1>4, <1>5
<1> QED
  BY <1>6, <1>7 DEF panel, q

\* A rendering of a sound page is sound.
LEMMA PanelTurnKeeps ==
  ASSUME NEW at, Panels(at)!Assumptions, Panels(at)!PanelInv, NEW p \in Panels(at)!PageRecord,
         Panels(at)!PanelSound(p.panel), Panels(at)!Turn(p),
         Panels(at)!RowsSound', IsFiniteSet(call'), \A c \in call' : Panels(at)!CallSound(c)
  PROVE  Panels(at)!PanelInv'
<1>1. /\ page' \in Panels(at)!PageRecord /\ Panels(at)!PanelSound(page'.panel)
         /\ Panels(at)!Stands(page'.panel, page')
      /\ page'.area \in Panels(at)!Areas(page'.list)
         \/ (page'.area = None /\ Panels(at)!Areas(page'.list) = {})
  BY PanelRenderedIsRight DEF Panels!Turn
<1>2. page' \in Panels(at)!PageRecord /\ Panels(at)!PanelSound(page.panel)'
      /\ Panels(at)!PanelStands'
  BY <1>1 DEF Panels!PanelSound, Panels!PanelStands, Panels!Stands, Panels!Visible, Panels!Areas,
     Panels!Resources
<1> QED
  BY PanelCounts, <1>2 DEF Panels!PanelInv, Panels!CallSound

\* A step that leaves the page.
LEMMA PanelCallsKeep ==
  ASSUME NEW at, Panels(at)!PanelInv, UNCHANGED page, Panels(at)!RowsSound', IsFiniteSet(call'),
         \A c \in call' : Panels(at)!CallSound(c)
  PROVE  Panels(at)!PanelInv'
BY PanelCounts DEF Panels!PanelInv, Panels!PanelStands, Panels!Stands, Panels!Visible, Panels!Areas,
       Panels!Resources, Panels!PanelSound, Panels!CallSound

\* Rows that do not change stay sound.
LEMMA PanelRowsKeep ==
  ASSUME NEW at, Panels(at)!RowsSound, UNCHANGED <<rows, used>>
  PROVE  Panels(at)!RowsSound'
BY DEF Panels!RowsSound, Panels!Resources

\* A list that arrives and another area keep the invariant.
LEMMA PanelListKeeps ==
  ASSUME NEW at, Panels(at)!Assumptions, Panels(at)!PanelInv, Panels(at)!Refetch
         \/ Panels(at)!SelectArea
  PROVE  Panels(at)!PanelInv'
<1>1. page \in Panels(at)!PageRecord /\ rows \in Panels(at)!Tables
      /\ Panels(at)!PanelSound(page.panel)
  BY DEF Panels!PanelInv, Panels!RowsSound
<1>2. Panels(at)!RowsSound' /\ IsFiniteSet(call') /\ \A c \in call' : Panels(at)!CallSound(c)
  BY PanelCounts, PanelRowsKeep DEF Panels!PanelInv, Panels!Refetch, Panels!SelectArea
<1>3. CASE Panels(at)!Refetch
  <2> DEFINE p == [page EXCEPT !.list = rows]
  <2>1. p \in Panels(at)!PageRecord /\ p.panel = page.panel
    BY <1>1 DEF Panels!PageRecord
  <2> QED
    BY <1>1, <1>2, <1>3, <2>1, PanelTurnKeeps DEF Panels!Refetch
<1>4. CASE Panels(at)!SelectArea
  <2>1. PICK a \in Panels(at)!Areas(page.list) : Panels(at)!Turn([page EXCEPT !.area = a])
    BY <1>4 DEF Panels!SelectArea
  <2>2. a \in Nat
    BY <1>1 DEF Panels!Assumptions, Panels!Areas, Panels!Resources, Panels!PageRecord, Panels!Tables
  <2>3. [page EXCEPT !.area = a] \in Panels(at)!PageRecord
        /\ [page EXCEPT !.area = a].panel = page.panel
    BY <1>1, <2>2 DEF Panels!PageRecord
  <2> QED
    BY <1>1, <1>2, <2>1, <2>3, PanelTurnKeeps
<1> QED
  BY <1>3, <1>4

-----------------------------------------------------------------------------
(* The resources workspace: panels *)

\* A panel that is opened forgets calls but loses none.
LEMMA PanelUnwatchedAreCalls ==
  ASSUME NEW at, Panels(at)!PanelInv, NEW kind
  PROVE  IsFiniteSet(Panels(at)!Unwatched(kind))
         /\ \A c \in Panels(at)!Unwatched(kind) : Panels(at)!CallSound(c)
<1> DEFINE W(c) == IF c.kind = kind THEN [c EXCEPT !.watched = FALSE] ELSE c
           f == [c \in call |-> W(c)]
<1>1. Panels(at)!Unwatched(kind) = {W(c) : c \in call}
  BY DEF Panels!Unwatched
<1>2. ASSUME NEW c \in call PROVE Panels(at)!CallSound(W(c))
  BY DEF Panels!PanelInv, Panels!CallSound, Panels!CallRecord
<1> HIDE DEF W
<1>3. f \in Surjection(call, Panels(at)!Unwatched(kind))
  BY <1>1 DEF Surjection
<1> HIDE DEF f
<1>4. IsFiniteSet(Panels(at)!Unwatched(kind))
  BY PanelCounts, <1>3, FS_Surjection DEF Panels!PanelInv
<1> QED
  BY <1>1, <1>2, <1>4

\* A panel that is opened stands,
LEMMA PanelOpenKeeps ==
  ASSUME NEW at, Panels(at)!Assumptions, Panels(at)!PanelInv, NEW mutation, NEW panel,
         Panels(at)!PanelSound(panel), NEW p \in Panels(at)!PageRecord,
         Panels(at)!OpenPanel(mutation, panel, p)
  PROVE  Panels(at)!PanelInv'
<1>1. [p EXCEPT !.panel = panel] \in Panels(at)!PageRecord
      /\ [p EXCEPT !.panel = panel].panel = panel
  BY DEF Panels!PageRecord, Panels!PanelSound
<1>2. Panels(at)!RowsSound' /\ IsFiniteSet(call') /\ \A c \in call' : Panels(at)!CallSound(c)
  BY PanelRowsKeep, PanelUnwatchedAreCalls DEF Panels!PanelInv, Panels!OpenPanel
<1> QED
  BY <1>1, <1>2, PanelTurnKeeps DEF Panels!OpenPanel

\* The panel that is opened, or none, is about what is visible.
LEMMA PanelsAreSound ==
  ASSUME NEW at, Panels(at)!Assumptions, Panels(at)!PanelInv
  PROVE  /\ Panels(at)!PanelSound(Panels(at)!NoPanel)
            /\ Panels(at)!PanelSound(Panels(at)!Panel("createResource", None, None))
         /\ \A r \in Panels(at)!Visible(page) : r \in Setting[at].ResourceId
            /\ Panels(at)!PanelSound(Panels(at)!Panel("editResource", r, None))
         /\ \A r \in Panels(at)!Visible(page)
            : Panels(at)!PanelSound(Panels(at)!Panel("createUnit", r, None))
         /\ \A u \in Panels(at)!Units(page) : page.list.owner[u] \in Panels(at)!Visible(page) =>
              u \in Setting[at].UnitId
                /\ Panels(at)!PanelSound(Panels(at)!Panel("editUnit", page.list.owner[u], u))
BY DEF Panels!PanelSound, Panels!Panel, Panels!NoPanel, Panels!PanelRecord, Panels!PanelKinds,
       Panels!Visible, Panels!Resources, Panels!Units

\* whichever it is.
LEMMA PanelOpenStepsKeep ==
  ASSUME NEW at, Panels(at)!Assumptions, Panels(at)!PanelInv,
         Panels(at)!OpenCreateResource \/ Panels(at)!OpenEditResource \/ Panels(at)!OpenCreateUnit
           \/ Panels(at)!OpenEditUnit
  PROVE  Panels(at)!PanelInv'
<1>1. page \in Panels(at)!PageRecord
  BY DEF Panels!PanelInv
<1>2. CASE Panels(at)!OpenCreateResource
  BY <1>1, <1>2, PanelsAreSound, PanelOpenKeeps DEF Panels!OpenCreateResource
<1>3. CASE Panels(at)!OpenEditResource
  <2>1. PICK r \in Panels(at)!Visible(page) :
          Panels(at)!OpenPanel("saveResource", Panels(at)!Panel("editResource", r, None),
            [page EXCEPT !.form = r])
    BY <1>3 DEF Panels!OpenEditResource
  <2>2. [page EXCEPT !.form = r] \in Panels(at)!PageRecord
    BY <1>1, PanelsAreSound DEF Panels!PageRecord
  <2> QED
    BY <2>1, <2>2, PanelsAreSound, PanelOpenKeeps
<1>4. CASE Panels(at)!OpenCreateUnit
  <2>1. PICK r \in Panels(at)!Visible(page)
           : Panels(at)!OpenPanel("createUnit", Panels(at)!Panel("createUnit", r, None), page)
    BY <1>4 DEF Panels!OpenCreateUnit
  <2> QED
    BY <1>1, <2>1, PanelsAreSound, PanelOpenKeeps
<1>5. CASE Panels(at)!OpenEditUnit
  <2>1. PICK u \in Panels(at)!Units(page) :
          /\ page.list.owner[u] \in Panels(at)!Visible(page)
          /\ Panels(at)!OpenPanel("saveUnit", Panels(at)!Panel("editUnit", page.list.owner[u], u),
                       [page EXCEPT !.unitForm = u])
    BY <1>5 DEF Panels!OpenEditUnit
  <2>2. u \in Setting[at].UnitId
        /\ Panels(at)!PanelSound(Panels(at)!Panel("editUnit", page.list.owner[u], u))
    BY <2>1, PanelsAreSound
  <2>3. [page EXCEPT !.unitForm = u] \in Panels(at)!PageRecord
    BY <1>1, <2>2 DEF Panels!PageRecord
  <2> QED
    BY <2>1, <2>2, <2>3, PanelOpenKeeps
<1> QED
  BY <1>2, <1>3, <1>4, <1>5

\* A panel that is closed leaves nothing to stand.
LEMMA PanelCancelKeeps ==
  ASSUME NEW at, Panels(at)!Assumptions, Panels(at)!PanelInv, Panels(at)!CancelPanel
  PROVE  Panels(at)!PanelInv'
<1> DEFINE panel == page.panel
           p == [page EXCEPT
                    !.form = IF panel.kind = "editResource" THEN panel.resource ELSE @,
                    !.unitForm = IF panel.kind = "editUnit" THEN panel.unit ELSE @]
<1>1. page \in Panels(at)!PageRecord /\ Panels(at)!PanelSound(panel)
  BY DEF Panels!PanelInv
<1>2. p \in Panels(at)!PageRecord
  BY <1>1 DEF Panels!PageRecord, Panels!PanelSound
<1>3. Panels(at)!OpenPanel(Panels(at)!MutationOf(panel), Panels(at)!NoPanel, p)
  BY DEF Panels!CancelPanel
<1> HIDE DEF p, panel
<1> QED
  BY <1>2, <1>3, PanelsAreSound, PanelOpenKeeps

-----------------------------------------------------------------------------
(* The resources workspace: calls *)

\* There is a number for another change as long as there are fewer than there may be.
LEMMA PanelNumberIsFree ==
  ASSUME NEW at, Panels(at)!Assumptions, Panels(at)!PanelInv,
         Cardinality(call) < Setting[at].MaxCall
  PROVE  \E i \in 1..Setting[at].MaxCall : \A c \in call : c.n # i
<1> DEFINE N == {c.n : c \in call}
           f == [c \in call |-> c.n]
<1>1. f \in Surjection(call, N)
  BY DEF Surjection
<1> HIDE DEF f, N
<1>2. IsFiniteSet(N) /\ Cardinality(N) <= Cardinality(call)
  BY PanelCounts, <1>1, FS_Surjection DEF Panels!PanelInv
<1>3. Cardinality(1..Setting[at].MaxCall) = Setting[at].MaxCall /\ Setting[at].MaxCall \in Nat
  BY FS_Interval DEF Panels!Assumptions
<1>4. Cardinality(call) \in Nat /\ Cardinality(N) \in Nat
  BY PanelCounts, <1>2, FS_CardinalityType DEF Panels!PanelInv
<1>5. ASSUME 1..Setting[at].MaxCall \subseteq N PROVE FALSE
  <2>1. Cardinality(1..Setting[at].MaxCall) <= Cardinality(N)
    BY <1>2, <1>5, FS_Subset
  <2> QED
    BY <1>2, <1>3, <1>4, <2>1
<1> QED
  BY <1>5 DEF N

\* A call that is sent is about what is shown,
LEMMA PanelSendKeeps ==
  ASSUME NEW at, Panels(at)!Assumptions, Panels(at)!PanelInv, NEW kind,
         NEW r \in Setting[at].ResourceId \cup {None},
         NEW u \in Setting[at].UnitId \cup {None}, NEW code \in Setting[at].Code \cup {None},
           Panels(at)!Send(kind, r, u, code),
         kind \in {"createResource", "saveResource"} => code \in Setting[at].Code,
         kind # "createResource" => r \in Setting[at].ResourceId,
         kind \in {"saveUnit", "deleteUnit"} => u \in Setting[at].UnitId
  PROVE  Panels(at)!PanelInv'
<1> DEFINE n == CHOOSE i \in 1..Setting[at].MaxCall : \A c \in call : c.n # i
           d == [n |-> n, kind |-> kind, resource |-> r, unit |-> u, code |-> code,
                 watched |-> TRUE, answered |-> FALSE]
<1>1. n \in 1..Setting[at].MaxCall
  BY PanelNumberIsFree, PanelCounts DEF Panels!Send
<1>2. call' = call \cup {d} /\ kind \in Setting[at].Kind /\ UNCHANGED <<rows, used, page>>
  BY DEF Panels!Send
<1> HIDE DEF n
<1>3. Panels(at)!CallSound(d)
  BY <1>1, <1>2 DEF Panels!CallSound, Panels!CallRecord
<1> HIDE DEF d
<1>4. IsFiniteSet(call') /\ \A c \in call' : Panels(at)!CallSound(c)
  BY PanelCounts, <1>2, <1>3, FS_AddElement DEF Panels!PanelInv
<1> QED
  BY <1>2, <1>4, PanelRowsKeep, PanelCallsKeep DEF Panels!PanelInv

\* whichever button sends it.
LEMMA PanelButtonsKeep ==
  ASSUME NEW at, Panels(at)!Assumptions, Panels(at)!PanelInv, Panels(at)!SubmitPanel
         \/ Panels(at)!DeleteResource \/ Panels(at)!DeleteUnit
  PROVE  Panels(at)!PanelInv'
<1>1. CASE Panels(at)!SubmitPanel
  <2> DEFINE panel == page.panel
  <2>1. PICK code \in Panels(at)!Typed(panel) :
          Panels(at)!Send(Panels(at)!MutationOf(panel), panel.resource, panel.unit, code)
    BY <1>1 DEF Panels!SubmitPanel
  <2>2. panel # Panels(at)!NoPanel /\ Panels(at)!PanelSound(panel)
    BY <1>1 DEF Panels!SubmitPanel, Panels!PanelInv
  <2>3. ASSUME panel.kind = "none" PROVE FALSE
    BY <2>1, <2>2, <2>3 DEF Panels!PanelSound
  <2> HIDE DEF panel
  <2>4. panel.resource \in Setting[at].ResourceId \cup {None}
        /\ panel.unit \in Setting[at].UnitId \cup {None}
        /\ panel.kind \in Panels(at)!PanelKinds \ {"none"}
    BY <2>2, <2>3 DEF Panels!PanelSound, Panels!PanelRecord
  <2>5. code \in Setting[at].Code \cup {None}
        /\ (panel.kind \in {"createResource", "editResource"} => code \in Setting[at].Code)
    BY DEF Panels!Typed
  <2>6. Panels(at)!MutationOf(panel) = CASE panel.kind = "createResource" -> "createResource"
                              [] panel.kind = "editResource" -> "saveResource"
                              [] panel.kind = "createUnit" -> "createUnit"
                              [] panel.kind = "editUnit" -> "saveUnit"
    BY <2>4 DEF Panels!MutationOf, Panels!PanelKinds
  <2> QED
    BY <2>1, <2>2, <2>4, <2>5, <2>6, PanelSendKeeps DEF Panels!PanelSound, Panels!PanelKinds
<1>2. CASE Panels(at)!DeleteResource
  <2>1. PICK r \in Panels(at)!Visible(page) : Panels(at)!Send("deleteResource", r, None, None)
    BY <1>2 DEF Panels!DeleteResource
  <2>2. r \in Setting[at].ResourceId
    BY PanelsAreSound
  <2> QED
    BY <2>1, <2>2, PanelSendKeeps
<1>3. CASE Panels(at)!DeleteUnit
  <2>1. PICK u \in Panels(at)!Units(page) :
          page.list.owner[u] \in Panels(at)!Visible(page)
          /\ Panels(at)!Send("deleteUnit", page.list.owner[u], u, None)
    BY <1>3 DEF Panels!DeleteUnit
  <2>2. u \in Setting[at].UnitId /\ page.list.owner[u] \in Setting[at].ResourceId
    BY <2>1, PanelsAreSound
  <2> QED
    BY <2>1, <2>2, PanelSendKeeps
<1> QED
  BY <1>1, <1>2, <1>3

\* What a handler changes leaves the rows sound.
LEMMA PanelSetCodeKeeps ==
  ASSUME NEW at, Panels(at)!Assumptions, Panels(at)!RowsSound, NEW r \in Setting[at].ResourceId,
         NEW code \in Setting[at].Code \cup {None},
         Panels(at)!SetCode(r, code),
         code # None => Panels(at)!CodeIsFree(code, r) /\ r \notin used /\ UNCHANGED used,
         code = None => used' = used \cup {r} /\ \A u \in Setting[at].UnitId : rows.owner[u] # r
  PROVE  Panels(at)!RowsSound'
<1>1. /\ rows' \in Panels(at)!Tables /\ rows'.owner = rows.owner /\ rows'.code[r] = code
      /\ \A s \in Setting[at].ResourceId \ {r} : rows'.code[s] = rows.code[s]
  BY DEF Panels!RowsSound, Panels!SetCode, Panels!Tables
<1>2. Panels(at)!Resources(rows') = IF code = None THEN Panels(at)!Resources(rows) \ {r}
      ELSE Panels(at)!Resources(rows) \cup {r}
  BY <1>1 DEF Panels!Resources
<1>3. Panels(at)!CodeIsFree(code, r)
      => \A s \in Panels(at)!Resources(rows) \ {r} : rows.code[s] # code
  BY DEF Panels!CodeIsFree
<1>4. \A s \in Panels(at)!Resources(rows) : s \in Setting[at].ResourceId
  BY DEF Panels!Resources
<1>5. \A u \in Setting[at].UnitId : rows'.owner[u] \in Panels(at)!Resources(rows') \cup {None}
  BY <1>1, <1>2 DEF Panels!RowsSound
<1>6. \A s, q \in Panels(at)!Resources(rows') : s # q => rows'.code[s] # rows'.code[q]
  BY <1>1, <1>2, <1>3, <1>4 DEF Panels!RowsSound
<1>7. used' \cap Panels(at)!Resources(rows') = {}
  BY <1>2 DEF Panels!RowsSound
<1> QED
  BY <1>1, <1>5, <1>6, <1>7 DEF Panels!RowsSound, Panels!Resources

\* A unit that changes hands is of a resource there is, or of none.
LEMMA PanelSetOwnerKeeps ==
  ASSUME NEW at, Panels(at)!Assumptions, Panels(at)!RowsSound, NEW u \in Setting[at].UnitId,
         NEW r \in Panels(at)!Resources(rows) \cup {None},
         Panels(at)!SetOwner(u, r), used' \in {used, used \cup {u}}
  PROVE  Panels(at)!RowsSound'
<1>1. /\ rows' \in Panels(at)!Tables /\ rows'.code = rows.code /\ rows'.owner[u] = r
      /\ \A v \in Setting[at].UnitId \ {u} : rows'.owner[v] = rows.owner[v]
  BY DEF Panels!RowsSound, Panels!SetOwner, Panels!Tables, Panels!Resources
<1>2. Panels(at)!Resources(rows') = Panels(at)!Resources(rows)
      /\ Panels(at)!Resources(rows) \subseteq Setting[at].ResourceId
  BY <1>1 DEF Panels!Resources
<1>3. used' \cap Panels(at)!Resources(rows') = {}
  BY <1>2 DEF Panels!RowsSound, Panels!Assumptions
<1> QED
  BY <1>1, <1>2, <1>3 DEF Panels!RowsSound, Panels!Resources

\* What a handler writes keeps the rows sound,
LEMMA PanelEffectKeeps ==
  ASSUME NEW at, Panels(at)!Assumptions, Panels(at)!RowsSound, NEW c, Panels(at)!CallSound(c),
         NEW r \in IF c.kind = "createResource" THEN Panels(at)!NewResources ELSE {c.resource},
         NEW u \in IF c.kind = "createUnit" THEN Panels(at)!NewUnits ELSE {c.unit},
         Panels(at)!Effect(c, r, u)
  PROVE  Panels(at)!RowsSound'
         /\ Panels(at)!CallSound([c EXCEPT !.answered = TRUE, !.resource = r, !.unit = u])
<1>1. /\ r \in Setting[at].ResourceId /\ (c.kind = "createResource" => r \notin used)
      /\ u \in Setting[at].UnitId \cup {None}
         /\ (c.kind \in {"createUnit", "saveUnit", "deleteUnit"} => u \in Setting[at].UnitId)
  BY DEF Panels!CallSound, Panels!CallRecord, Panels!NewResources, Panels!NewUnits
<1>2. Panels(at)!CallSound([c EXCEPT !.answered = TRUE, !.resource = r, !.unit = u])
  BY <1>1 DEF Panels!CallSound, Panels!CallRecord
<1>3. Panels(at)!Resources(rows) = {s \in Setting[at].ResourceId : rows.code[s] # None}
      /\ used \cap Panels(at)!Resources(rows) = {}
  BY DEF Panels!Resources, Panels!RowsSound
<1>4. CASE c.kind = "createResource"
  <2>1. Panels(at)!CodeIsFree(c.code, None) /\ Panels(at)!SetCode(r, c.code) /\ UNCHANGED used
        /\ c.code \in Setting[at].Code
    BY <1>4 DEF Panels!Effect, Panels!CallSound
  <2>2. Panels(at)!CodeIsFree(c.code, r)
    BY <1>3, <2>1 DEF Panels!CodeIsFree, Panels!Assumptions
  <2> QED
    BY <1>1, <1>2, <1>4, <2>1, <2>2, PanelSetCodeKeeps DEF Panels!Assumptions
<1>5. CASE c.kind = "saveResource"
  <2>1. rows.code[r] # None /\ Panels(at)!CodeIsFree(c.code, r) /\ Panels(at)!SetCode(r, c.code)
        /\ UNCHANGED used
        /\ c.code \in Setting[at].Code
    BY <1>5 DEF Panels!Effect, Panels!CallSound
  <2>2. r \notin used
    BY <1>1, <1>3, <2>1
  <2> QED
    BY <1>1, <1>2, <2>1, <2>2, PanelSetCodeKeeps DEF Panels!Assumptions
<1>6. CASE c.kind = "deleteResource"
  <2>1. (\A v \in Setting[at].UnitId : rows.owner[v] # r) /\ Panels(at)!SetCode(r, None)
        /\ used' = used \cup {r}
    BY <1>6 DEF Panels!Effect
  <2> QED
    BY <1>1, <1>2, <2>1, PanelSetCodeKeeps
<1>7. CASE c.kind = "createUnit"
  <2>1. rows.code[r] # None /\ Panels(at)!SetOwner(u, r) /\ UNCHANGED used
    BY <1>7 DEF Panels!Effect
  <2> QED
    BY <1>1, <1>2, <1>3, <1>7, <2>1, PanelSetOwnerKeeps
<1>8. CASE c.kind = "saveUnit"
  BY <1>2, <1>8, PanelRowsKeep DEF Panels!Effect
<1>9. CASE c.kind = "deleteUnit"
  <2>1. Panels(at)!SetOwner(u, None) /\ used' = used \cup {u}
    BY <1>9 DEF Panels!Effect
  <2> QED
    BY <1>1, <1>2, <1>9, <2>1, PanelSetOwnerKeeps
<1> QED
  BY <1>4, <1>5, <1>6, <1>7, <1>8, <1>9 DEF Panels!Effect

\* and its answer is about rows there were.
LEMMA PanelHandleKeeps ==
  ASSUME NEW at, Panels(at)!Assumptions, Panels(at)!PanelInv, NEW c \in call, Panels(at)!Handle(c)
  PROVE  Panels(at)!PanelInv'
<1>1. PICK r \in IF c.kind = "createResource" THEN Panels(at)!NewResources ELSE {c.resource},
           u \in IF c.kind = "createUnit" THEN Panels(at)!NewUnits ELSE {c.unit} :
        /\ Panels(at)!Effect(c, r, u)
        /\ call' = (call \ {c})
                   \cup {[c EXCEPT !.answered = TRUE, !.resource = r, !.unit = u]}
  BY DEF Panels!Handle
<1>2. Panels(at)!RowsSound'
      /\ Panels(at)!CallSound([c EXCEPT !.answered = TRUE, !.resource = r, !.unit = u])
  BY <1>1, PanelEffectKeeps DEF Panels!PanelInv
<1>3. IsFiniteSet(call \ {c})
  BY PanelCounts, FS_RemoveElement DEF Panels!PanelInv
<1>4. IsFiniteSet(call') /\ \A d \in call' : Panels(at)!CallSound(d)
  BY <1>1, <1>2, <1>3, FS_AddElement DEF Panels!PanelInv
<1> QED
  BY <1>2, <1>4, PanelCallsKeep DEF Panels!Handle

\* A call that fails changes no row.
LEMMA PanelFailsKeeps ==
  ASSUME NEW at, Panels(at)!Assumptions, Panels(at)!PanelInv, NEW c \in call, Panels(at)!Fails(c)
  PROVE  Panels(at)!PanelInv'
<1>1. IsFiniteSet(call') /\ \A d \in call' : Panels(at)!CallSound(d)
  BY PanelCounts, FS_RemoveElement DEF Panels!PanelInv, Panels!Fails
<1> QED
  BY <1>1, PanelRowsKeep, PanelCallsKeep DEF Panels!PanelInv, Panels!Fails

\* What an answer sets is typed, and it may close the panel, but opens none.
LEMMA PanelReceivedIsPage ==
  ASSUME NEW at, Panels(at)!Assumptions, Panels(at)!PanelInv, NEW c \in call
  PROVE  LET p == Panels(at)!Received(c) IN
         /\ p \in Panels(at)!PageRecord /\ p.list = page.list
            /\ p.panel \in {page.panel, Panels(at)!NoPanel}
         /\ c.kind \in {"createResource", "saveResource"} =>
              c.code \in Setting[at].Code /\ p.area = Setting[at].AreaOf[c.code]
                /\ p.panel = page.panel
         /\ c.kind \notin {"createResource", "saveResource"} => p.area = page.area
         /\ c.kind \notin {"deleteResource", "deleteUnit"} => p.panel = page.panel
         /\ c.kind \notin {"saveResource", "saveUnit"} =>
              p.form = page.form /\ p.unitForm = page.unitForm
<1>1. page \in Panels(at)!PageRecord /\ Panels(at)!CallSound(c)
      /\ Panels(at)!NoPanel \in Panels(at)!PanelRecord
  BY DEF Panels!PanelInv, Panels!NoPanel, Panels!PanelRecord, Panels!PanelKinds
<1>2. c.kind \in {"createResource", "saveResource"} => Setting[at].AreaOf[c.code] \in Nat
  BY <1>1 DEF Panels!CallSound, Panels!Assumptions
<1>3. CASE c.kind = "createResource"
  BY <1>1, <1>2, <1>3 DEF Panels!Received, Panels!CallSound, Panels!PageRecord
<1>4. CASE c.kind = "saveResource"
  BY <1>1, <1>2, <1>4 DEF Panels!Received, Panels!CallSound, Panels!PageRecord
<1>5. CASE c.kind = "saveUnit"
  BY <1>1, <1>5 DEF Panels!Received, Panels!CallSound, Panels!PageRecord
<1>6. CASE c.kind = "deleteResource"
  BY <1>1, <1>6 DEF Panels!Received, Panels!PageRecord
<1>7. CASE c.kind = "deleteUnit"
  BY <1>1, <1>7 DEF Panels!Received, Panels!PageRecord
<1>8. CASE c.kind \notin {"createResource", "saveResource", "saveUnit", "deleteResource",
                         "deleteUnit"}
  BY <1>1, <1>8 DEF Panels!Received
<1> QED
  BY <1>3, <1>4, <1>5, <1>6, <1>7, <1>8

\* An answer keeps the panel that is open standing, or closes it.
LEMMA PanelReceiveKeeps ==
  ASSUME NEW at, Panels(at)!Assumptions, Panels(at)!PanelInv, NEW c \in call, Panels(at)!Receive(c)
  PROVE  Panels(at)!PanelInv'
<1>1. IsFiniteSet(call') /\ \A d \in call' : Panels(at)!CallSound(d)
  BY PanelCounts, FS_RemoveElement DEF Panels!PanelInv, Panels!Receive
<1>2. Panels(at)!RowsSound'
  BY PanelRowsKeep DEF Panels!PanelInv, Panels!Receive
<1>3. Panels(at)!Received(c) \in Panels(at)!PageRecord
      /\ Panels(at)!PanelSound(Panels(at)!Received(c).panel)
  BY PanelReceivedIsPage, PanelsAreSound DEF Panels!PanelInv
<1> QED
  BY <1>1, <1>2, <1>3, PanelTurnKeeps DEF Panels!Receive

\* The workspace starts sound,
LEMMA PanelInit ==
  ASSUME NEW at PROVE Panels(at)!Assumptions /\ Panels(at)!Init => Panels(at)!PanelInv
<1> SUFFICES ASSUME Panels(at)!Assumptions, Panels(at)!Init PROVE Panels(at)!PanelInv
  OBVIOUS
<1>1. Panels(at)!RowsSound
  BY DEF Panels!Init, Panels!RowsSound, Panels!Tables
<1>2. Panels(at)!Areas(Panels(at)!NoRows) = {}
  BY DEF Panels!Areas, Panels!Resources, Panels!NoRows
<1>3. page \in Panels(at)!PageRecord /\ Panels(at)!PanelSound(page.panel) /\ Panels(at)!PanelStands
  BY <1>2 DEF Panels!Init, Panels!PageRecord, Panels!NoRows, Panels!Tables, Panels!NoPanel,
     Panels!PanelRecord, Panels!PanelKinds, Panels!PanelSound,
              Panels!PanelStands, Panels!Stands
<1> QED
  BY PanelCounts, <1>1, <1>3, FS_EmptySet DEF Panels!Init, Panels!PanelInv

\* and every step keeps it so.
LEMMA PanelStep ==
  ASSUME NEW at
  PROVE Panels(at)!Assumptions /\ Panels(at)!PanelInv /\ [Panels(at)!Next]_(Panels(at)!vars)
  => Panels(at)!PanelInv'
<1> SUFFICES ASSUME Panels(at)!Assumptions, Panels(at)!PanelInv,
         [Panels(at)!Next]_(Panels(at)!vars) PROVE Panels(at)!PanelInv'
  OBVIOUS
<1>1. CASE UNCHANGED Panels(at)!vars
  BY PanelCounts, <1>1, PanelRowsKeep, PanelCallsKeep DEF Panels!vars, Panels!PanelInv
<1> QED
  BY <1>1, PanelListKeeps, PanelOpenStepsKeep, PanelCancelKeeps, PanelButtonsKeep,
     PanelHandleKeeps, PanelFailsKeeps,
     PanelReceiveKeeps DEF Panels!Next

\* A sound workspace has its types.
LEMMA PanelTypes ==
  ASSUME NEW at PROVE Panels(at)!PanelInv => Panels(at)!TypeOK
BY DEF Panels!PanelInv, Panels!RowsSound, Panels!TypeOK, Panels!Tables, Panels!PageRecord,
       Panels!PanelRecord, Panels!CallSound, Panels!CallRecord

-----------------------------------------------------------------------------
(* The resources workspace: what stays open *)

\* A panel that stands where it is rendered stays open.
LEMMA PanelStays ==
  ASSUME NEW at, Panels(at)!Assumptions, NEW p \in Panels(at)!PageRecord,
         Panels(at)!PanelSound(p.panel), Panels(at)!Turn(p),
         page'.area = p.area, Panels(at)!Stands(p.panel, page')
  PROVE  page'.panel = p.panel
<1>1. page'.list = p.list
      /\ page'.panel = IF Panels(at)!Stands(p.panel, p) THEN p.panel ELSE Panels(at)!NoPanel
  BY PanelRenderedIsRight DEF Panels!Turn
<1>2. Panels(at)!Visible(page') = Panels(at)!Visible(p)
  BY <1>1 DEF Panels!Visible
<1>3. Panels(at)!Stands(p.panel, p)
  BY <1>1, <1>2 DEF Panels!Stands
<1> QED
  BY <1>1, <1>3

\* The steps that close a panel, or fill a form, but by the administrator.
LEMMA PanelCloses ==
  ASSUME NEW at, Panels(at)!Assumptions, Panels(at)!PanelInv, [Panels(at)!Next]_(Panels(at)!vars),
         ~(Panels(at)!OpenCreateResource \/ Panels(at)!OpenEditResource
           \/ Panels(at)!OpenCreateUnit \/ Panels(at)!OpenEditUnit
           \/ Panels(at)!CancelPanel),
         page'.area = page.area, Panels(at)!Stands(page.panel, page'), page'.panel # page.panel
  PROVE  \E c \in call :
              /\ Panels(at)!Receive(c)
              /\ \/ c.kind \in {"deleteResource", "deleteUnit"}
                 \/ c.code # None /\ Setting[at].AreaOf[c.code] \notin Panels(at)!Areas(page.list)
<1>1. page \in Panels(at)!PageRecord /\ Panels(at)!PanelSound(page.panel)
      /\ rows \in Panels(at)!Tables
  BY DEF Panels!PanelInv, Panels!RowsSound
<1>2. CASE Panels(at)!Refetch
  <2> DEFINE p == [page EXCEPT !.list = rows]
  <2>1. p \in Panels(at)!PageRecord /\ p.panel = page.panel /\ p.area = page.area
    BY <1>1 DEF Panels!PageRecord
  <2> QED
    BY <1>1, <1>2, <2>1, PanelStays DEF Panels!Refetch
<1>3. CASE Panels(at)!SelectArea
  <2>1. PICK a \in Panels(at)!Areas(page.list) : Panels(at)!Turn([page EXCEPT !.area = a])
    BY <1>3 DEF Panels!SelectArea
  <2>2. a \in Nat
    BY <1>1 DEF Panels!Assumptions, Panels!Areas, Panels!Resources, Panels!PageRecord, Panels!Tables
  <2>3. PICK p : p = [page EXCEPT !.area = a]
    OBVIOUS
  <2>4. /\ p \in Panels(at)!PageRecord /\ p.panel = page.panel /\ p.list = page.list /\ p.area = a
        /\ Panels(at)!Turn(p)
    BY <1>1, <2>1, <2>2, <2>3 DEF Panels!PageRecord
  <2>5. Panels(at)!SyncedArea(p) = a
    BY <2>1, <2>4, PanelSyncedIsArea
  <2>6. page'.area = Panels(at)!SyncedArea(p)
    BY <1>1, <2>4, PanelRenderedIsRight DEF Panels!Turn
  <2> QED
    BY <1>1, <2>4, <2>5, <2>6, PanelStays
<1>4. ASSUME NEW c \in call, Panels(at)!Receive(c)
      PROVE  \/ c.kind \in {"deleteResource", "deleteUnit"}
             \/ c.code # None /\ Setting[at].AreaOf[c.code] \notin Panels(at)!Areas(page.list)
  <2>1. PICK p : p = Panels(at)!Received(c)
    OBVIOUS
  <2>2. Panels(at)!Turn(p) /\ p \in Panels(at)!PageRecord /\ Panels(at)!PanelSound(p.panel)
        /\ p.list = page.list
    BY <1>1, <1>4, <2>1, PanelReceivedIsPage, PanelsAreSound DEF Panels!Receive
  <2>3. page'.area = Panels(at)!SyncedArea(p)
    BY <2>2, PanelRenderedIsRight DEF Panels!Turn
  <2>4. CASE c.kind \in {"createResource", "saveResource"}
    <3>1. c.code \in Setting[at].Code /\ p.area = Setting[at].AreaOf[c.code] /\ p.panel = page.panel
      BY <2>1, <2>4, PanelReceivedIsPage
    <3>2. ASSUME Setting[at].AreaOf[c.code] \in Panels(at)!Areas(page.list) PROVE FALSE
      <4>1. page'.area = p.area
        BY <2>2, <2>3, <3>1, <3>2, PanelSyncedIsArea
      <4> QED
        BY <2>2, <3>1, <4>1, PanelStays
    <3> QED
      BY <3>1, <3>2 DEF Panels!Assumptions
  <2>5. CASE c.kind \notin {"createResource", "saveResource", "deleteResource", "deleteUnit"}
    <3>1. p.area = page.area /\ p.panel = page.panel
      BY <2>1, <2>5, PanelReceivedIsPage
    <3> QED
      BY <2>2, <3>1, PanelStays
  <2> QED
    BY <2>4, <2>5
<1>5. ASSUME UNCHANGED page PROVE FALSE
  BY <1>5
<1>6. CASE Panels(at)!SubmitPanel \/ Panels(at)!DeleteResource \/ Panels(at)!DeleteUnit
  BY <1>5, <1>6 DEF Panels!SubmitPanel, Panels!DeleteResource, Panels!DeleteUnit, Panels!Send
<1>7. ASSUME NEW c \in call, Panels(at)!Handle(c) \/ Panels(at)!Fails(c) PROVE FALSE
  BY <1>5, <1>7 DEF Panels!Handle, Panels!Fails
<1> QED
  BY <1>2, <1>3, <1>4, <1>5, <1>6, <1>7 DEF Panels!Next, Panels!vars

\* A panel that is opened is another one.
LEMMA PanelOpenedIsOther ==
  ASSUME NEW at, Panels(at)!Assumptions, Panels(at)!PanelInv, NEW mutation, NEW panel,
         Panels(at)!PanelSound(panel), NEW p \in Panels(at)!PageRecord,
         p.list = page.list, p.area = page.area,
         Panels(at)!Stands(panel, page), Panels(at)!OpenPanel(mutation, panel, p)
  PROVE  page'.panel # page.panel
<1> DEFINE q == [p EXCEPT !.panel = panel]
<1>1. q \in Panels(at)!PageRecord /\ q.panel = panel /\ q.list = page.list /\ q.area = page.area
  BY DEF Panels!PageRecord, Panels!PanelSound
<1>2. Panels(at)!Turn(q) /\ panel # page.panel
  BY DEF Panels!OpenPanel
<1> HIDE DEF q
<1>3. Panels(at)!Visible(q) = Panels(at)!Visible(page)
  BY <1>1 DEF Panels!Visible
<1>4. Panels(at)!Stands(panel, q)
  BY <1>1, <1>3 DEF Panels!Stands
<1>5. page'.panel = panel
  BY <1>1, <1>2, <1>4, PanelRenderedIsRight DEF Panels!Turn
<1> QED
  BY <1>2, <1>5

\* A form changes only by its panel or by the answer to its save.
LEMMA PanelFormsStay ==
  ASSUME NEW at, Panels(at)!Assumptions, Panels(at)!PanelInv, [Panels(at)!Next]_(Panels(at)!vars),
         page'.panel = page.panel,
         ~\E c \in call : c.kind \in {"saveResource", "saveUnit"} /\ Panels(at)!Receive(c)
  PROVE  page'.form = page.form /\ page'.unitForm = page.unitForm
<1>1. page \in Panels(at)!PageRecord /\ Panels(at)!PanelSound(page.panel)
      /\ rows \in Panels(at)!Tables
  BY DEF Panels!PanelInv, Panels!RowsSound
<1>2. CASE Panels(at)!Refetch
  <2> DEFINE p == [page EXCEPT !.list = rows]
  <2>1. p \in Panels(at)!PageRecord /\ p.panel = page.panel /\ p.form = page.form
        /\ p.unitForm = page.unitForm
    BY <1>1 DEF Panels!PageRecord
  <2>2. page' = Panels(at)!Rendered(p)
    BY <1>2 DEF Panels!Refetch, Panels!Turn
  <2> HIDE DEF p
  <2> QED
    BY <1>1, <2>1, <2>2, PanelRenderedIsRight
<1>3. CASE Panels(at)!SelectArea
  <2>1. PICK a \in Panels(at)!Areas(page.list) : Panels(at)!Turn([page EXCEPT !.area = a])
    BY <1>3 DEF Panels!SelectArea
  <2>2. a \in Nat
    BY <1>1 DEF Panels!Assumptions, Panels!Areas, Panels!Resources, Panels!PageRecord, Panels!Tables
  <2> DEFINE p == [page EXCEPT !.area = a]
  <2>3. p \in Panels(at)!PageRecord /\ p.panel = page.panel /\ p.form = page.form
        /\ p.unitForm = page.unitForm
    BY <1>1, <2>2 DEF Panels!PageRecord
  <2>4. page' = Panels(at)!Rendered(p)
    BY <2>1 DEF Panels!Turn
  <2> HIDE DEF p
  <2> QED
    BY <1>1, <2>3, <2>4, PanelRenderedIsRight
<1>4. ASSUME NEW c \in call, Panels(at)!Receive(c)
      PROVE  page'.form = page.form /\ page'.unitForm = page.unitForm
  <2>1. PICK p : p = Panels(at)!Received(c)
    OBVIOUS
  <2>2. Panels(at)!Turn(p) /\ p \in Panels(at)!PageRecord /\ Panels(at)!PanelSound(p.panel)
        /\ p.form = page.form /\ p.unitForm = page.unitForm
    BY <1>1, <1>4, <2>1, PanelReceivedIsPage, PanelsAreSound DEF Panels!Receive
  <2> QED
    BY <2>2, PanelRenderedIsRight DEF Panels!Turn
<1>5. ASSUME Panels(at)!OpenCreateResource \/ Panels(at)!OpenEditResource
         \/ Panels(at)!OpenCreateUnit \/ Panels(at)!OpenEditUnit \/ Panels(at)!CancelPanel
      PROVE  FALSE
  <2>1. CASE Panels(at)!OpenCreateResource
    <3>1. Panels(at)!Stands(Panels(at)!Panel("createResource", None, None), page)
      BY DEF Panels!Stands, Panels!Panel
    <3> QED
      BY <1>1, <2>1, <3>1, PanelsAreSound, PanelOpenedIsOther DEF Panels!OpenCreateResource
  <2>2. CASE Panels(at)!OpenEditResource
    <3>1. PICK r \in Panels(at)!Visible(page) :
            Panels(at)!OpenPanel("saveResource", Panels(at)!Panel("editResource", r, None),
              [page EXCEPT !.form = r])
      BY <2>2 DEF Panels!OpenEditResource
    <3>2. Panels(at)!Stands(Panels(at)!Panel("editResource", r, None), page)
      BY DEF Panels!Stands, Panels!Panel
    <3> DEFINE p == [page EXCEPT !.form = r]
    <3>3. p \in Panels(at)!PageRecord /\ p.list = page.list /\ p.area = page.area
      BY <1>1, PanelsAreSound DEF Panels!PageRecord
    <3> QED
      BY <3>1, <3>2, <3>3, PanelsAreSound, PanelOpenedIsOther
  <2>3. CASE Panels(at)!OpenCreateUnit
    <3>1. PICK r \in Panels(at)!Visible(page)
             : Panels(at)!OpenPanel("createUnit", Panels(at)!Panel("createUnit", r, None), page)
      BY <2>3 DEF Panels!OpenCreateUnit
    <3>2. Panels(at)!Stands(Panels(at)!Panel("createUnit", r, None), page)
      BY DEF Panels!Stands, Panels!Panel
    <3> QED
      BY <1>1, <3>1, <3>2, PanelsAreSound, PanelOpenedIsOther
  <2>4. CASE Panels(at)!OpenEditUnit
    <3>1. PICK u \in Panels(at)!Units(page) :
            /\ page.list.owner[u] \in Panels(at)!Visible(page)
            /\ Panels(at)!OpenPanel("saveUnit", Panels(at)!Panel("editUnit", page.list.owner[u], u),
                         [page EXCEPT !.unitForm = u])
      BY <2>4 DEF Panels!OpenEditUnit
    <3>2. Panels(at)!Stands(Panels(at)!Panel("editUnit", page.list.owner[u], u), page)
      BY <3>1 DEF Panels!Stands, Panels!Panel
    <3> DEFINE p == [page EXCEPT !.unitForm = u]
    <3>3. u \in Setting[at].UnitId
          /\ Panels(at)!PanelSound(Panels(at)!Panel("editUnit", page.list.owner[u], u))
      BY <3>1, PanelsAreSound
    <3>4. p \in Panels(at)!PageRecord /\ p.list = page.list /\ p.area = page.area
      BY <1>1, <3>3 DEF Panels!PageRecord
    <3> QED
      BY <3>1, <3>2, <3>3, <3>4, PanelOpenedIsOther
  <2>5. CASE Panels(at)!CancelPanel
    <3> DEFINE panel == page.panel
               p == [page EXCEPT
                       !.form = IF panel.kind = "editResource" THEN panel.resource ELSE @,
                       !.unitForm = IF panel.kind = "editUnit" THEN panel.unit ELSE @]
    <3>1. p \in Panels(at)!PageRecord /\ p.list = page.list /\ p.area = page.area
      BY <1>1 DEF Panels!PageRecord, Panels!PanelSound
    <3>2. Panels(at)!OpenPanel(Panels(at)!MutationOf(panel), Panels(at)!NoPanel, p)
      BY <2>5 DEF Panels!CancelPanel
    <3>3. Panels(at)!Stands(Panels(at)!NoPanel, page)
      BY DEF Panels!Stands, Panels!NoPanel
    <3> HIDE DEF p, panel
    <3> QED
      BY <3>1, <3>2, <3>3, PanelsAreSound, PanelOpenedIsOther
  <2> QED
    BY <1>5, <2>1, <2>2, <2>3, <2>4, <2>5
<1>6. CASE Panels(at)!SubmitPanel \/ Panels(at)!DeleteResource \/ Panels(at)!DeleteUnit
  BY <1>6 DEF Panels!SubmitPanel, Panels!DeleteResource, Panels!DeleteUnit, Panels!Send
<1>7. ASSUME NEW c \in call, Panels(at)!Handle(c) \/ Panels(at)!Fails(c) PROVE UNCHANGED page
  BY <1>7 DEF Panels!Handle, Panels!Fails
<1> QED
  BY <1>2, <1>3, <1>4, <1>5, <1>6, <1>7 DEF Panels!Next, Panels!vars

\* Neither a list nor the answer to another call changes an open panel.
LEMMA PanelKept ==
  ASSUME NEW at
  PROVE Panels(at)!Assumptions /\ Panels(at)!PanelInv /\ [Panels(at)!Next]_(Panels(at)!vars)
  => Panels(at)!KeepsPanel
BY PanelCloses, PanelFormsStay DEF Panels!KeepsPanel

-----------------------------------------------------------------------------
(* The page of a room *)

\* The page of a room starts with a display that has its type,
LEMMA RoomInit == Room!Assumptions /\ Room!Init => Room!RoomInv
BY DEF Room!Assumptions, Room!Init, Room!RoomInv, Room!TypeOK

\* and keeps one.
LEMMA RoomStep == Room!Assumptions /\ Room!RoomInv /\ [Room!Next]_(Room!vars) => Room!RoomInv'
<1> SUFFICES ASSUME Room!Assumptions, Room!RoomInv, [Room!Next]_(Room!vars) PROVE Room!RoomInv'
  OBVIOUS
<1>1. CASE Room!MoveDisplay
  BY <1>1 DEF Room!MoveDisplay, Room!RoomInv, Room!TypeOK
<1>2. CASE Room!EnterRange
  BY <1>2 DEF Room!EnterRange, Room!RoomInv, Room!TypeOK
<1>3. CASE Room!Submit
  <2>1. PICK o \in Setting.room.OrderId :
          rows' = IF Room!Accepts(range)
                  THEN [rows EXCEPT ![o] = [span |-> range, status |-> "CONFIRMED"]]
                  ELSE rows
    BY <1>3 DEF Room!Submit
  <2>2. range \in Room!Span
    BY <1>3 DEF Room!Submit, Room!IsRange, Room!RoomInv, Room!TypeOK, Room!Span, Room!Assumptions
  <2> QED
    BY <1>3, <2>1, <2>2 DEF Room!Submit, Room!RoomInv, Room!TypeOK, Room!Status
<1>4. CASE Room!Book
  <2>1. PICK o \in Setting.room.OrderId, s \in Room!Span :
          rows' = [rows EXCEPT ![o] = [span |-> s, status |-> "CONFIRMED"]]
    BY <1>4 DEF Room!Book
  <2> QED
    BY <1>4, <2>1 DEF Room!Book, Room!RoomInv, Room!TypeOK, Room!Status
<1>5. CASE Room!End
  <2>1. PICK o \in Setting.room.OrderId, st \in Room!Status :
          rows[o] # None /\ rows' = [rows EXCEPT ![o].status = st]
    BY <1>5 DEF Room!End
  <2>2. rows[o] \in [span : Room!Span, status : Room!Status]
    BY <2>1 DEF Room!RoomInv
  <2>3. [rows[o] EXCEPT !.status = st] \in [span : Room!Span, status : Room!Status]
    BY <2>2
  <2> QED
    BY <1>5, <2>1, <2>3 DEF Room!End, Room!RoomInv, Room!TypeOK
<1>6. CASE Room!Close
  BY <1>6 DEF Room!Close, Room!RoomInv, Room!TypeOK
<1>7. CASE UNCHANGED Room!vars
  BY <1>7 DEF Room!vars, Room!RoomInv, Room!TypeOK
<1> QED
  BY <1>1, <1>2, <1>3, <1>4, <1>5, <1>6, <1>7 DEF Room!Next

\* The window that the schedule is asked for has all of the range.
LEMMA RoomWindowHasRange ==
  ASSUME Room!Assumptions, Room!RoomInv
  PROVE  /\ Room!QueryWindow.from \in Int /\ Room!QueryWindow.to \in Int
         /\ Room!QueryWindow.from <= range.from /\ range.to <= Room!QueryWindow.to
<1>1. /\ range.from \in Int /\ range.to \in Int /\ display \in Int
         /\ display + Setting.room.Width \in Int
  BY DEF Room!Assumptions, Room!RoomInv, Room!TypeOK, Room!Time
<1>2. ASSUME NEW a \in Int, NEW b \in Int PROVE Room!Min({a, b}) \in {a, b} /\ Room!Min({a, b}) <= a
  <2>1. \E x \in {a, b} : \A y \in {a, b} : x <= y
    OBVIOUS
  <2> QED
    BY <2>1 DEF Room!Min
<1>3. ASSUME NEW a \in Int, NEW b \in Int PROVE Room!Max({a, b}) \in {a, b} /\ a <= Room!Max({a, b})
  <2>1. \E x \in {a, b} : \A y \in {a, b} : x >= y
    OBVIOUS
  <2> QED
    BY <2>1 DEF Room!Max
<1>4. /\ Room!QueryWindow.from = Room!Min({range.from, display})
      /\ Room!QueryWindow.to = Room!Max({range.to, display + Setting.room.Width})
  BY DEF Room!QueryWindow
<1>5. Room!QueryWindow.from \in Int /\ Room!QueryWindow.from <= range.from
  BY <1>1, <1>2, <1>4
<1>6. Room!QueryWindow.to \in Int /\ range.to <= Room!QueryWindow.to
  BY <1>1, <1>3, <1>4
<1> QED
  BY <1>5, <1>6

\* What the page lets through the handler accepts, unless a confirmed reservation is in
\* the gap, and what it forbids is refused, unless a missed one is met.
LEMMA RoomAgrees == Room!Assumptions /\ Room!RoomInv => Room!PageAgrees
<1> SUFFICES ASSUME Room!Assumptions, Room!RoomInv, Room!IsRange PROVE
        /\ ~Room!HasConflict => (Room!Accepts(range) <=> ~Room!InGap(range))
        /\ Room!HasConflict => ~Room!Accepts(range) \/ Room!MeetsMissed(range)
  BY DEF Room!PageAgrees
<1> DEFINE f == Room!QueryWindow.from
           t == Room!QueryWindow.to
<1>1. /\ range.from \in Int /\ range.to \in Int /\ Setting.room.Buffer \in Nat
      /\ f \in Int /\ t \in Int /\ f <= range.from /\ range.to <= t
  BY RoomWindowHasRange DEF Room!Assumptions, Room!RoomInv, Room!TypeOK, Room!Time
<1>2. \A r \in Room!Rows : r.span.from \in Int /\ r.span.to \in Int /\ r.status \in Room!Status
  BY DEF Room!Rows, Room!RoomInv, Room!Span, Room!Time, Room!Assumptions
<1>3. closure # None => closure.from \in Int /\ closure.to \in Int \cup {None}
  BY DEF Room!RoomInv, Room!TypeOK, Room!Assumptions
<1> HIDE DEF f, t
<1>4. Room!Schedule(f, t).closed = (IF Room!ClosedIn(f, t) THEN {closure} ELSE {})
      /\ \A r : r \in Room!Schedule(f, t).reservations <=>
            r \in Room!Rows
              /\ Room!Overlaps(r.span, f - Setting.room.Buffer, t + Setting.room.Buffer)
              /\ r.status \in {"CONFIRMED", "NO_SHOW"}
  BY DEF Room!Schedule
<1>5. Room!HasConflict <=>
        \/ \E c \in Room!Schedule(f, t).closed : c.from < range.to
           /\ (c.to = None \/ range.from < c.to)
        \/ \E r \in Room!Schedule(f, t).reservations :
             Room!Overlaps(range, r.span.from - Setting.room.Buffer,
               r.span.to + Setting.room.Buffer)
  BY DEF Room!HasConflict, f, t
<1>6. Room!ClosedIn(range.from, range.to) <=>
        \E c \in Room!Schedule(f, t).closed : c.from < range.to
          /\ (c.to = None \/ range.from < c.to)
  BY <1>1, <1>3, <1>4 DEF Room!ClosedIn, Room!Assumptions
<1>7. ASSUME NEW r \in Room!Rows
      PROVE  /\ Room!Overlaps(range, r.span.from - Setting.room.Buffer,
                r.span.to + Setting.room.Buffer)
                <=> Room!Overlaps(r.span, range.from - Setting.room.Buffer,
                  range.to + Setting.room.Buffer)
             /\ Room!Overlaps(r.span, range.from - Setting.room.Buffer,
                range.to + Setting.room.Buffer)
                => Room!Overlaps(r.span, f - Setting.room.Buffer, t + Setting.room.Buffer)
  BY <1>1, <1>2 DEF Room!Overlaps
<1>8. ASSUME ~Room!HasConflict PROVE Room!Admits(range)
  BY <1>4, <1>5, <1>6, <1>7, <1>8 DEF Room!Admits
<1>9. Room!Admits(range) => (Room!Excludes(range) <=> Room!InGap(range))
  BY DEF Room!Admits, Room!Excludes, Room!InGap
<1>10. ASSUME ~Room!HasConflict PROVE Room!Accepts(range) <=> ~Room!InGap(range)
  BY <1>8, <1>9, <1>10 DEF Room!Accepts
<1>11. ASSUME Room!HasConflict, Room!Accepts(range) PROVE Room!MeetsMissed(range)
  <2>0. Room!Admits(range)
    BY <1>11 DEF Room!Accepts
  <2>1. PICK r \in Room!Schedule(f, t).reservations :
          Room!Overlaps(range, r.span.from - Setting.room.Buffer, r.span.to + Setting.room.Buffer)
    BY <1>5, <1>6, <1>11, <2>0 DEF Room!Admits
  <2> QED
    BY <1>4, <1>7, <2>0, <2>1 DEF Room!Admits, Room!MeetsMissed
<1> QED
  BY <1>10, <1>11

-----------------------------------------------------------------------------
(* The page of the courts *)

\* The page of the courts starts with nothing picked,
LEMMA CourtInit == Courts!Assumptions /\ Courts!Init => Courts!CourtInv
BY DEF Courts!Assumptions, Courts!Init, Courts!CourtInv, Courts!TypeOK, Courts!GroupSlotsAreFree,
       Courts!Conflicts

\* and picks for a group what is free on all its courts.
LEMMA CourtStep == Courts!Assumptions /\ Courts!CourtInv /\ [Courts!Next]_(Courts!vars)
      => Courts!CourtInv'
<1> SUFFICES ASSUME Courts!Assumptions, Courts!CourtInv, [Courts!Next]_(Courts!vars)
             PROVE  Courts!CourtInv'
  OBVIOUS
<1>1. CASE Courts!PickGroupSlot
  <2>1. PICK h \in Setting.courts.Hour : Courts!Pickable(h) /\ slots' = Courts!Toggle(h)
    BY <1>1 DEF Courts!PickGroupSlot, Courts!Displayed
  <2>2. mode = "group" /\ target \in Setting.courts.Group /\ target # {}
        /\ UNCHANGED <<occupied, closed, mode, target, display>>
    BY <1>1 DEF Courts!PickGroupSlot, Courts!CourtInv, Courts!TypeOK, Courts!Targets,
       Courts!Assumptions
  <2>3. ASSUME h \notin slots
        PROVE  h \notin closed /\ h >= Setting.courts.Threshold
               /\ \A u \in target : <<u, h>> \notin occupied
    BY <2>1, <2>2, <2>3 DEF Courts!Pickable, Courts!Available
  <2>4. Courts!GroupSlotsAreFree'
    BY <2>1, <2>2, <2>3
     DEF Courts!CourtInv, Courts!GroupSlotsAreFree, Courts!Conflicts, Courts!Toggle
  <2> QED
    BY <2>1, <2>2, <2>4 DEF Courts!CourtInv, Courts!TypeOK, Courts!Toggle
<1>2. CASE Courts!PickUnitSlot
  BY <1>2 DEF Courts!PickUnitSlot, Courts!Displayed, Courts!Toggle, Courts!CourtInv, Courts!TypeOK,
     Courts!Targets, Courts!GroupSlotsAreFree
<1>3. CASE Courts!Unpick
  BY <1>3 DEF Courts!Unpick, Courts!CourtInv, Courts!TypeOK, Courts!GroupSlotsAreFree,
     Courts!Conflicts
<1>4. CASE Courts!ChooseTarget
  BY <1>4 DEF Courts!ChooseTarget, Courts!CourtInv, Courts!TypeOK, Courts!GroupSlotsAreFree,
     Courts!Conflicts
<1>5. CASE Courts!ChooseMode
  BY <1>5 DEF Courts!ChooseMode, Courts!CourtInv, Courts!TypeOK, Courts!GroupSlotsAreFree,
     Courts!Conflicts
<1>6. CASE Courts!MoveDisplay
  BY <1>6 DEF Courts!MoveDisplay, Courts!CourtInv, Courts!TypeOK, Courts!GroupSlotsAreFree,
     Courts!Conflicts
<1>7. CASE UNCHANGED Courts!vars
  BY <1>7 DEF Courts!vars, Courts!CourtInv, Courts!TypeOK, Courts!GroupSlotsAreFree,
     Courts!Conflicts
<1> QED
  BY <1>1, <1>2, <1>3, <1>4, <1>5, <1>6, <1>7 DEF Courts!Next
=============================================================================
