---------------------------- MODULE Reservation -----------------------------
(***************************************************************************)
(* Reservations of academic rooms and sports courts: the handlers that     *)
(* check a request and insert its order, and the constraints of PostgreSQL *)
(* they meet there.  Every query of a handler is a step, and so is every   *)
(* row of its transaction, since a row may have to wait for the            *)
(* transaction of another.                                                 *)
(***************************************************************************)
EXTENDS Integers, FiniteSets, Sequences

CONSTANTS
    Request,    \* requests; each is handled once and creates one order at most
    Wish,       \* what each of them may ask for
    Room,       \* units of academic spaces
    Court,      \* units of sports facilities with discrete slots
    MaxActive,  \* max_active_reservations_per_category
    Buffer      \* ACADEMIC_BUFFER_MINUTES, ACADEMIC_BUFFER_BEFORE_MINUTES

SLOT == 60  \* SPORTS_SLOT_MINUTES

\* What a request may ask for: a user, units in the order of their group, and start
\* times in minutes.  A time comes as text, and one instant can be spelled in two
\* ways.  An academic wish has one unit and one start, and a length of its own.
IsWish(w) ==
    /\ w.kind \in {"academic", "sports"}
    /\ w.length \in Int
    /\ \A s \in w.starts : s.at \in Int
    /\ w.kind = "academic" => DOMAIN w.units = {1} /\ \E s \in w.starts : w.starts = {s}

ASSUME ReservationAssumption ==
    /\ Room \cap Court = {}
    /\ MaxActive \in Nat \ {0}
    /\ Buffer \in Nat
    /\ \A r \in Request : \A w \in Wish[r] : IsWish(w)

VARIABLES
    wish,    \* what a request asks for
    pc,      \* where its handler is
    answer,  \* what it was answered
    rows,    \* its rows of AcademicReservation or SportsReservationSlot
    status   \* the status of its order, or "none" before the commit

vars == <<wish, pc, answer, rows, status>>

NoWish == [kind |-> "none", user |-> "none", units |-> <<>>, starts |-> {}, length |-> 0]

Status == {"none", "CONFIRMED", "CANCELLED", "NO_SHOW"}
Pc == {"new", "rules", "conflict", "insert", "verify", "commit", "answered"}
Answer == {"none", "badRequest", "conflict", "error", "created"}

Length(w) == IF w.kind = "sports" THEN SLOT ELSE w.length

\* The rows of a wish: one for each of its units and start times, as spelled.
Rows(w) == {[unit |-> w.units[i], from |-> s.at, to |-> s.at + Length(w),
             spelling |-> s.spelling] : i \in DOMAIN w.units, s \in w.starts}

Wishes == UNION {Wish[r] : r \in Request}

TypeOK ==
    /\ wish \in [Request -> Wishes \cup {NoWish}]
    /\ pc \in [Request -> Pc]
    /\ answer \in [Request -> Answer]
    /\ rows \in [Request -> SUBSET UNION {Rows(w) : w \in Wishes}]
    /\ status \in [Request -> Status]
    /\ \A r \in Request : wish[r] \in Wish[r] \cup {NoWish} /\ rows[r] \subseteq Rows(wish[r])

Init ==
    /\ wish = [r \in Request |-> NoWish]
    /\ pc = [r \in Request |-> "new"]
    /\ answer = [r \in Request |-> "none"]
    /\ rows = [r \in Request |-> {}]
    /\ status = [r \in Request |-> "none"]

Go(r, to) ==
    /\ pc' = [pc EXCEPT ![r] = to]
    /\ UNCHANGED answer

Reply(r, what) ==
    /\ pc' = [pc EXCEPT ![r] = "answered"]
    /\ answer' = [answer EXCEPT ![r] = what]

\* The transaction, if there is one, is rolled back.
Fail(r, what) ==
    /\ Reply(r, what)
    /\ rows' = [rows EXCEPT ![r] = {}]
    /\ UNCHANGED <<wish, status>>

-----------------------------------------------------------------------------
(* The checks before the transaction *)

\* Mutant: slots need not start at the full hour.
WellFormedMutant(w) ==
    /\ DOMAIN w.units # {} /\ w.starts # {}
    /\ \A i \in DOMAIN w.units : w.units[i] \in IF w.kind = "sports" THEN Court ELSE Room
    /\ Length(w) > 0

\* The target's type and mode, the end after the start, and normalizeSportsSlots.
WellFormed(w) ==
    /\ DOMAIN w.units # {} /\ w.starts # {}
    /\ \A i \in DOMAIN w.units : w.units[i] \in IF w.kind = "sports" THEN Court ELSE Room
    /\ Length(w) > 0
    /\ w.kind = "sports" => \A s \in w.starts : s.at % SLOT = 0

Submit(r) ==
    /\ pc[r] = "new"
    /\ \E w \in Wish[r] :
         /\ wish' = [wish EXCEPT ![r] = w]
         /\ IF WellFormed(w) THEN Go(r, "rules") ELSE Reply(r, "badRequest")
    /\ UNCHANGED <<rows, status>>

Active(r) == status[r] = "CONFIRMED"

\* countActiveReservationOrders
ActiveOf(user, kind) ==
    {r \in Request : Active(r) /\ wish[r].user = user /\ wish[r].kind = kind}

\* assertReservationRules.  Other rules, a release rule or closure of the resource,
\* or a ban of a participant may refuse any request.
AssertRules(r) ==
    /\ pc[r] = "rules"
    /\ \/ Reply(r, "badRequest")
       \/ /\ Cardinality(ActiveOf(wish[r].user, wish[r].kind)) < MaxActive
          /\ Go(r, "conflict")
    /\ UNCHANGED <<wish, rows, status>>

\* The WHERE of existingConflict and of findSportsReservationConflict.
LooksTaken(x, y) ==
    /\ x.unit = y.unit
    /\ IF x.unit \in Room
       THEN y.from < x.to + Buffer /\ y.to > x.from - Buffer
       ELSE y.from = x.from

FindConflict(r) ==
    /\ pc[r] = "conflict"
    /\ IF \E q \in Request : Active(q) /\ \E x \in Rows(wish[r]), y \in rows[q] : LooksTaken(x, y)
       THEN Reply(r, "conflict")
       ELSE Go(r, "insert")
    /\ UNCHANGED <<wish, rows, status>>

-----------------------------------------------------------------------------
(* The transaction *)

\* Mutant: the range of a row is its own time.
ExcludedMutant(x, y) ==
    /\ x.unit = y.unit
    /\ IF x.unit \in Room THEN x.from < y.to /\ y.from < x.to ELSE x.from = y.from

\* academic_reservation_no_overlap, whose range has the buffers of both rows, and
\* sports_active_slot_unique.
Excluded(x, y) ==
    /\ x.unit = y.unit
    /\ IF x.unit \in Room
       THEN x.from - Buffer < y.to + Buffer /\ y.from - Buffer < x.to + Buffer
       ELSE x.from = y.from

\* Mutant: the constraints hold for rows of every status.
RivalsMutant(r, x) ==
    {q \in Request : \E y \in rows[q] : <<q, y>> # <<r, x>> /\ Excluded(x, y)}

\* The requests with a row that excludes row x of r: one that is active, or one that
\* is not committed yet.
Rivals(r, x) ==
    {q \in Request : /\ status[q] \in {"none", "CONFIRMED"}
                     /\ \E y \in rows[q] : <<q, y>> # <<r, x>> /\ Excluded(x, y)}

\* A rival there is no waiting for: a committed one, or another row of the same order.
Refused(r, x) == \E q \in Rivals(r, x) : q = r \/ status[q] # "none"

\* createMany inserts the rows unit by unit, and by time.
IsNext(r, x) ==
    LET w == wish[r]
        Index(y) == CHOOSE i \in DOMAIN w.units : w.units[i] = y.unit
        Before(y) == \/ Index(y) < Index(x)
                     \/ y.unit = x.unit /\ y.from < x.from
    IN
    /\ x \in Rows(w) \ rows[r]
    /\ \A y \in Rows(w) \ rows[r] : ~Before(y)

\* Mutant: a slot that is taken is left out.
InsertSlotMutant(r, x) ==
    /\ pc[r] = "insert" /\ wish[r].kind = "sports"
    /\ IsNext(r, x)
    /\ IF Refused(r, x)
       THEN Go(r, "commit") /\ UNCHANGED <<wish, rows, status>>
       ELSE /\ Rivals(r, x) = {}
            /\ rows' = [rows EXCEPT ![r] = @ \cup {x}]
            /\ Go(r, IF rows[r] \cup {x} = Rows(wish[r]) THEN "commit" ELSE "insert")
            /\ UNCHANGED <<wish, status>>

\* A unique index is looked up first: its row waits for the transaction of a rival.
InsertSlot(r, x) ==
    /\ pc[r] = "insert" /\ wish[r].kind = "sports"
    /\ IsNext(r, x)
    /\ IF Refused(r, x)
       THEN Fail(r, "conflict")
       ELSE /\ Rivals(r, x) = {}
            /\ rows' = [rows EXCEPT ![r] = @ \cup {x}]
            /\ Go(r, IF rows[r] \cup {x} = Rows(wish[r]) THEN "commit" ELSE "insert")
            /\ UNCHANGED <<wish, status>>

\* Mutant: the row is stored with its buffers.
InsertRangeMutant(r, x) ==
    /\ pc[r] = "insert" /\ wish[r].kind = "academic"
    /\ x \in Rows(wish[r])
    /\ rows' = [rows EXCEPT ![r] = {[x EXCEPT !.from = @ - Buffer, !.to = @ + Buffer]}]
    /\ Go(r, "verify")
    /\ UNCHANGED <<wish, status>>

\* An exclusion constraint is looked at when the row is there: two rows inserted at
\* once can find each other.
InsertRange(r, x) ==
    /\ pc[r] = "insert" /\ wish[r].kind = "academic"
    /\ x \in Rows(wish[r])
    /\ rows' = [rows EXCEPT ![r] = {x}]
    /\ Go(r, "verify")
    /\ UNCHANGED <<wish, status>>

\* Mutant: a violated constraint is tried again.
VerifyRangeMutant(r, x) ==
    /\ pc[r] = "verify"
    /\ x \in rows[r]
    /\ \/ /\ Refused(r, x)
          /\ rows' = [rows EXCEPT ![r] = {}]
          /\ Go(r, "insert")
       \/ /\ Rivals(r, x) = {}
          /\ Go(r, "commit")
          /\ UNCHANGED rows
    /\ UNCHANGED <<wish, status>>

VerifyRange(r, x) ==
    /\ pc[r] = "verify"
    /\ x \in rows[r]
    /\ \/ Refused(r, x) /\ Fail(r, "conflict")
       \/ /\ Rivals(r, x) = {}
          /\ Go(r, "commit")
          /\ UNCHANGED <<wish, rows, status>>

Commit(r) ==
    /\ pc[r] = "commit"
    /\ status' = [status EXCEPT ![r] = "CONFIRMED"]
    /\ Reply(r, "created")
    /\ UNCHANGED <<wish, rows>>

\* The requests whose transaction r waits for.
WaitsFor(r) ==
    {q \in Request \ {r} :
        /\ status[q] = "none"
        /\ \E x \in Rows(wish[r]) :
             /\ q \in Rivals(r, x)
             /\ \/ pc[r] = "insert" /\ wish[r].kind = "sports" /\ IsNext(r, x)
                \/ pc[r] = "verify"}

Deadlocked(r) ==
    \E knot \in SUBSET Request :
        /\ r \in knot
        /\ \A q \in knot : \E p, s \in knot : q \in WaitsFor(p) /\ s \in WaitsFor(q)

\* PostgreSQL ends one transaction of a deadlock; its error is no conflict for the
\* handler, which answers 500.
DeadlockVictim(r) ==
    /\ pc[r] \in {"insert", "verify"}
    /\ Deadlocked(r)
    /\ Fail(r, "error")

\* The process dies, or a query fails, before the commit.
HandlerDies(r) ==
    /\ pc[r] \notin {"new", "answered"}
    /\ Fail(r, "error")

\* cancelOrder, markNoShow and finalizeReservationAttendance set the status of the
\* order and of its rows in one transaction.
Release(r) ==
    /\ Active(r)
    /\ \E s \in {"CANCELLED", "NO_SHOW"} : status' = [status EXCEPT ![r] = s]
    /\ UNCHANGED <<wish, pc, answer, rows>>

-----------------------------------------------------------------------------
Insert(r) == \E x \in Rows(wish[r]) : InsertSlot(r, x) \/ InsertRange(r, x) \/ VerifyRange(r, x)

Handle(r) == AssertRules(r) \/ FindConflict(r) \/ Insert(r) \/ Commit(r)

Next == \E r \in Request :
    \/ Submit(r) \/ Handle(r) \/ DeadlockVictim(r) \/ HandlerDies(r) \/ Release(r)

Spec == Init /\ [][Next]_vars

-----------------------------------------------------------------------------
(* Properties *)

Booked == [r \in Request |-> IF Active(r) THEN rows[r] ELSE {}]
Asked == [r \in Request |-> Rows(wish[r])]

Cal == INSTANCE Calendar WITH asked <- Asked, booked <- Booked,
                              Offer <- {Rows(w) : w \in Wishes}

\* Two active reservations never use a unit at overlapping times, and between two of
\* a room there are ten minutes at least, whatever checks and inserts interleave.
NoOverlap ==
    \A r, q \in Request : r # q =>
        \A x \in Booked[r], y \in Booked[q] : Cal!Apart(x, y)

\* docs/business-flow-diagram.md, 2: if one slot of one unit is taken the whole order
\* fails.  An order has all its rows, and a refused request has left none.
WholeOrNothing ==
    \A r \in Request :
        /\ status[r] # "none" => rows[r] = Rows(wish[r])
        /\ answer[r] \notin {"none", "created"} => status[r] = "none" /\ rows[r] = {}

\* docs/product-architecture.md, 3.1 and 7.1: reservations are made in one step, each
\* as a whole, and no two of a unit overlap; a cancelled or missed one frees its time.
ImplementsCalendar == Cal!Spec

\* A request is refused with a conflict only while an active reservation stands in
\* its way, or for an hour it names twice: no rolled back, cancelled or missed
\* reservation refuses anybody, and of two rivals one is not refused.
RefusalsAreReal ==
    [][\A r \in Request :
         answer[r] = "none" /\ answer'[r] = "conflict" =>
            \E x \in Rows(wish[r]), q \in Request : \E y \in Rows(wish[q]) :
                /\ <<q, y>> # <<r, x>> /\ Excluded(x, y)
                /\ q = r \/ Active(q)]_vars

\* Every request is answered, although transactions wait for each other.
IsAnswered == \A r \in Request : pc[r] = "rules" ~> pc[r] = "answered"

\* A query returns, and PostgreSQL resolves deadlocks.
FairSpec == /\ Spec
            /\ \A r \in Request : WF_vars(Handle(r)) /\ WF_vars(DeadlockVictim(r))

\* docs/product-architecture.md, 3.1: a gap of four minutes is a conflict, one of
\* five is let through.
FiveMinutesSuffice ==
    [][\A r \in Request :
         answer[r] = "none" /\ answer'[r] = "conflict" /\ wish[r].kind = "academic" =>
            \E x \in Rows(wish[r]), q \in Request \ {r} : \E y \in Rows(wish[q]) :
                /\ status[q] = "CONFIRMED" /\ x.unit = y.unit
                /\ x.from - 5 < y.to /\ y.from < x.to + 5]_vars
=============================================================================
