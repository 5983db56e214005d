----------------------------- MODULE SpacesPage -----------------------------
(***************************************************************************)
(* The page on which a room is booked: the window of time it displays, the *)
(* range the user enters, the schedule that the API answers for both, and  *)
(* what the page says of the range, beside the handler that the            *)
(* reservation is sent to.  Of the room's other units nothing is said.     *)
(***************************************************************************)
EXTENDS Integers, FiniteSetsExt

CONSTANTS
    Horizon,   \* bound: times are 0..Horizon, in buffers or fractions of one
    Buffer,    \* ACADEMIC_BUFFER_MINUTES
    Width,     \* DISPLAY_WINDOW_HOURS
    Stride,    \* DISPLAY_STEP_HOURS
    Displays,  \* bound: where the display may start
    Ranges,    \* bound: what the user enters
    OrderId,   \* bound: other reservations of the unit
    Closures,  \* bound: the closures there may be
    Null

VARIABLES
    rows,    \* AcademicReservation rows of the unit: status, from, to
    closure, \* an active closure of the resource, or Null
    display, \* displayStart
    range    \* the range entered

vars == <<rows, closure, display, range>>

Time == 0..Horizon
Status == {"CONFIRMED", "CANCELLED", "NO_SHOW"}
Span == {s \in [from : Time, to : Time] : s.from < s.to}

TypeOK ==
    /\ rows \in [OrderId -> {Null} \cup [span : Span, status : Status]]
    /\ closure \in Closures \cup {Null}
    /\ display \in Displays
    /\ range \in Ranges

Init ==
    /\ rows = [o \in OrderId |-> Null]
    /\ closure = Null
    /\ display \in Displays
    /\ range \in Ranges

Rows == {rows[o] : o \in OrderId} \ {Null}
Overlaps(s, from, to) == s.from < to /\ from < s.to

-----------------------------------------------------------------------------
(* The API *)

\* getOverlappingClosures; a closure may have no end.
ClosedIn(from, to) ==
    closure # Null /\ closure.from < to /\ (closure.to = Null \/ from < closure.to)

\* getAcademicReservations: what is in the window, and a buffer around it.
Schedule(from, to) ==
    [reservations |-> {r \in Rows : /\ Overlaps(r.span, from - Buffer, to + Buffer)
                                    /\ r.status \in {"CONFIRMED", "NO_SHOW"}},
     closed       |-> IF ClosedIn(from, to) THEN {closure} ELSE {}]

\* What the handler checks before it inserts: closures and reservations.  The release of
\* the channel is the subject of ResourceChannel, categories and rules of RuleBook.  A
\* reservation is created CONFIRMED and none is ever PENDING_CONFIRMATION.
Admits(s) ==
    /\ ~ClosedIn(s.from, s.to)
    /\ \A r \in Rows : r.status = "CONFIRMED" => ~Overlaps(r.span, s.from - Buffer, s.to + Buffer)

\* The exclusion constraint, whose ranges have the buffers of both.
Excludes(s) ==
    \E r \in Rows :
        r.status = "CONFIRMED" /\ Overlaps(r.span, s.from - 2 * Buffer, s.to + 2 * Buffer)

\* What the handler answers: a violation of the constraint is a 409 like the check's.
Accepts(s) == Admits(s) /\ ~Excludes(s)

-----------------------------------------------------------------------------
(* The page *)

\* Mutant: the schedule is asked for as displayed.
QueryWindowMutant == [from |-> display, to |-> display + Width]

\* The window that the schedule is asked for has the display and the range.
QueryWindow == [from |-> Min({range.from, display}), to |-> Max({range.to, display + Width})]

\* selectedRange: it must end after it starts.
IsRange == range.from < range.to

\* getSelectionConflict, with the schedule of this moment: the first closure that the
\* range meets, or reservation of the unit that it meets with its buffers.
HasConflict ==
    LET schedule == Schedule(QueryWindow.from, QueryWindow.to) IN
    \/ \E c \in schedule.closed : c.from < range.to /\ (c.to = Null \/ range.from < c.to)
    \/ \E r \in schedule.reservations :
         Overlaps(range, r.span.from - Buffer, r.span.to + Buffer)

\* The buttons that move the display, and the one that aligns it to the range.
MoveDisplay ==
    /\ display' \in {display - Stride, display + Stride} \cup (IF IsRange THEN {range.from} ELSE {})
    /\ display' \in Displays
    /\ UNCHANGED <<rows, closure, range>>

EnterRange ==
    /\ range' \in Ranges
    /\ UNCHANGED <<rows, closure, display>>

\* The button is enabled for a range without a conflict.  The page is left after a
\* success; the user may come back.
Submit ==
    /\ IsRange /\ ~HasConflict
    /\ \E o \in OrderId :
         /\ rows[o] = Null
         /\ rows' = IF Accepts(range)
                    THEN [rows EXCEPT ![o] = [span |-> range, status |-> "CONFIRMED"]]
                    ELSE rows
    /\ UNCHANGED <<closure, display, range>>

-----------------------------------------------------------------------------
(* Others *)

Book ==
    /\ \E o \in OrderId, s \in Span :
         /\ rows[o] = Null /\ Accepts(s)
         /\ rows' = [rows EXCEPT ![o] = [span |-> s, status |-> "CONFIRMED"]]
    /\ UNCHANGED <<closure, display, range>>

End ==
    /\ \E o \in OrderId, st \in Status \ {"CONFIRMED"} :
         /\ rows[o] # Null /\ rows[o].status = "CONFIRMED"
         /\ rows' = [rows EXCEPT ![o].status = st]
    /\ UNCHANGED <<closure, display, range>>

Close ==
    /\ closure' \in Closures \cup {Null}
    /\ UNCHANGED <<rows, display, range>>

Next == MoveDisplay \/ EnterRange \/ Submit \/ Book \/ End \/ Close

Spec == Init /\ [][Next]_vars

-----------------------------------------------------------------------------
(* Properties *)

\* A confirmed reservation is one buffer or more away from the range, and less than two:
\* the page and the handler's check let the range through, the constraint does not.
InGap(s) ==
    \E r \in Rows :
        /\ r.status = "CONFIRMED"
        /\ Overlaps(r.span, s.from - 2 * Buffer, s.to + 2 * Buffer)
        /\ ~Overlaps(r.span, s.from - Buffer, s.to + Buffer)

\* A missed reservation is within a buffer of the range: the page alone heeds it.
MeetsMissed(s) ==
    \E r \in Rows :
        r.status = "NO_SHOW" /\ Overlaps(r.span, s.from - Buffer, s.to + Buffer)

\* With a schedule that is up to date, and wherever the display is, the page differs from
\* the handler in two cases and in no other: it calls a range available, and the handler
\* refuses it, exactly if a confirmed reservation is in the gap of one to two buffers
\* (the exclusion constraint's 409); and it forbids a range that the handler accepts only
\* for a missed reservation (getSelectionConflict, createAcademicReservation).
PageAgrees ==
    IsRange =>
        /\ ~HasConflict => (Accepts(range) <=> ~InGap(range))
        /\ HasConflict => ~Accepts(range) \/ MeetsMissed(range)

-----------------------------------------------------------------------------
(* For the proofs: what is assumed of the constants, and the inductive invariant *)

\* Times are numbers and Null is none, nor a row nor a closure.
Assumptions ==
    /\ Horizon \in Nat /\ Buffer \in Nat /\ Width \in Nat /\ Displays \subseteq Int
    /\ Ranges \subseteq [from : Time, to : Time]
    /\ Closures \subseteq [from : Int, to : Int \cup {Null}]
    /\ Null \notin Int \cup Closures \cup [span : Span, status : Status]

RoomInv == TypeOK /\ rows \in [OrderId -> {Null} \cup [span : Span, status : Status]]
=============================================================================
