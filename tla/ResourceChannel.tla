--------------------------- MODULE ResourceChannel ---------------------------
(***************************************************************************)
(* The channel of one resource: its release rules and booking closures,    *)
(* the administrators who change them, the clock, and the reservations     *)
(* that are let through or refused.  What happens to a reservation that is *)
(* let through is the subject of Reservation.                              *)
(***************************************************************************)
EXTENDS ReleaseCalendar

CONSTANTS
    RuleId, ClosureId, \* bounds: the rows there can ever be
    InitialRules,      \* the rules there may be at the start: functions on RuleId
    InitialClosures,   \* and the closures
    Moments,           \* bound: the times at which anything happens, one after the other
    Admin,             \* the requests of administrators in flight
    RulePatches, ClosurePatches, \* what they may ask for
    Booking,           \* reservations, each of which is asked for once
    Wishes             \* the times they may be for: sets of [from, to]

VARIABLES
    clock,    \* the place of the current time in Moments
    rules,    \* ResourceReleaseRule rows
    closures, \* ResourceBookingClosure rows
    desk,     \* the administrators' requests
    booking   \* the reservations' requests

vars == <<clock, rules, closures, desk, booking>>

now == Moments[clock]

NoRow == [frequency |-> "none"]
NoClosure == [startsAt |-> Null, endsAt |-> Null, isActive |-> FALSE]
IdleAdmin == [pc |-> "idle", id |-> Null, patch |-> Null, row |-> NoClosure]
NewBooking == [pc |-> "new", wish |-> {}, rules |-> {}, closures |-> {},
               stood |-> {}, ruled |-> FALSE]

TheRules == {rules[i] : i \in {j \in RuleId : rules[j] # NoRow}}
TheClosures == {closures[i] : i \in {j \in ClosureId : closures[j] # NoClosure}}

TypeOK ==
    /\ clock \in DOMAIN Moments
    /\ \A i \in RuleId : rules[i] # NoRow =>
         /\ rules[i].frequency \in {"DAILY", "WEEKLY", "MONTHLY"}
         /\ rules[i].dayOfWeek \in 0..6 \cup {Null}
         /\ rules[i].dayOfMonth \in 1..31 \cup {Null}
         /\ rules[i].time \in 0..(DAY - 1)
         /\ rules[i].isActive \in BOOLEAN
    /\ \A i \in ClosureId : closures[i] # NoClosure => closures[i].isActive \in BOOLEAN
    /\ \A a \in Admin : desk[a].pc \in {"idle", "updateClosure", "deleteClosure"}
    /\ \A b \in Booking :
         /\ booking[b].pc \in {"new", "rules", "closures", "through", "refused"}
         /\ booking[b].stood \subseteq ClosureId

Init ==
    /\ clock = 1
    /\ rules \in InitialRules
    /\ closures \in InitialClosures
    /\ desk = [a \in Admin |-> IdleAdmin]
    /\ booking = [b \in Booking |-> NewBooking]

Tick ==
    /\ clock < Len(Moments)
    /\ clock' = clock + 1
    /\ UNCHANGED <<rules, closures, desk, booking>>

-----------------------------------------------------------------------------
(* Administrators *)

\* History variables of a request in flight, for the properties: the closures nobody
\* wrote since it began, and whether nobody wrote a rule.
WriteRule(i, row) ==
    /\ rules' = [rules EXCEPT ![i] = row]
    /\ booking' = [b \in Booking |-> [booking[b] EXCEPT !.ruled = FALSE]]
    /\ UNCHANGED closures

WriteClosure(i, row) ==
    /\ closures' = [closures EXCEPT ![i] = row]
    /\ booking' = [b \in Booking |-> [booking[b] EXCEPT !.stood = @ \ {i}]]
    /\ UNCHANGED rules

\* A payload without a value for field f, which is undefined there.
Given(p, f) == p[f] # Null
Or(p, f, old) == IF Given(p, f) THEN p[f] ELSE old

\* A weekly rule needs its day, a monthly one too.
Refused(p) == \/ p.frequency = "WEEKLY" /\ ~Given(p, "dayOfWeek")
              \/ p.frequency = "MONTHLY" /\ ~Given(p, "dayOfMonth")

\* What the row is written with: a day the frequency has no use for is erased, and a
\* rule is active unless told otherwise.  A column is left alone if its value is
\* undefined.
Normalized(p, row) ==
    [frequency  |-> Or(p, "frequency", row.frequency),
     dayOfWeek  |-> IF p.frequency = "WEEKLY" THEN p.dayOfWeek ELSE Null,
     dayOfMonth |-> IF p.frequency = "MONTHLY" THEN p.dayOfMonth ELSE Null,
     time       |-> Or(p, "time", row.time),
     isActive   |-> Or(p, "isActive", TRUE)]

\* createReleaseRules, whose payload is complete.
CreateReleaseRule(a) ==
    \E i \in RuleId, p \in RulePatches :
        /\ desk[a] = IdleAdmin
        /\ rules[i] = NoRow
        /\ Given(p, "frequency") /\ Given(p, "time")
        /\ ~Refused(p)
        /\ WriteRule(i, Normalized(p, NoRow))
        /\ UNCHANGED <<clock, desk>>

\* updateReleaseRule.  The spread of the payload comes last, and a payload is an
\* object of a class whose fields all exist, undefined when they are not given (the
\* target is ES2022): they hide what was read from the row.
UpdateReleaseRule(a) ==
    \E i \in RuleId, p \in RulePatches :
        /\ desk[a] = IdleAdmin
        /\ rules[i] # NoRow
        /\ ~Refused(p)
        /\ WriteRule(i, Normalized(p, rules[i]))
        /\ UNCHANGED <<clock, desk>>

ValidRange(row) == row.endsAt # Null => row.startsAt < row.endsAt

NewClosure(p) == [startsAt |-> p.startsAt, endsAt |-> p.endsAt,
                  isActive |-> Or(p, "isActive", TRUE)]

CreateBookingClosure(a) ==
    \E i \in ClosureId, p \in ClosurePatches :
        /\ desk[a] = IdleAdmin
        /\ closures[i] = NoClosure
        /\ Given(p, "startsAt")
        /\ ValidRange(NewClosure(p))
        /\ WriteClosure(i, NewClosure(p))
        /\ UNCHANGED <<clock, desk>>

\* updateBookingClosure and deleteBookingClosure find the row first.
FindClosure(a) ==
    /\ desk[a] = IdleAdmin
    /\ \E i \in ClosureId :
         /\ closures[i] # NoClosure
         /\ \/ \E p \in ClosurePatches :
                 desk' = [desk EXCEPT ![a] = [pc |-> "updateClosure", id |-> i, patch |-> p,
                                              row |-> closures[i]]]
            \/ desk' = [desk EXCEPT ![a] = [pc |-> "deleteClosure", id |-> i, patch |-> Null,
                                            row |-> closures[i]]]
    /\ UNCHANGED <<clock, rules, closures, booking>>

Patched(p, row) == [startsAt |-> Or(p, "startsAt", row.startsAt),
                    endsAt   |-> Or(p, "endsAt", row.endsAt),
                    isActive |-> Or(p, "isActive", row.isActive)]

\* Mutant: only the given columns are written.
UpdateBookingClosureMutant(a) ==
    LET h == desk[a] IN
    /\ h.pc = "updateClosure"
    /\ desk' = [desk EXCEPT ![a] = IdleAdmin]
    /\ IF closures[h.id] = NoClosure \/ ~ValidRange(Patched(h.patch, h.row))
       THEN UNCHANGED <<rules, closures, booking>>
       ELSE WriteClosure(h.id, Patched(h.patch, closures[h.id]))
    /\ UNCHANGED clock

\* All columns are written, as patched in the row that was found, unless the range is
\* not one or the row is gone.
UpdateBookingClosure(a) ==
    LET h == desk[a] IN
    /\ h.pc = "updateClosure"
    /\ desk' = [desk EXCEPT ![a] = IdleAdmin]
    /\ IF closures[h.id] = NoClosure \/ ~ValidRange(Patched(h.patch, h.row))
       THEN UNCHANGED <<rules, closures, booking>>
       ELSE WriteClosure(h.id, Patched(h.patch, h.row))
    /\ UNCHANGED clock

DeleteBookingClosure(a) ==
    LET h == desk[a] IN
    /\ h.pc = "deleteClosure"
    /\ desk' = [desk EXCEPT ![a] = IdleAdmin]
    /\ IF closures[h.id] = NoClosure
       THEN UNCHANGED <<rules, closures, booking>>
       ELSE WriteClosure(h.id, NoClosure)
    /\ UNCHANGED clock

-----------------------------------------------------------------------------
(* Reservations *)

\* An academic reservation has one interval, a sports reservation its slots: the range
\* that is checked goes from the start of the first to the end of the last.
Hull(wish) == [from |-> Min({s.from : s \in wish}), to |-> Max({s.to : s \in wish})]

\* The unit is found with its resource, whose rules and closures are read by one query
\* each.
ReadRules(b) ==
    /\ booking[b].pc = "new"
    /\ \E w \in Wishes :
         booking' = [booking EXCEPT ![b] = [@ EXCEPT !.pc = "rules", !.wish = w,
                                            !.rules = TheRules,
                                            !.stood = ClosureId, !.ruled = TRUE]]
    /\ UNCHANGED <<clock, rules, closures, desk>>

ReadClosures(b) ==
    /\ booking[b].pc = "rules"
    /\ booking' = [booking EXCEPT ![b].pc = "closures", ![b].closures = TheClosures]
    /\ UNCHANGED <<clock, rules, closures, desk>>

AssertResourceChannelOpen(b) ==
    LET h == booking[b]
        block == Block(h.rules, h.closures, Hull(h.wish).from, Hull(h.wish).to, now)
    IN
    /\ h.pc = "closures"
    /\ booking' = [booking EXCEPT ![b].pc = IF block = "none" THEN "through" ELSE "refused"]
    /\ UNCHANGED <<clock, rules, closures, desk>>

-----------------------------------------------------------------------------
Administer(a) ==
    \/ CreateReleaseRule(a) \/ UpdateReleaseRule(a)
    \/ CreateBookingClosure(a) \/ FindClosure(a)
    \/ UpdateBookingClosure(a) \/ DeleteBookingClosure(a)

Next ==
    \/ Tick
    \/ \E a \in Admin : Administer(a)
    \/ \E b \in Booking : ReadRules(b) \/ ReadClosures(b) \/ AssertResourceChannelOpen(b)

Spec == Init /\ [][Next]_vars

-----------------------------------------------------------------------------
(* Properties *)

\* For every rule and at every moment, the current release is on the release day of
\* the cycle, months too short for the rule and weeks that cross a month included, and
\* the next one is the first release after it.
CyclesAreRight ==
    \A r \in TheRules :
        LET d == DayOf(CurrentRelease(r, now))
            e == DayOf(NextRelease(r, now))
        IN /\ SameCycle(r, d, DayOf(now)) /\ IsReleaseDay(r, d)
           /\ d < e /\ IsReleaseDay(r, e)
           /\ \A f \in (d + 1)..(e - 1) : ~IsReleaseDay(r, f)

Channel == Snapshot(TheRules, TheClosures, now)

KeepsSchedule ==
    (Channel.status = "SCHEDULED" /\ UNCHANGED <<rules, closures>>) =>
        IF now' < Channel.next
        THEN \/ Channel'.status = "CLOSED"
             \/ Channel'.status = "SCHEDULED" /\ Channel'.next = Channel.next
        ELSE now' = Channel.next => Channel'.status # "SCHEDULED"

\* A channel that is shown as scheduled for a moment does not open before that moment,
\* and at it is open or closed, unless the rows change: whatever cycles of other rules
\* end in between.
OpensOnTime == [][KeepsSchedule]_vars

\* Whatever two administrators change at once, a closure ends after it starts.
ClosuresAreRanges ==
    \A i \in ClosureId : closures[i] # NoClosure => ValidRange(closures[i])

\* No slot of reservation b is in a closure that stood while it was handled, and
\* nothing is let through during one.
OutsideClosures(b) ==
    \A i \in booking[b].stood : closures[i].isActive =>
        \A s \in booking[b].wish \cup {[from |-> now, to |-> now + 1]} :
            \/ s.to <= closures[i].startsAt
            \/ closures[i].endsAt # Null /\ closures[i].endsAt <= s.from

\* Some active rule, if there are any, has released the channel in its cycle.
SomeRuleReleased ==
    Active(TheRules) = {} \/
    \E r \in Active(TheRules) : \E d \in (DayOf(now) - 31)..DayOf(now) :
        SameCycle(r, d, DayOf(now)) /\ IsReleaseDay(r, d) /\ d * DAY + r.time <= now

PassesThrough(b) == booking[b].pc # "through" /\ booking'[b].pc = "through"

LetsThroughRightly ==
    \A b \in Booking : PassesThrough(b) =>
        OutsideClosures(b) /\ (booking[b].ruled => SomeRuleReleased)

\* A reservation that is let through has no slot in an active closure that stood while
\* it was handled, is not let through during one, and, if nobody changed the rules
\* meanwhile and there are active ones, not before the release of one in its cycle.
ChannelHolds == [][LetsThroughRightly]_vars

\* resource-write.service.ts, normalizeReleaseRulePayload: a weekly rule without its
\* day is refused with resource-release-rule-day-of-week-required.
WeeklyRuleHasDay ==
    \A i \in RuleId : rules[i].frequency = "WEEKLY" => rules[i].dayOfWeek # Null
=============================================================================
