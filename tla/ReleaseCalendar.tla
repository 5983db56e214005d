--------------------------- MODULE ReleaseCalendar ---------------------------
(***************************************************************************)
(* When a resource may be booked: the release cycles of its rules and its  *)
(* closures, as functions of the rows and of the time.  Times are minutes, *)
(* and day 0 is the first of the first month; no day is longer or shorter  *)
(* than the others.                                                        *)
(***************************************************************************)
EXTENDS Integers, Sequences, FiniteSetsExt

CONSTANTS
    MonthStart,   \* the days on which the months start, and the day after the last one
    FirstWeekday, \* the weekday of day 0, Sunday being 0
    Null          \* the null of a column, the undefined of a payload

DAY == 1440
FAR_FUTURE_DATE == DAY * 100000

Month == 1..(Len(MonthStart) - 1)
MonthLength(m) == MonthStart[m + 1] - MonthStart[m]

DayOf(t) == t \div DAY
WeekdayOf(t) == (FirstWeekday + DayOf(t)) % 7
MonthOf(t) == CHOOSE m \in Month : MonthStart[m] <= DayOf(t) /\ DayOf(t) < MonthStart[m + 1]

\* A column that is null counts as Sunday, and as the first.
OrElse(v, default) == IF v = Null THEN default ELSE v

\* Mutant: a short month has no day left for the release, which is in the next.
ResolveMonthDayMutant(m, dayOfMonth) == MonthStart[m] + dayOfMonth - 1

\* The day of month m on which a rule releases: the last one, if there are too few.
ResolveMonthDay(m, dayOfMonth) ==
    MonthStart[m] + (IF dayOfMonth > MonthLength(m) THEN MonthLength(m) ELSE dayOfMonth) - 1

\* The release of the cycle that t is in; weeks begin on Sunday.
CurrentRelease(rule, t) ==
    LET day ==
          CASE rule.frequency = "DAILY"   -> DayOf(t)
            [] rule.frequency = "WEEKLY"  -> DayOf(t) + OrElse(rule.dayOfWeek, 0) - WeekdayOf(t)
            [] rule.frequency = "MONTHLY" -> ResolveMonthDay(MonthOf(t), OrElse(rule.dayOfMonth, 1))
    IN day * DAY + rule.time

\* The release of the cycle after it.
NextRelease(rule, t) ==
    CASE rule.frequency = "DAILY"   -> CurrentRelease(rule, t) + DAY
      [] rule.frequency = "WEEKLY"  -> CurrentRelease(rule, t) + 7 * DAY
      [] rule.frequency = "MONTHLY" ->
            ResolveMonthDay(MonthOf(t) + 1, OrElse(rule.dayOfMonth, 1)) * DAY + rule.time

ClosureEnd(c) == OrElse(c.endsAt, FAR_FUTURE_DATE)

CurrentClosures(cs, t) == {c \in cs : c.isActive /\ c.startsAt <= t /\ t < ClosureEnd(c)}

\* Mutant: only the closures of this moment are looked at.
OverlappingClosuresMutant(cs, from, to) ==
    {c \in cs : c.isActive /\ c.startsAt <= from /\ from < ClosureEnd(c)}

OverlappingClosures(cs, from, to) ==
    {c \in cs : c.isActive /\ c.startsAt < to /\ from < ClosureEnd(c)}

Active(rules) == {r \in rules : r.isActive}
Released(rules, t) == {r \in Active(rules) : CurrentRelease(r, t) <= t}

\* Mutant: the next release is taken from the next cycles.
SnapshotMutant(rules, cs, t) ==
    IF CurrentClosures(cs, t) # {} THEN [status |-> "CLOSED", next |-> Null]
    ELSE IF Active(rules) = {} THEN [status |-> "OPEN", next |-> Null]
    ELSE [status |-> IF Released(rules, t) # {} THEN "OPEN" ELSE "SCHEDULED",
          next |-> Min({NextRelease(r, t) : r \in Active(rules)})]

\* What the resource's page shows of its channel at t.
Snapshot(rules, cs, t) ==
    IF CurrentClosures(cs, t) # {} THEN [status |-> "CLOSED", next |-> Null]
    ELSE IF Active(rules) = {} THEN [status |-> "OPEN", next |-> Null]
    ELSE IF Released(rules, t) # {}
         THEN [status |-> "OPEN", next |-> Min({NextRelease(r, t) : r \in Active(rules)})]
         ELSE [status |-> "SCHEDULED",
               next |-> Min({CurrentRelease(r, t) : r \in Active(rules)})]

\* Why a reservation from from to to is refused at t, if it is.
Block(rules, cs, from, to, t) ==
    IF OverlappingClosures(cs, from, to) # {} THEN "closure"
    ELSE CASE Snapshot(rules, cs, t).status = "SCHEDULED" -> "release"
           [] Snapshot(rules, cs, t).status = "CLOSED" -> "closure"
           [] OTHER -> "none"

-----------------------------------------------------------------------------
(* The reference: the days of a rule, one by one *)

\* Day d is a release day of the rule.
IsReleaseDay(rule, d) ==
    LET m == MonthOf(d * DAY)
        date == d - MonthStart[m] + 1
        wanted == OrElse(rule.dayOfMonth, 1)
    IN CASE rule.frequency = "DAILY"   -> TRUE
         [] rule.frequency = "WEEKLY"  -> WeekdayOf(d * DAY) = OrElse(rule.dayOfWeek, 0)
         [] rule.frequency = "MONTHLY" ->
               date = IF wanted > MonthLength(m) THEN MonthLength(m) ELSE wanted

\* Two days are in one cycle of the rule.
SameCycle(rule, d, e) ==
    CASE rule.frequency = "DAILY"   -> d = e
      [] rule.frequency = "WEEKLY"  -> (FirstWeekday + d) \div 7 = (FirstWeekday + e) \div 7
      [] rule.frequency = "MONTHLY" -> MonthOf(d * DAY) = MonthOf(e * DAY)
=============================================================================
