------------------------ MODULE ResourceChannel_proofs ------------------------
(***************************************************************************)
(* Proofs about ResourceChannel, for any calendar, rules, closures,        *)
(* moments, requests of administrators and reservations: releases are on   *)
(* the days of their cycles, a channel opens when it is scheduled to,      *)
(* closures are ranges, and what a reservation is let through into is in   *)
(* no closure that stood all the time and not before a release.            *)
(***************************************************************************)
EXTENDS ResourceChannel, FiniteSetTheorems, WellFoundedInduction, TLAPS

MaybeTime == Int \cup {Null}
Frequency == {"DAILY", "WEEKLY", "MONTHLY"}
RuleRow == [frequency : Frequency, dayOfWeek : 0..6 \cup {Null}, dayOfMonth : 1..31 \cup {Null},
            time : 0..(DAY - 1), isActive : BOOLEAN]
RulePatch == [frequency : Frequency \cup {Null}, dayOfWeek : 0..6 \cup {Null},
              dayOfMonth : 1..31 \cup {Null}, time : 0..(DAY - 1) \cup {Null},
              isActive : BOOLEAN \cup {Null}]
ClosureRow == [startsAt : Int, endsAt : MaybeTime, isActive : BOOLEAN]
ClosurePatch == [startsAt : MaybeTime, endsAt : MaybeTime, isActive : BOOLEAN \cup {Null}]

\* A wish has a first slot and a last one, as every finite set of slots that is not
\* empty has.
HasHull(wish) ==
    /\ \A s \in wish : s.from \in Int /\ s.to \in Int
    /\ \E s \in wish : \A x \in wish : s.from <= x.from
    /\ \E s \in wish : \A x \in wish : x.to <= s.to

\* Time t is in month m.
InMonth(t, m) == MonthStart[m] <= DayOf(t) /\ DayOf(t) < MonthStart[m + 1]

\* A time in a month that another one follows.
Timed(t) == t \in Int /\ \E m \in Month : m + 1 \in Month /\ InMonth(t, m)

\* Months have 28 to 31 days, and time goes on through them.  Null is no value of a
\* column, no time is as late as the one that stands for the end of a closure without
\* end, and the rows at the start are rules, and closures that are ranges.
Assumptions ==
    /\ FirstWeekday \in Int
    /\ MonthStart \in Seq(Int) /\ \A m \in Month : MonthLength(m) \in 28..31
    /\ Null \notin Int \cup BOOLEAN
    /\ Moments \in Seq(Int) /\ 1 \in DOMAIN Moments
    /\ \A n \in DOMAIN Moments : Moments[n] < FAR_FUTURE_DATE /\ Timed(Moments[n])
    /\ \A n \in DOMAIN Moments : n + 1 \in DOMAIN Moments => Moments[n] <= Moments[n + 1]
    /\ \A w \in Wishes : HasHull(w) /\ \A s \in w : s.from < FAR_FUTURE_DATE
    /\ RulePatches \subseteq RulePatch
    /\ InitialRules \subseteq [RuleId -> RuleRow \cup {NoRow}]
    /\ ClosurePatches \subseteq ClosurePatch
    /\ InitialClosures \subseteq [ClosureId -> ClosureRow \cup {NoClosure}]
    /\ \A f \in InitialClosures : \A i \in ClosureId : f[i] # NoClosure => ValidRange(f[i])

-----------------------------------------------------------------------------
(* The calendar *)

\* A set of natural numbers that is not empty has a least element.
LEMMA LeastNat ==
  ASSUME NEW T \in SUBSET Nat, T # {} PROVE \E m \in T : \A n \in T : m <= n
<1>1. PICK top \in T : TRUE
  OBVIOUS
<1> DEFINE Below(n) == 0..n
           Family == {Below(n) : n \in {k \in T : k <= top}}
<1>2. IsFiniteSet(Below(top)) /\ top \in Nat
  BY FS_Interval
<1>3. IsWellFoundedOn(StrictSubsetOrdering(Below(top)), SUBSET Below(top))
  BY <1>2, FS_StrictSubsetOrderingWellFounded, FS_FiniteSubsetsOfFinite
<1>4. Family \subseteq SUBSET Below(top) /\ Family # {}
  <2>1. \A n \in Nat : n <= top => Below(n) \subseteq Below(top)
    BY <1>2
  <2>2. Below(top) \in Family
    BY <1>2
  <2> QED
    BY <2>1, <2>2
<1>5. PICK least \in Family : \A other \in Family :
          ~(<<other, least>> \in StrictSubsetOrdering(Below(top)))
  <2> HIDE DEF Below, Family
  <2> QED
    BY <1>3, <1>4, WFMin
<1>6. PICK m \in T : m <= top /\ least = Below(m)
  BY <1>5
<1>7. ASSUME NEW n \in T, n < m PROVE FALSE
  <2>1. n \in Nat /\ m \in Nat /\ n <= top
    <3>1. n \in Nat /\ m \in Nat /\ top \in Nat /\ m <= top
      BY <1>6
    <3> QED
      BY <1>7, <3>1
  <2>2. Below(n) \in Family /\ Below(n) \subseteq Below(m)
    BY <1>7, <2>1
  <2>3. m \in Below(m) /\ m \notin Below(n)
    BY <1>7, <2>1
  <2>4. Below(n) # Below(m)
    BY <2>3
  <2> HIDE DEF Below, Family
  <2>5. <<Below(n), least>> \in StrictSubsetOrdering(Below(top))
    BY <1>4, <1>5, <1>6, <2>2, <2>4 DEF StrictSubsetOrdering
  <2> QED
    BY <1>5, <2>2, <2>5
<1>8. \A n \in T : m <= n
  BY <1>7
<1> QED
  BY <1>8

\* A day and a time of day make a time of that day.
LEMMA DayIs ==
  ASSUME NEW d \in Int, NEW k \in 0..(DAY - 1)
  PROVE  /\ d * DAY \in Int /\ d * DAY + k \in Int
         /\ DayOf(d * DAY + k) = d /\ DayOf(d * DAY) = d
         /\ d * DAY + k + DAY = (d + 1) * DAY + k
         /\ d * DAY + k + 7 * DAY = (d + 7) * DAY + k
BY DEF DayOf, DAY

\* Times in order are of days in order.
LEMMA DaysAreOrdered ==
  ASSUME NEW s \in Int, NEW t \in Int, s <= t
  PROVE  DayOf(s) \in Int /\ DayOf(t) \in Int /\ DayOf(s) <= DayOf(t)
BY DEF DayOf, DAY

\* Up to a day of a week, its Sunday is the same.
LEMMA WeekStays ==
  ASSUME NEW a \in Int, NEW b \in Int, NEW first \in Int, NEW w \in 0..6,
         a <= b, b <= a + w - ((first + a) % 7)
  PROVE  b - ((first + b) % 7) = a - ((first + a) % 7)
<1>1. PICK q \in Int, v \in 0..6 : first + a = 7 * q + v
  <2>1. (first + a) \div 7 \in Int /\ (first + a) % 7 \in 0..6
        /\ first + a = 7 * ((first + a) \div 7) + ((first + a) % 7)
    OBVIOUS
  <2> QED
    BY <2>1
<1>2. (first + a) % 7 = v
  BY <1>1
<1>3. first + b = 7 * q + (v + b - a) /\ v + b - a \in 0..6
  BY <1>1, <1>2
<1>4. (first + b) % 7 = v + b - a
  BY <1>3
<1> QED
  BY <1>2, <1>4

\* A month is not over before the one before it.
LEMMA MonthsAreOrdered ==
  ASSUME Assumptions, NEW m \in Month, NEW k \in Month, m < k
  PROVE  MonthStart[m + 1] <= MonthStart[k]
<1>1. /\ m \in Nat /\ k \in Nat
      /\ \A j \in (m + 1)..k : j \in DOMAIN MonthStart /\ MonthStart[j] \in Int
  BY DEF Assumptions, Month
<1>2. \A j \in (m + 1)..(k - 1) : MonthStart[j] <= MonthStart[j + 1]
  <2> TAKE j \in (m + 1)..(k - 1)
  <2>1. j \in Month /\ j \in (m + 1)..k /\ j + 1 \in (m + 1)..k
    BY <1>1 DEF Month
  <2>2. MonthStart[j + 1] - MonthStart[j] \in 28..31
    BY <2>1 DEF Assumptions, MonthLength
  <2> QED
    BY <1>1, <2>1, <2>2
<1> DEFINE T == {j \in (m + 1)..k : MonthStart[j] < MonthStart[m + 1]}
<1>3. ASSUME T # {}
      PROVE  FALSE
  <2>0. T \in SUBSET Nat
    BY <1>1
  <2>1. PICK j \in T : \A i \in T : j <= i
    <3> HIDE DEF T
    <3> QED
      BY <1>3, <2>0, LeastNat
  <2>2. j # m + 1 /\ j \in (m + 1)..k /\ j - 1 \in (m + 1)..(k - 1)
    BY <1>1, <2>1
  <2>3. j - 1 \notin T
    BY <1>1, <2>1, <2>2
  <2>4. MonthStart[m + 1] <= MonthStart[j - 1] /\ MonthStart[j - 1] <= MonthStart[(j - 1) + 1]
    BY <1>1, <1>2, <2>2, <2>3
  <2>5. (j - 1) + 1 = j
    BY <1>1, <2>2
  <2> QED
    BY <1>1, <2>1, <2>2, <2>4, <2>5
<1> QED
  BY <1>1, <1>3

\* A day is of one month.
LEMMA MonthIs ==
  ASSUME Assumptions, NEW t \in Int, NEW m \in Month, InMonth(t, m)
  PROVE  MonthOf(t) = m
<1>1. ASSUME NEW k \in Month, InMonth(t, k), k # m
      PROVE  FALSE
  <2>1. /\ MonthStart[m] \in Int /\ MonthStart[m + 1] \in Int
        /\ MonthStart[k] \in Int /\ MonthStart[k + 1] \in Int
        /\ m \in Int /\ k \in Int
    BY DEF Assumptions, Month
  <2>2. DayOf(t) \in Int
    BY DaysAreOrdered
  <2>3. CASE m < k
    BY <1>1, <2>1, <2>2, <2>3, MonthsAreOrdered DEF InMonth
  <2>4. CASE k < m
    BY <1>1, <2>1, <2>2, <2>4, MonthsAreOrdered DEF InMonth
  <2> QED
    BY <1>1, <2>1, <2>3, <2>4
<1> QED
  BY <1>1 DEF MonthOf, InMonth

\* What a month's first day and length are.
LEMMA MonthHas ==
  ASSUME Assumptions, NEW m \in Month
  PROVE  /\ m \in Nat /\ MonthStart[m] \in Int /\ MonthLength(m) \in 28..31
         /\ MonthStart[m + 1] = MonthStart[m] + MonthLength(m)
<1>1. m \in 1..(Len(MonthStart) - 1) /\ MonthStart \in Seq(Int)
  BY DEF Month, Assumptions
<1>2. m \in DOMAIN MonthStart /\ m + 1 \in DOMAIN MonthStart
  BY <1>1
<1>3. MonthStart[m] \in Int /\ MonthStart[m + 1] \in Int
  BY <1>1, <1>2
<1>4. MonthLength(m) \in 28..31
  BY DEF Assumptions
<1>5. MonthLength(m) = MonthStart[m + 1] - MonthStart[m]
  BY DEF MonthLength
<1> QED
  BY <1>1, <1>3, <1>4, <1>5

\* The release of the cycle that t is in: on a day of that cycle on which the rule
\* releases, a month before t's day at most.
LEMMA CurrentIsRight ==
  ASSUME Assumptions, NEW r \in RuleRow, NEW t, Timed(t)
  PROVE  \E d \in Int :
           /\ CurrentRelease(r, t) = d * DAY + r.time
           /\ DayOf(CurrentRelease(r, t)) = d
           /\ SameCycle(r, d, DayOf(t)) /\ IsReleaseDay(r, d)
           /\ DayOf(t) - 31 <= d
<1>1. /\ r.frequency \in Frequency /\ r.time \in 0..(DAY - 1)
      /\ OrElse(r.dayOfWeek, 0) \in 0..6 /\ OrElse(r.dayOfMonth, 1) \in 1..31
  BY DEF RuleRow, OrElse
<1>2. PICK m \in Month : m + 1 \in Month /\ InMonth(t, m) /\ t \in Int
  BY DEF Timed
<1>3. DayOf(t) \in Int /\ FirstWeekday \in Int
  BY <1>2, DaysAreOrdered DEF Assumptions
<1>4. DayOf(DayOf(t) * DAY) = DayOf(t)
  BY <1>1, <1>3, DayIs
<1>5. CASE r.frequency = "DAILY"
  <2>1. CurrentRelease(r, t) = DayOf(t) * DAY + r.time
    BY <1>5 DEF CurrentRelease
  <2>2. SameCycle(r, DayOf(t), DayOf(t)) /\ IsReleaseDay(r, DayOf(t))
    BY <1>5 DEF SameCycle, IsReleaseDay
  <2> QED
    BY <1>1, <1>3, <2>1, <2>2, DayIs
<1>6. CASE r.frequency = "WEEKLY"
  <2> DEFINE w == OrElse(r.dayOfWeek, 0)
             d == DayOf(t) + w - WeekdayOf(t)
  <2>1. CurrentRelease(r, t) = d * DAY + r.time
    BY <1>6 DEF CurrentRelease
  <2>2. /\ WeekdayOf(t) \in 0..6 /\ d \in Int
        /\ (FirstWeekday + d) \div 7 = (FirstWeekday + DayOf(t)) \div 7
        /\ (FirstWeekday + d) % 7 = w
        /\ DayOf(t) - 31 <= d
    BY <1>1, <1>3 DEF WeekdayOf
  <2>3. DayOf(d * DAY) = d /\ DayOf(d * DAY + r.time) = d
    BY <1>1, <2>2, DayIs
  <2>4. SameCycle(r, d, DayOf(t)) /\ IsReleaseDay(r, d)
    BY <1>6, <2>2, <2>3 DEF SameCycle, IsReleaseDay, WeekdayOf
  <2> QED
    BY <2>1, <2>2, <2>3, <2>4
<1>7. CASE r.frequency = "MONTHLY"
  <2> DEFINE wanted == OrElse(r.dayOfMonth, 1)
             d == ResolveMonthDay(m, wanted)
  <2>1. MonthOf(t) = m
    BY <1>2, MonthIs
  <2>2. CurrentRelease(r, t) = d * DAY + r.time
    BY <1>7, <2>1 DEF CurrentRelease
  <2>3. /\ MonthStart[m] \in Int /\ MonthLength(m) \in 28..31
        /\ MonthStart[m + 1] = MonthStart[m] + MonthLength(m)
    BY <1>2, MonthHas
  <2>4. /\ d \in Int /\ MonthStart[m] <= d /\ d < MonthStart[m + 1]
        /\ d - MonthStart[m] + 1 = IF wanted > MonthLength(m) THEN MonthLength(m) ELSE wanted
    BY <1>1, <2>3 DEF ResolveMonthDay
  <2>5. DayOf(d * DAY) = d /\ DayOf(d * DAY + r.time) = d
    BY <1>1, <2>4, DayIs
  <2>6. MonthOf(d * DAY) = m /\ MonthOf(DayOf(t) * DAY) = m
    <3>1. InMonth(d * DAY, m) /\ InMonth(DayOf(t) * DAY, m)
      BY <1>2, <1>4, <2>4, <2>5 DEF InMonth
    <3>2. d * DAY \in Int /\ DayOf(t) * DAY \in Int
      BY <1>3, <2>4 DEF DAY
    <3> QED
      BY <3>1, <3>2, MonthIs
  <2>7. SameCycle(r, d, DayOf(t)) /\ IsReleaseDay(r, d)
    BY <1>7, <2>4, <2>6 DEF SameCycle, IsReleaseDay
  <2>8. DayOf(t) - 31 <= d
    BY <1>2, <1>3, <2>3, <2>4 DEF InMonth
  <2> QED
    BY <2>2, <2>4, <2>5, <2>7, <2>8
<1> QED
  BY <1>1, <1>5, <1>6, <1>7 DEF Frequency

\* The release of the cycle after it is on the first release day after that day.
LEMMA NextIsRight ==
  ASSUME Assumptions, NEW r \in RuleRow, NEW t, Timed(t)
  PROVE  LET d == DayOf(CurrentRelease(r, t))
             e == DayOf(NextRelease(r, t))
         IN /\ d < e /\ IsReleaseDay(r, e)
            /\ \A f \in (d + 1)..(e - 1) : ~IsReleaseDay(r, f)
<1>1. /\ r.frequency \in Frequency /\ r.time \in 0..(DAY - 1)
      /\ OrElse(r.dayOfWeek, 0) \in 0..6 /\ OrElse(r.dayOfMonth, 1) \in 1..31
  BY DEF RuleRow, OrElse
<1>2. PICK d \in Int : /\ CurrentRelease(r, t) = d * DAY + r.time
                       /\ DayOf(CurrentRelease(r, t)) = d
                       /\ SameCycle(r, d, DayOf(t)) /\ IsReleaseDay(r, d)
  BY CurrentIsRight
<1> SUFFICES \E e \in Int :
               /\ DayOf(NextRelease(r, t)) = e /\ d < e /\ IsReleaseDay(r, e)
               /\ \A f \in (d + 1)..(e - 1) : ~IsReleaseDay(r, f)
  BY <1>2
<1>3. CASE r.frequency = "DAILY"
  <2>1. NextRelease(r, t) = (d + 1) * DAY + r.time
    BY <1>1, <1>2, <1>3, DayIs DEF NextRelease
  <2>2. d + 1 \in Int /\ DayOf((d + 1) * DAY + r.time) = d + 1
    BY <1>1, DayIs
  <2>3. IsReleaseDay(r, d + 1)
    BY <1>3 DEF IsReleaseDay
  <2> QED
    BY <2>1, <2>2, <2>3
<1>4. CASE r.frequency = "WEEKLY"
  <2>1. NextRelease(r, t) = (d + 7) * DAY + r.time
    BY <1>1, <1>2, <1>4, DayIs DEF NextRelease
  <2>2. d + 7 \in Int /\ DayOf((d + 7) * DAY + r.time) = d + 7
    BY <1>1, DayIs
  <2>3. ASSUME NEW f \in Int
        PROVE  IsReleaseDay(r, f) <=> (FirstWeekday + f) % 7 = OrElse(r.dayOfWeek, 0)
    <3>1. 0 \in 0..(DAY - 1) /\ DayOf(f * DAY) = f
      BY DayIs DEF DAY
    <3> QED
      BY <1>4, <3>1 DEF IsReleaseDay, WeekdayOf
  <2>4. (FirstWeekday + d) % 7 = OrElse(r.dayOfWeek, 0) /\ FirstWeekday \in Int
    BY <1>2, <2>3 DEF Assumptions
  <2>5. IsReleaseDay(r, d + 7)
    BY <2>2, <2>3, <2>4
  <2>6. \A f \in (d + 1)..((d + 7) - 1) : ~IsReleaseDay(r, f)
    <3> TAKE f \in (d + 1)..((d + 7) - 1)
    <3>1. f \in Int /\ (FirstWeekday + f) % 7 # (FirstWeekday + d) % 7
      BY <2>4
    <3> QED
      BY <2>3, <2>4, <3>1
  <2> QED
    BY <2>1, <2>2, <2>5, <2>6
<1>5. CASE r.frequency = "MONTHLY"
  <2> DEFINE wanted == OrElse(r.dayOfMonth, 1)
             Date(k) == IF wanted > MonthLength(k) THEN MonthLength(k) ELSE wanted
  <2>1. PICK m \in Month : m + 1 \in Month /\ InMonth(t, m) /\ t \in Int
    BY DEF Timed
  <2>2. MonthOf(t) = m
    BY <2>1, MonthIs
  <2>3. ASSUME NEW k \in Month
        PROVE  /\ MonthStart[k] \in Int /\ MonthLength(k) \in 28..31
               /\ MonthStart[k + 1] = MonthStart[k] + MonthLength(k)
               /\ Date(k) \in 1..MonthLength(k)
               /\ ResolveMonthDay(k, wanted) = MonthStart[k] + Date(k) - 1
               /\ ResolveMonthDay(k, wanted) \in Int
    <3>1. /\ MonthStart[k] \in Int /\ MonthLength(k) \in 28..31
          /\ MonthStart[k + 1] = MonthStart[k] + MonthLength(k)
      BY MonthHas
    <3> QED
      BY <1>1, <3>1 DEF ResolveMonthDay
  <2>4. ASSUME NEW k \in Month, NEW f \in Int, MonthStart[k] <= f, f < MonthStart[k + 1]
        PROVE  IsReleaseDay(r, f) <=> f - MonthStart[k] + 1 = Date(k)
    <3>1. 0 \in 0..(DAY - 1) /\ DayOf(f * DAY) = f /\ f * DAY \in Int
      BY DayIs DEF DAY
    <3>2. MonthOf(f * DAY) = k
      BY <2>4, <3>1, MonthIs DEF InMonth
    <3> QED
      BY <1>5, <3>2 DEF IsReleaseDay
  <2> HIDE DEF Date
  <2>5. d = ResolveMonthDay(m, wanted)
    <3>1. CurrentRelease(r, t) = ResolveMonthDay(m, wanted) * DAY + r.time
      BY <1>5, <2>2 DEF CurrentRelease
    <3> QED
      BY <1>1, <1>2, <2>3, <3>1, DayIs
  <2> DEFINE e == ResolveMonthDay(m + 1, wanted)
  <2>6. NextRelease(r, t) = e * DAY + r.time
    BY <1>5, <2>2 DEF NextRelease
  <2>7. e \in Int /\ e = MonthStart[m + 1] + Date(m + 1) - 1
    BY <2>1, <2>3
  <2> HIDE DEF e
  <2>8. DayOf(NextRelease(r, t)) = e
    BY <1>1, <2>6, <2>7, DayIs
  <2>9. /\ MonthStart[m] \in Int /\ MonthLength(m) \in 28..31
        /\ MonthStart[m + 1] = MonthStart[m] + MonthLength(m)
        /\ Date(m) \in 1..MonthLength(m)
        /\ d = MonthStart[m] + Date(m) - 1
    BY <2>3, <2>5
  <2>10. /\ MonthStart[m + 1] \in Int /\ MonthLength(m + 1) \in 28..31
         /\ MonthStart[(m + 1) + 1] = MonthStart[m + 1] + MonthLength(m + 1)
         /\ Date(m + 1) \in 1..MonthLength(m + 1)
    BY <2>1, <2>3
  <2>11. d < e /\ d < MonthStart[m + 1] /\ MonthStart[m + 1] <= e /\ e < MonthStart[(m + 1) + 1]
    BY <2>7, <2>9, <2>10
  <2>12. IsReleaseDay(r, e)
    <3>1. e - MonthStart[m + 1] + 1 = Date(m + 1)
      BY <2>7, <2>10
    <3> QED
      BY <2>1, <2>4, <2>7, <2>11, <3>1
  <2>13. \A f \in (d + 1)..(e - 1) : ~IsReleaseDay(r, f)
    <3> TAKE f \in (d + 1)..(e - 1)
    <3>1. f \in Int /\ d < f /\ f < e
      BY <2>7
    <3>2. CASE f < MonthStart[m + 1]
      <4>1. MonthStart[m] <= f /\ f - MonthStart[m] + 1 # Date(m)
        BY <2>9, <3>1
      <4> QED
        BY <2>4, <3>1, <3>2, <4>1
    <3>3. CASE MonthStart[m + 1] <= f
      <4>1. f < MonthStart[(m + 1) + 1] /\ f - MonthStart[m + 1] + 1 # Date(m + 1)
        BY <2>7, <2>10, <2>11, <3>1
      <4> QED
        BY <2>1, <2>4, <3>1, <3>3, <4>1
    <3> QED
      BY <2>10, <3>1, <3>2, <3>3
  <2> QED
    BY <2>7, <2>8, <2>11, <2>12, <2>13
<1> QED
  BY <1>1, <1>3, <1>4, <1>5 DEF Frequency

\* Up to its release, a cycle is the current one.
LEMMA ReleaseStays ==
  ASSUME Assumptions, NEW r \in RuleRow, NEW s, NEW t, Timed(s), Timed(t),
         s <= t, t <= CurrentRelease(r, s)
  PROVE  CurrentRelease(r, t) = CurrentRelease(r, s)
<1>1. /\ r.frequency \in Frequency /\ r.time \in 0..(DAY - 1)
      /\ OrElse(r.dayOfWeek, 0) \in 0..6 /\ OrElse(r.dayOfMonth, 1) \in 1..31
  BY DEF RuleRow, OrElse
<1>2. s \in Int /\ t \in Int
  BY DEF Timed
<1>3. PICK d \in Int : /\ CurrentRelease(r, s) = d * DAY + r.time
                       /\ DayOf(CurrentRelease(r, s)) = d
  BY CurrentIsRight
<1>4. CurrentRelease(r, s) \in Int
  BY <1>1, <1>3, DayIs
<1>5. DayOf(s) \in Int /\ DayOf(t) \in Int /\ DayOf(s) <= DayOf(t) /\ DayOf(t) <= d
  BY <1>2, <1>3, <1>4, DaysAreOrdered
<1>6. CASE r.frequency = "DAILY"
  <2>1. CurrentRelease(r, s) = DayOf(s) * DAY + r.time
    BY <1>6 DEF CurrentRelease
  <2>2. d = DayOf(s)
    BY <1>1, <1>3, <1>5, <2>1, DayIs
  <2>3. DayOf(t) = DayOf(s)
    BY <1>5, <2>2
  <2> QED
    BY <1>6, <2>3 DEF CurrentRelease
<1>7. CASE r.frequency = "WEEKLY"
  <2> DEFINE w == OrElse(r.dayOfWeek, 0)
  <2>1. CurrentRelease(r, s) = (DayOf(s) + w - WeekdayOf(s)) * DAY + r.time
    BY <1>7 DEF CurrentRelease
  <2>2. FirstWeekday \in Int /\ WeekdayOf(s) \in Int /\ WeekdayOf(t) \in Int
    <3>1. FirstWeekday \in Int
      BY DEF Assumptions
    <3> QED
      BY <1>5, <3>1 DEF WeekdayOf
  <2>3. d = DayOf(s) + w - WeekdayOf(s)
    <3>1. DayOf(s) + w - WeekdayOf(s) \in Int
      BY <1>1, <1>5, <2>2
    <3> QED
      BY <1>1, <1>3, <2>1, <3>1, DayIs
  <2>4. DayOf(t) - WeekdayOf(t) = DayOf(s) - WeekdayOf(s)
    BY <1>1, <1>5, <2>2, <2>3, WeekStays DEF WeekdayOf
  <2>5. DayOf(t) + w - WeekdayOf(t) = DayOf(s) + w - WeekdayOf(s)
    BY <1>1, <1>5, <2>2, <2>4
  <2> QED
    BY <1>7, <2>1, <2>5 DEF CurrentRelease
<1>8. CASE r.frequency = "MONTHLY"
  <2>1. PICK m \in Month : m + 1 \in Month /\ InMonth(s, m)
    BY DEF Timed
  <2>2. MonthOf(s) = m
    BY <1>2, <2>1, MonthIs
  <2>3. CurrentRelease(r, s) = ResolveMonthDay(m, OrElse(r.dayOfMonth, 1)) * DAY + r.time
    BY <1>8, <2>2 DEF CurrentRelease
  <2>4. /\ MonthStart[m] \in Int /\ MonthLength(m) \in 28..31
        /\ MonthStart[m + 1] = MonthStart[m] + MonthLength(m)
    BY <2>1, MonthHas
  <2>5. /\ ResolveMonthDay(m, OrElse(r.dayOfMonth, 1)) \in Int
        /\ ResolveMonthDay(m, OrElse(r.dayOfMonth, 1)) < MonthStart[m + 1]
    BY <1>1, <2>4 DEF ResolveMonthDay
  <2>6. d = ResolveMonthDay(m, OrElse(r.dayOfMonth, 1))
    BY <1>1, <1>3, <2>3, <2>5, DayIs
  <2>7. InMonth(t, m)
    BY <1>5, <2>1, <2>4, <2>5, <2>6 DEF InMonth
  <2>8. MonthOf(t) = m
    BY <1>2, <2>1, <2>7, MonthIs
  <2> QED
    BY <1>8, <2>2, <2>8 DEF CurrentRelease
<1> QED
  BY <1>1, <1>6, <1>7, <1>8 DEF Frequency

-----------------------------------------------------------------------------
(* The inductive invariant *)

DeskPc == {"idle", "updateClosure", "deleteClosure"}
BookingPc == {"new", "rules", "closures", "through", "refused"}

\* What an administrator's request has found, and what it asks for.
DeskSound(h) ==
    /\ h.pc \in DeskPc
    /\ h.pc # "idle" => h.id \in ClosureId
    /\ h.pc = "updateClosure" => h.patch \in ClosurePatch /\ h.row \in ClosureRow

\* What a reservation has read: the closures nobody wrote since are among those read,
\* and the rules are those read, if nobody wrote one.
BookingSound(h) ==
    /\ h.pc \in BookingPc /\ h.stood \subseteq ClosureId
    /\ h.pc \in {"rules", "closures"} =>
         h.wish \in Wishes /\ (h.ruled => h.rules = TheRules)
    /\ h.pc = "closures" =>
         \A i \in h.stood : closures[i] # NoClosure => closures[i] \in h.closures

Rows ==
    /\ clock \in DOMAIN Moments
    /\ rules \in [RuleId -> RuleRow \cup {NoRow}]
    /\ closures \in [ClosureId -> ClosureRow \cup {NoClosure}]
    /\ DOMAIN desk = Admin /\ DOMAIN booking = Booking
    /\ \A b \in Booking : DOMAIN booking[b] = DOMAIN NewBooking

ChannelInv ==
    /\ Rows
    /\ ClosuresAreRanges
    /\ \A a \in Admin : DeskSound(desk[a])
    /\ \A b \in Booking : BookingSound(booking[b])

-----------------------------------------------------------------------------
(* Lemmas *)

\* A patch is applied field by field.
LEMMA PatchedIs ==
  ASSUME Assumptions, NEW p \in ClosurePatch, NEW row \in ClosureRow
  PROVE  Patched(p, row) \in ClosureRow
<1>1. Or(p, "startsAt", row.startsAt) \in Int
  BY DEF Or, Given, ClosurePatch, ClosureRow, MaybeTime
<1>2. Or(p, "endsAt", row.endsAt) \in MaybeTime
  BY DEF Or, Given, ClosurePatch, ClosureRow
<1>3. Or(p, "isActive", row.isActive) \in BOOLEAN
  BY DEF Or, Given, ClosurePatch, ClosureRow
<1> QED
  BY <1>1, <1>2, <1>3 DEF Patched, ClosureRow

\* A closure that is created has the types of its columns.
LEMMA NewClosureIs ==
  ASSUME Assumptions, NEW p \in ClosurePatch, Given(p, "startsAt")
  PROVE  NewClosure(p) \in ClosureRow
<1>1. p.startsAt \in Int /\ p.endsAt \in MaybeTime
  BY DEF Given, ClosurePatch, MaybeTime
<1>2. Or(p, "isActive", TRUE) \in BOOLEAN
  BY DEF Or, Given, ClosurePatch
<1> QED
  BY <1>1, <1>2 DEF NewClosure, ClosureRow

\* A payload makes a rule of a rule, and of nothing, if it has what it needs.
LEMMA NormalizedIs ==
  ASSUME Assumptions, NEW p \in RulePatch, NEW row,
         row \in RuleRow \/ (Given(p, "frequency") /\ Given(p, "time"))
  PROVE  Normalized(p, row) \in RuleRow
<1>1. Or(p, "frequency", row.frequency) \in Frequency
  BY DEF Or, Given, RulePatch, RuleRow
<1>2. Or(p, "time", row.time) \in 0..(DAY - 1)
  BY DEF Or, Given, RulePatch, RuleRow
<1>3. Or(p, "isActive", TRUE) \in BOOLEAN
  BY DEF Or, Given, RulePatch
<1> QED
  BY <1>1, <1>2, <1>3 DEF Normalized, RuleRow, RulePatch

\* The range that is checked holds every slot.
LEMMA HullIs ==
  ASSUME NEW wish, HasHull(wish), NEW s \in wish
  PROVE  /\ Hull(wish).from \in Int /\ Hull(wish).from <= s.from
         /\ Hull(wish).to \in Int /\ s.to <= Hull(wish).to
<1> DEFINE F == {x.from : x \in wish}
           T == {x.to : x \in wish}
<1>1. \E m \in F : \A y \in F : m =< y
  BY DEF HasHull
<1>2. Min(F) \in F /\ \A y \in F : Min(F) =< y
  BY <1>1 DEF Min
<1>3. \E m \in T : \A y \in T : m >= y
  BY DEF HasHull
<1>4. Max(T) \in T /\ \A y \in T : Max(T) >= y
  BY <1>3 DEF Max
<1>5. F \subseteq Int /\ T \subseteq Int /\ s.from \in F /\ s.to \in T
  BY DEF HasHull
<1>6. Min(F) \in Int /\ Min(F) <= s.from /\ Max(T) \in Int /\ s.to <= Max(T)
  BY <1>2, <1>4, <1>5
<1>7. Hull(wish).from = Min(F) /\ Hull(wish).to = Max(T)
  BY DEF Hull
<1> QED
  BY <1>6, <1>7

\* What is not blocked is not touched by a closure, nor asked for during one.
LEMMA NotBlocked ==
  ASSUME NEW rs, NEW cs, NEW from, NEW to, NEW t, Block(rs, cs, from, to, t) = "none"
  PROVE  OverlappingClosures(cs, from, to) = {} /\ CurrentClosures(cs, t) = {}
BY DEF Block, Snapshot

\* A row that is written to the closures, while nothing else happens but the request's end.
LEMMA WriteStep ==
  ASSUME Assumptions, ChannelInv, NEW a \in Admin, NEW i \in ClosureId,
         NEW row \in ClosureRow \cup {NoClosure}, row # NoClosure => ValidRange(row),
         WriteClosure(i, row), UNCHANGED clock,
         desk' \in {desk, [desk EXCEPT ![a] = IdleAdmin]}
  PROVE  ChannelInv'
<1>1. /\ closures' \in [ClosureId -> ClosureRow \cup {NoClosure}]
      /\ closures'[i] = row /\ \A j \in ClosureId \ {i} : closures'[j] = closures[j]
  BY DEF ChannelInv, Rows, WriteClosure
<1>2. Rows'
  BY <1>1 DEF ChannelInv, Rows, WriteClosure
<1>3. ClosuresAreRanges'
  BY <1>1 DEF ChannelInv, ClosuresAreRanges
<1>4. \A b \in Admin : DeskSound(desk[b])'
  <2>1. DeskSound(IdleAdmin)
    BY DEF DeskSound, DeskPc, IdleAdmin
  <2> QED
    BY <2>1 DEF ChannelInv, Rows, DeskSound
<1>5. ASSUME NEW b \in Booking
      PROVE  BookingSound(booking[b])'
  <2>1. booking'[b] = [booking[b] EXCEPT !.stood = @ \ {i}]
    BY DEF WriteClosure
  <2>2. PICK h : h = booking'[b]
    OBVIOUS
  <2>3. /\ h.pc = booking[b].pc /\ h.wish = booking[b].wish
        /\ h.rules = booking[b].rules /\ h.ruled = booking[b].ruled
        /\ h.closures = booking[b].closures /\ h.stood = booking[b].stood \ {i}
    BY <2>1, <2>2
  <2>4. TheRules' = TheRules
    BY DEF WriteClosure, TheRules
  <2>5. BookingSound(h)'
    BY <1>1, <2>3, <2>4 DEF ChannelInv, BookingSound
  <2> QED
    BY <2>2, <2>5 DEF BookingSound
<1> QED
  BY <1>2, <1>3, <1>4, <1>5 DEF ChannelInv

-----------------------------------------------------------------------------
(* The steps *)

\* A step of a request of an administrator that writes nothing.
LEMMA DeskStep ==
  ASSUME ChannelInv, NEW a \in Admin, NEW h, DeskSound(h),
         desk' \in {desk, [desk EXCEPT ![a] = h]},
         UNCHANGED <<clock, rules, closures, booking>>
  PROVE  ChannelInv'
<1>1. Rows' /\ ClosuresAreRanges'
  BY DEF ChannelInv, Rows, ClosuresAreRanges
<1>2. \A b \in Admin : DeskSound(desk[b])'
  BY DEF ChannelInv, Rows, DeskSound
<1>3. \A b \in Booking : BookingSound(booking[b])'
  BY DEF ChannelInv, BookingSound, TheRules
<1> QED
  BY <1>1, <1>2, <1>3 DEF ChannelInv

\* A request that has ended asks for nothing.
LEMMA IdleIsSound == DeskSound(IdleAdmin)
BY DEF DeskSound, DeskPc, IdleAdmin

\* A rule is written as a rule, and no reservation under way can rely on the old ones.
LEMMA ReleaseRuleKeeps ==
  ASSUME Assumptions, ChannelInv, NEW a \in Admin, CreateReleaseRule(a) \/ UpdateReleaseRule(a)
  PROVE  ChannelInv'
<1>1. /\ booking' = [b \in Booking |-> [booking[b] EXCEPT !.ruled = FALSE]]
      /\ UNCHANGED <<clock, closures, desk>>
  BY DEF CreateReleaseRule, UpdateReleaseRule, WriteRule
<1>2. PICK i \in RuleId, row \in RuleRow : rules' = [rules EXCEPT ![i] = row]
  <2>1. CASE CreateReleaseRule(a)
    <3>1. PICK i \in RuleId, p \in RulePatches :
            /\ Given(p, "frequency") /\ Given(p, "time")
            /\ rules' = [rules EXCEPT ![i] = Normalized(p, NoRow)]
      BY <2>1 DEF CreateReleaseRule, WriteRule
    <3>2. Normalized(p, NoRow) \in RuleRow
      BY <3>1, NormalizedIs DEF Assumptions
    <3> QED
      BY <3>1, <3>2
  <2>2. CASE UpdateReleaseRule(a)
    <3>1. PICK i \in RuleId, p \in RulePatches :
            rules[i] # NoRow /\ rules' = [rules EXCEPT ![i] = Normalized(p, rules[i])]
      BY <2>2 DEF UpdateReleaseRule, WriteRule
    <3>2. rules[i] \in RuleRow
      BY <3>1 DEF ChannelInv, Rows
    <3>3. p \in RulePatch
      BY DEF Assumptions
    <3>4. ASSUME NEW row \in RuleRow
          PROVE  Normalized(p, row) \in RuleRow
      BY <3>3, NormalizedIs
    <3> QED
      BY <3>1, <3>2, <3>4
  <2> QED
    BY <2>1, <2>2
<1>3. Rows' /\ ClosuresAreRanges'
  BY <1>1, <1>2 DEF ChannelInv, Rows, ClosuresAreRanges
<1>4. \A b \in Admin : DeskSound(desk[b])'
  BY <1>1 DEF ChannelInv, DeskSound
<1>5. ASSUME NEW b \in Booking
      PROVE  BookingSound(booking[b])'
  <2>1. booking'[b] = [booking[b] EXCEPT !.ruled = FALSE]
    BY <1>1
  <2>2. PICK h : h = booking'[b]
    OBVIOUS
  <2>3. /\ h.pc = booking[b].pc /\ h.wish = booking[b].wish
        /\ h.closures = booking[b].closures /\ h.stood = booking[b].stood
    BY <2>1, <2>2
  <2>4. h.pc \in {"rules", "closures"} => ~h.ruled
    <3>1. DOMAIN booking[b] = DOMAIN NewBooking
      BY DEF ChannelInv, Rows
    <3> QED
      BY <2>1, <2>2, <3>1 DEF NewBooking
  <2>5. BookingSound(h)'
    BY <1>1, <2>3, <2>4 DEF ChannelInv, BookingSound
  <2> QED
    BY <2>2, <2>5 DEF BookingSound
<1> QED
  BY <1>3, <1>4, <1>5 DEF ChannelInv

\* A closure that is created is a range.
LEMMA CreateClosureKeeps ==
  ASSUME Assumptions, ChannelInv, NEW a \in Admin, CreateBookingClosure(a)
  PROVE  ChannelInv'
<1>1. PICK i \in ClosureId, p \in ClosurePatches :
        /\ Given(p, "startsAt") /\ ValidRange(NewClosure(p))
        /\ WriteClosure(i, NewClosure(p)) /\ UNCHANGED <<clock, desk>>
  BY DEF CreateBookingClosure
<1>2. NewClosure(p) \in ClosureRow
  BY <1>1, NewClosureIs DEF Assumptions
<1> QED
  BY <1>1, <1>2, WriteStep

\* What an update has found is a closure.
LEMMA FindClosureKeeps ==
  ASSUME Assumptions, ChannelInv, NEW a \in Admin, FindClosure(a)
  PROVE  ChannelInv'
<1>1. PICK i \in ClosureId :
        /\ closures[i] # NoClosure
        /\ \/ \E p \in ClosurePatches :
                desk' = [desk EXCEPT ![a] = [pc |-> "updateClosure", id |-> i, patch |-> p,
                                             row |-> closures[i]]]
           \/ desk' = [desk EXCEPT ![a] = [pc |-> "deleteClosure", id |-> i, patch |-> Null,
                                           row |-> closures[i]]]
  BY DEF FindClosure
<1>2. closures[i] \in ClosureRow
  BY <1>1 DEF ChannelInv, Rows
<1>3. UNCHANGED <<clock, rules, closures, booking>>
  BY DEF FindClosure
<1>4. PICK p, h :
        /\ desk' = [desk EXCEPT ![a] = h]
        /\ \/ /\ p \in ClosurePatches
              /\ h = [pc |-> "updateClosure", id |-> i, patch |-> p, row |-> closures[i]]
           \/ h = [pc |-> "deleteClosure", id |-> i, patch |-> Null, row |-> closures[i]]
  BY <1>1
<1>5. DeskSound(h)
  BY <1>2, <1>4 DEF Assumptions, DeskSound, DeskPc
<1> QED
  BY <1>3, <1>4, <1>5, DeskStep

\* What an update writes is a range: it looks at the payload merged with the row it found.
LEMMA UpdateClosureKeeps ==
  ASSUME Assumptions, ChannelInv, NEW a \in Admin, UpdateBookingClosure(a)
  PROVE  ChannelInv'
<1>1. PICK h : h = desk[a] /\ h.pc = "updateClosure"
  BY DEF UpdateBookingClosure
<1>2. h.id \in ClosureId /\ h.patch \in ClosurePatch /\ h.row \in ClosureRow
  BY <1>1 DEF ChannelInv, DeskSound
<1>3. Patched(h.patch, h.row) \in ClosureRow
  BY <1>2, PatchedIs
<1>4. CASE UNCHANGED <<rules, closures, booking>>
  BY <1>4, IdleIsSound, DeskStep DEF UpdateBookingClosure
<1>5. CASE ValidRange(Patched(h.patch, h.row)) /\ WriteClosure(h.id, Patched(h.patch, h.row))
  BY <1>2, <1>3, <1>5, WriteStep DEF UpdateBookingClosure
<1> QED
  BY <1>1, <1>4, <1>5 DEF UpdateBookingClosure

\* A closure that is deleted leaves the others as they are.
LEMMA DeleteClosureKeeps ==
  ASSUME Assumptions, ChannelInv, NEW a \in Admin, DeleteBookingClosure(a)
  PROVE  ChannelInv'
<1>1. desk[a].id \in ClosureId
  BY DEF ChannelInv, DeskSound, DeleteBookingClosure
<1>2. CASE UNCHANGED <<rules, closures, booking>>
  BY <1>2, IdleIsSound, DeskStep DEF DeleteBookingClosure
<1>3. CASE WriteClosure(desk[a].id, NoClosure)
  BY <1>1, <1>3, WriteStep DEF DeleteBookingClosure
<1> QED
  BY <1>2, <1>3 DEF DeleteBookingClosure

\* A step of a reservation.
LEMMA BookingStep ==
  ASSUME Assumptions, ChannelInv, NEW b \in Booking, NEW h, BookingSound(h),
         DOMAIN h = DOMAIN booking[b],
         booking' = [booking EXCEPT ![b] = h], UNCHANGED <<clock, rules, closures, desk>>
  PROVE  ChannelInv'
<1>1. Rows' /\ ClosuresAreRanges'
  BY DEF ChannelInv, Rows, ClosuresAreRanges
<1>2. \A a \in Admin : DeskSound(desk[a])'
  BY DEF ChannelInv, DeskSound
<1>3. \A c \in Booking : BookingSound(booking[c])'
  BY DEF ChannelInv, Rows, BookingSound, TheRules
<1> QED
  BY <1>1, <1>2, <1>3 DEF ChannelInv

\* A reservation reads the rules there are,
LEMMA ReadRulesKeeps ==
  ASSUME Assumptions, ChannelInv, NEW b \in Booking, ReadRules(b)
  PROVE  ChannelInv'
<1>1. PICK w, h :
        /\ w \in Wishes
        /\ h = [booking[b] EXCEPT !.pc = "rules", !.wish = w, !.rules = TheRules,
                                  !.stood = ClosureId, !.ruled = TRUE]
        /\ booking' = [booking EXCEPT ![b] = h]
  BY DEF ReadRules
<1>2. /\ h.pc = "rules" /\ h.wish = w /\ h.rules = TheRules /\ h.stood = ClosureId
      /\ DOMAIN h = DOMAIN booking[b]
  <2>1. DOMAIN booking[b] = DOMAIN NewBooking
    BY DEF ChannelInv, Rows
  <2> QED
    BY <1>1, <2>1 DEF NewBooking
<1>3. BookingSound(h)
  BY <1>1, <1>2 DEF BookingSound, BookingPc
<1> QED
  BY <1>1, <1>2, <1>3, BookingStep DEF ReadRules

\* and after them every closure that counts;
LEMMA ReadClosuresKeeps ==
  ASSUME Assumptions, ChannelInv, NEW b \in Booking, ReadClosures(b)
  PROVE  ChannelInv'
<1>1. PICK h :
        /\ h = [booking[b] EXCEPT !.pc = "closures", !.closures = TheClosures]
        /\ booking' = [booking EXCEPT ![b] = h]
  BY DEF ReadClosures
<1>2. /\ h.pc = "closures" /\ h.closures = TheClosures
      /\ h.wish = booking[b].wish /\ h.stood = booking[b].stood
      /\ h.rules = booking[b].rules /\ h.ruled = booking[b].ruled
      /\ DOMAIN h = DOMAIN booking[b]
  <2>1. DOMAIN booking[b] = DOMAIN NewBooking
    BY DEF ChannelInv, Rows
  <2> QED
    BY <1>1, <2>1 DEF NewBooking
<1>3. /\ booking[b].wish \in Wishes /\ booking[b].stood \subseteq ClosureId
      /\ booking[b].ruled => booking[b].rules = TheRules
  BY DEF ChannelInv, BookingSound, ReadClosures
<1>4. BookingSound(h)
  BY <1>2, <1>3 DEF BookingSound, BookingPc, TheClosures
<1> QED
  BY <1>1, <1>2, <1>4, BookingStep DEF ReadClosures

\* what it has read it keeps until it is let through or refused.
LEMMA AssertKeeps ==
  ASSUME Assumptions, ChannelInv, NEW b \in Booking, AssertResourceChannelOpen(b)
  PROVE  ChannelInv'
<1>0. PICK pc \in {"through", "refused"} : booking' = [booking EXCEPT ![b].pc = pc]
  BY DEF AssertResourceChannelOpen
<1>1. PICK h :
        h = [booking[b] EXCEPT !.pc = pc] /\ booking' = [booking EXCEPT ![b] = h]
  BY <1>0
<1>2. /\ h.pc \in {"through", "refused"} /\ h.stood = booking[b].stood
      /\ DOMAIN h = DOMAIN booking[b]
  <2>1. DOMAIN booking[b] = DOMAIN NewBooking
    BY DEF ChannelInv, Rows
  <2> QED
    BY <1>0, <1>1, <2>1 DEF NewBooking
<1>3. BookingSound(h)
  BY <1>2 DEF ChannelInv, BookingSound, BookingPc
<1> QED
  BY <1>1, <1>2, <1>3, BookingStep DEF AssertResourceChannelOpen

\* What is let through is outside of the closures that stood.
LEMMA AssertIsRight ==
  ASSUME Assumptions, ChannelInv, NEW b \in Booking, AssertResourceChannelOpen(b),
         booking'[b].pc = "through"
  PROVE  OutsideClosures(b)
<1>0. PICK w \in Wishes : w = booking[b].wish
  BY DEF ChannelInv, BookingSound, AssertResourceChannelOpen
<1>1. PICK cs : w = booking[b].wish /\ cs = booking[b].closures
  BY <1>0
<1>2. Block(booking[b].rules, cs, Hull(w).from, Hull(w).to, now) = "none"
  <2>1. PICK block :
          /\ block = Block(booking[b].rules, cs, Hull(w).from, Hull(w).to, now)
          /\ booking' = [booking EXCEPT ![b].pc = IF block = "none" THEN "through" ELSE "refused"]
    BY <1>1 DEF AssertResourceChannelOpen
  <2>2. booking'[b] = [booking[b] EXCEPT !.pc = IF block = "none" THEN "through" ELSE "refused"]
    BY <2>1 DEF ChannelInv, Rows
  <2>3. booking'[b].pc = IF block = "none" THEN "through" ELSE "refused"
    BY <2>2
  <2> QED
    BY <2>1, <2>3
<1>3. OverlappingClosures(cs, Hull(w).from, Hull(w).to) = {} /\ CurrentClosures(cs, now) = {}
  BY <1>2, NotBlocked
<1>4. now \in Int /\ now < FAR_FUTURE_DATE
  BY DEF Assumptions, ChannelInv, Rows, now
<1>5. ASSUME NEW i \in booking[b].stood, closures[i].isActive,
             NEW s \in w \cup {[from |-> now, to |-> now + 1]}
      PROVE  \/ s.to <= closures[i].startsAt
             \/ closures[i].endsAt # Null /\ closures[i].endsAt <= s.from
  <2>1. PICK c : c = closures[i]
    OBVIOUS
  <2>2. c \in ClosureRow /\ c \in cs
    BY <1>1, <1>5, <2>1
    DEF ChannelInv, Rows, BookingSound, AssertResourceChannelOpen, NoClosure
  <2>3. /\ c.startsAt \in Int /\ c.endsAt \in Int \cup {Null} /\ c.isActive
        /\ ClosureEnd(c) = IF c.endsAt = Null THEN FAR_FUTURE_DATE ELSE c.endsAt
    BY <1>5, <2>1, <2>2 DEF ClosureRow, MaybeTime, ClosureEnd, OrElse
  <2>4. FAR_FUTURE_DATE \in Int
    BY DEF FAR_FUTURE_DATE, DAY
  <2>5. CASE s \in w
    <3>1. /\ Hull(w).from \in Int /\ Hull(w).from <= s.from
          /\ Hull(w).to \in Int /\ s.to <= Hull(w).to
      BY <2>5, HullIs DEF Assumptions
    <3>2. s.from \in Int /\ s.to \in Int /\ s.from < FAR_FUTURE_DATE
      BY <2>5 DEF Assumptions, HasHull
    <3>3. ~(c.startsAt < Hull(w).to /\ Hull(w).from < ClosureEnd(c))
      BY <1>3, <2>2, <2>3 DEF OverlappingClosures
    <3> QED
      BY <2>1, <2>3, <2>4, <3>1, <3>2, <3>3
  <2>6. CASE s = [from |-> now, to |-> now + 1]
    <3>1. s.from = now /\ s.to = now + 1
      BY <2>6
    <3>2. ~(c.startsAt <= now /\ now < ClosureEnd(c))
      BY <1>3, <2>2, <2>3 DEF CurrentClosures
    <3> QED
      BY <1>4, <2>1, <2>3, <2>4, <3>1, <3>2
  <2> QED
    BY <2>5, <2>6
<1> QED
  BY <1>1, <1>5 DEF OutsideClosures

\* Nothing else lets a reservation through.
LEMMA OnlyAssertPasses ==
  ASSUME Assumptions, ChannelInv, [Next]_vars, NEW b \in Booking, PassesThrough(b)
  PROVE  AssertResourceChannelOpen(b)
<1>1. ~UNCHANGED booking
  BY DEF PassesThrough
<1>2. ASSUME NEW a \in Admin, Administer(a)
      PROVE  booking'[b].pc = booking[b].pc
  <2>1. ASSUME NEW i, NEW row, WriteRule(i, row)
        PROVE  booking'[b].pc = booking[b].pc
    <3>1. booking'[b] = [booking[b] EXCEPT !.ruled = FALSE]
      BY <2>1 DEF WriteRule
    <3> QED
      BY <3>1
  <2>2. ASSUME NEW i, NEW row, WriteClosure(i, row)
        PROVE  booking'[b].pc = booking[b].pc
    <3>1. booking'[b] = [booking[b] EXCEPT !.stood = @ \ {i}]
      BY <2>2 DEF WriteClosure
    <3> QED
      BY <3>1
  <2> QED
    BY <1>1, <1>2, <2>1, <2>2 DEF Administer, CreateReleaseRule, UpdateReleaseRule,
      CreateBookingClosure, FindClosure, UpdateBookingClosure, DeleteBookingClosure
<1>3. ASSUME NEW c \in Booking, ReadRules(c) \/ ReadClosures(c) \/ AssertResourceChannelOpen(c),
             c # b
      PROVE  booking'[b] = booking[b]
  <2>1. PICK h : booking' = [booking EXCEPT ![c] = h]
    BY <1>3 DEF ReadRules, ReadClosures, AssertResourceChannelOpen
  <2> QED
    BY <1>3, <2>1 DEF ChannelInv, Rows
<1>4. ASSUME ReadRules(b)
      PROVE  booking'[b].pc = "rules"
  <2>1. PICK w : booking'[b] = [booking[b] EXCEPT !.pc = "rules", !.wish = w, !.rules = TheRules,
                                                  !.stood = ClosureId, !.ruled = TRUE]
    BY <1>4 DEF ReadRules, ChannelInv, Rows
  <2> QED
    BY <2>1
<1>5. ASSUME ReadClosures(b)
      PROVE  booking'[b].pc = "closures"
  <2>1. booking'[b] = [booking[b] EXCEPT !.pc = "closures", !.closures = TheClosures]
    BY <1>5 DEF ReadClosures, ChannelInv, Rows
  <2> QED
    BY <2>1
<1> QED
  BY <1>1, <1>2, <1>3, <1>4, <1>5 DEF Next, PassesThrough, Tick, vars

-----------------------------------------------------------------------------
(* The invariant *)

\* The channel starts sound,
LEMMA InitSound ==
  ASSUME Assumptions, Init
  PROVE  ChannelInv
<1>1. Rows
  <2>1. clock \in DOMAIN Moments
    BY DEF Init, Rows, Assumptions
  <2> QED
    BY <2>1 DEF Init, Rows, Assumptions
<1>2. ClosuresAreRanges
  BY DEF Init, ClosuresAreRanges, Assumptions
<1>3. \A a \in Admin : DeskSound(desk[a])
  BY IdleIsSound DEF Init
<1>4. \A b \in Booking : BookingSound(booking[b])
  BY DEF Init, BookingSound, BookingPc, NewBooking
<1> QED
  BY <1>1, <1>2, <1>3, <1>4 DEF ChannelInv

\* every step keeps it so,
LEMMA NextSound ==
  ASSUME Assumptions, ChannelInv, [Next]_vars
  PROVE  ChannelInv'
<1>1. CASE Tick
  <2>1. TheRules' = TheRules
    BY <1>1 DEF Tick, TheRules
  <2>2. Rows' /\ ClosuresAreRanges' /\ \A a \in Admin : DeskSound(desk[a])'
    BY <1>1 DEF Tick, ChannelInv, Rows, ClosuresAreRanges, DeskSound, Assumptions
  <2>3. \A b \in Booking : BookingSound(booking[b])'
    BY <1>1, <2>1 DEF Tick, ChannelInv, BookingSound
  <2> QED
    BY <2>2, <2>3 DEF ChannelInv
<1>2. ASSUME NEW a \in Admin, Administer(a)
      PROVE  ChannelInv'
  BY <1>2, ReleaseRuleKeeps, CreateClosureKeeps, FindClosureKeeps, UpdateClosureKeeps,
     DeleteClosureKeeps DEF Administer
<1>3. ASSUME NEW b \in Booking, ReadRules(b) \/ ReadClosures(b) \/ AssertResourceChannelOpen(b)
      PROVE  ChannelInv'
  BY <1>3, ReadRulesKeeps, ReadClosuresKeeps, AssertKeeps
<1>4. CASE UNCHANGED vars
  BY <1>4 DEF vars, ChannelInv, Rows, ClosuresAreRanges, DeskSound, BookingSound, TheRules
<1> QED
  BY <1>1, <1>2, <1>3, <1>4 DEF Next

\* and it is so throughout.
LEMMA ChannelStays ==
  ASSUME Assumptions
  PROVE  Spec => []ChannelInv
<1>1. Init => ChannelInv
  BY InitSound
<1>2. ChannelInv /\ [Next]_vars => ChannelInv'
  BY NextSound
<1> QED
  BY <1>1, <1>2, PTL DEF Spec

\* The invariant has the types.
LEMMA ChannelTypes == ChannelInv => TypeOK
BY DEF ChannelInv, Rows, TypeOK, RuleRow, Frequency, ClosureRow, DeskSound, DeskPc, BookingSound,
       BookingPc

-----------------------------------------------------------------------------
(* Releases *)

\* Rows that are there are rules, and the time is in a month.
LEMMA RulesAre ==
  ASSUME Assumptions, ChannelInv
  PROVE  TheRules \subseteq RuleRow /\ Active(TheRules) \subseteq TheRules /\ Timed(now)
<1>1. \A i \in RuleId : rules[i] # NoRow => rules[i] \in RuleRow
  BY DEF ChannelInv, Rows
<1>2. Timed(now)
  BY DEF ChannelInv, Rows, Assumptions, now
<1> QED
  BY <1>1, <1>2 DEF TheRules, Active

\* Some cycle of active rules is the first to be released.
LEMMA FirstRelease ==
  ASSUME Assumptions, NEW R \in SUBSET RuleRow, R # {}, NEW t, Timed(t)
  PROVE  LET S == {CurrentRelease(r, t) : r \in R}
         IN S \subseteq Int /\ Min(S) \in S /\ \A x \in S : Min(S) <= x
<1> DEFINE S == {CurrentRelease(r, t) : r \in R}
           low == (DayOf(t) - 31) * DAY
           T == {x - low : x \in S}
<1>1. t \in Int /\ DayOf(t) \in Int /\ low \in Int
  <2>1. t \in Int
    BY DEF Timed
  <2>2. DayOf(t) \in Int
    BY <2>1, DaysAreOrdered
  <2> QED
    BY <2>1, <2>2 DEF DAY
<1>2. \A x \in S : x \in Int /\ low <= x
  <2> TAKE x \in S
  <2>1. PICK r \in R : x = CurrentRelease(r, t)
    OBVIOUS
  <2>2. PICK d \in Int : x = d * DAY + r.time /\ DayOf(t) - 31 <= d
    BY <2>1, CurrentIsRight
  <2>3. r.time \in 0..(DAY - 1)
    BY DEF RuleRow
  <2> QED
    BY <1>1, <2>2, <2>3 DEF DAY
<1> HIDE DEF low
<1>3. T \in SUBSET Nat /\ T # {}
  <2>1. \A x \in S : x - low \in Nat
    BY <1>1, <1>2
  <2>2. S # {}
    OBVIOUS
  <2> HIDE DEF S
  <2> QED
    BY <2>1, <2>2
<1>4. \E m \in S : \A x \in S : m <= x
  <2> HIDE DEF S
  <2>1. PICK y \in T : \A z \in T : y <= z
    <3> HIDE DEF T
    <3> QED
      BY <1>3, LeastNat
  <2>2. PICK m \in S : y = m - low
    BY <2>1
  <2>3. \A x \in S : m - low <= x - low
    BY <2>1, <2>2
  <2> QED
    BY <1>1, <1>2, <2>2, <2>3
<1>5. Min(S) \in S /\ \A x \in S : Min(S) <= x
  <2> HIDE DEF S
  <2> QED
    BY <1>4 DEF Min
<1> QED
  BY <1>2, <1>5

\* For every rule and at every moment, the releases of this cycle and of the next one
\* are on their days.
LEMMA CyclesHold ==
  ASSUME Assumptions, ChannelInv
  PROVE  CyclesAreRight
<1> SUFFICES ASSUME NEW r \in TheRules
             PROVE  LET d == DayOf(CurrentRelease(r, now))
                        e == DayOf(NextRelease(r, now))
                    IN /\ SameCycle(r, d, DayOf(now)) /\ IsReleaseDay(r, d)
                       /\ d < e /\ IsReleaseDay(r, e)
                       /\ \A f \in (d + 1)..(e - 1) : ~IsReleaseDay(r, f)
  BY DEF CyclesAreRight
<1>1. r \in RuleRow /\ Timed(now)
  BY RulesAre
<1> QED
  BY <1>1, CurrentIsRight, NextIsRight

\* A step keeps the time or takes it to the next moment.
LEMMA TimeGoesOn ==
  ASSUME Assumptions, ChannelInv, [Next]_vars
  PROVE  now' \in Int /\ now \in Int /\ now <= now' /\ Timed(now)'
<1>1. clock \in DOMAIN Moments /\ clock' \in DOMAIN Moments
  BY NextSound DEF ChannelInv, Rows
<1>2. clock' = clock \/ clock' = clock + 1
  BY DEF Next, vars, Tick, Administer, CreateReleaseRule, UpdateReleaseRule,
         CreateBookingClosure, FindClosure, UpdateBookingClosure, DeleteBookingClosure,
         ReadRules, ReadClosures, AssertResourceChannelOpen
<1>3. Timed(Moments[clock]) /\ Timed(Moments[clock'])
  BY <1>1 DEF Assumptions
<1>4. Moments[clock] \in Int /\ Moments[clock'] \in Int
  BY <1>3 DEF Timed
<1>5. Moments[clock] <= Moments[clock']
  BY <1>1, <1>2, <1>4 DEF Assumptions
<1> QED
  BY <1>3, <1>4, <1>5 DEF now, Timed, InMonth

\* Between two times up to the first release, a channel that is scheduled stays so, if no
\* closure begins; at that release it is scheduled no more.
LEMMA ScheduleHolds ==
  ASSUME Assumptions, NEW R \in SUBSET RuleRow, NEW cs, NEW s, NEW t, Timed(s), Timed(t), s <= t,
         Snapshot(R, cs, s).status = "SCHEDULED"
  PROVE  LET next == Snapshot(R, cs, s).next IN
         /\ next \in Int
         /\ t < next => \/ Snapshot(R, cs, t).status = "CLOSED"
                        \/ Snapshot(R, cs, t).status = "SCHEDULED" /\ Snapshot(R, cs, t).next = next
         /\ t = next => Snapshot(R, cs, t).status # "SCHEDULED"
<1> DEFINE A == Active(R)
           S == {CurrentRelease(r, s) : r \in A}
           next == Snapshot(R, cs, s).next
<1>1. /\ CurrentClosures(cs, s) = {} /\ A # {} /\ Released(R, s) = {}
      /\ next = Min(S)
  BY DEF Snapshot
<1>2. A \in SUBSET RuleRow
  BY DEF Active
<1>3. S \subseteq Int /\ next \in S /\ \A x \in S : next <= x
  <2>1. LET U == {CurrentRelease(r, s) : r \in A}
        IN U \subseteq Int /\ Min(U) \in U /\ \A x \in U : Min(U) <= x
    BY <1>1, <1>2, FirstRelease
  <2> QED
    BY <1>1, <2>1
<1>4. s \in Int /\ t \in Int
  BY DEF Timed
<1> HIDE DEF A, next
<1>5. ASSUME NEW r \in A, t <= CurrentRelease(r, s)
      PROVE  CurrentRelease(r, t) = CurrentRelease(r, s)
  BY <1>2, <1>5, ReleaseStays
<1>6. ASSUME t < next
      PROVE  \/ Snapshot(R, cs, t).status = "CLOSED"
             \/ Snapshot(R, cs, t).status = "SCHEDULED" /\ Snapshot(R, cs, t).next = next
  <2>1. \A r \in A : t < CurrentRelease(r, s) /\ CurrentRelease(r, t) = CurrentRelease(r, s)
    <3> TAKE r \in A
    <3>1. CurrentRelease(r, s) \in Int /\ next <= CurrentRelease(r, s) /\ next \in Int
      BY <1>3
    <3>2. t < CurrentRelease(r, s) /\ t <= CurrentRelease(r, s)
      BY <1>4, <1>6, <3>1
    <3> QED
      BY <1>5, <3>2
  <2>2. Released(R, t) = {}
    <3>1. ASSUME NEW r \in A PROVE ~(CurrentRelease(r, t) <= t)
      <4>1. CurrentRelease(r, s) \in Int
        BY <1>3
      <4> QED
        BY <1>4, <2>1, <4>1
    <3> QED
      BY <3>1 DEF Released, A
  <2>3. {CurrentRelease(r, t) : r \in A} = S
    BY <2>1
  <2> QED
    BY <1>1, <2>2, <2>3 DEF Snapshot, A
<1>7. ASSUME t = next
      PROVE  Snapshot(R, cs, t).status # "SCHEDULED"
  <2>1. PICK r \in A : next = CurrentRelease(r, s)
    BY <1>3
  <2>2. CurrentRelease(r, t) = t
    BY <1>4, <1>5, <1>7, <2>1
  <2>3. r \in Released(R, t)
    BY <1>4, <2>1, <2>2 DEF Released, A
  <2> QED
    BY <2>3 DEF Snapshot
<1> QED
  BY <1>3, <1>6, <1>7 DEF next

\* A step keeps what the channel is scheduled for.
LEMMA ScheduleStays ==
  ASSUME Assumptions, ChannelInv, [Next]_vars
  PROVE  KeepsSchedule
<1> SUFFICES ASSUME Channel.status = "SCHEDULED", UNCHANGED <<rules, closures>>
             PROVE  IF now' < Channel.next
                    THEN \/ Channel'.status = "CLOSED"
                         \/ Channel'.status = "SCHEDULED" /\ Channel'.next = Channel.next
                    ELSE now' = Channel.next => Channel'.status # "SCHEDULED"
  BY DEF KeepsSchedule
<1>1. PICK R, cs, s, t : R = TheRules /\ cs = TheClosures /\ s = now /\ t = now'
  OBVIOUS
<1>2. TheRules' = R /\ TheClosures' = cs
  BY <1>1 DEF TheRules, TheClosures
<1>3. Channel = Snapshot(R, cs, s) /\ Channel' = Snapshot(R, cs, t)
  BY <1>1, <1>2 DEF Channel
<1>4. R \in SUBSET RuleRow /\ Timed(s)
  BY <1>1, RulesAre
<1>5. s <= t /\ Timed(t)
  <2>1. Timed(now)' <=> Timed(now')
    BY DEF Timed, InMonth
  <2> QED
    BY <1>1, <2>1, TimeGoesOn
<1> QED
  BY <1>1, <1>3, <1>4, <1>5, ScheduleHolds

\* What is let through while nobody writes a rule is after the release of one.
LEMMA AssertIsReleased ==
  ASSUME Assumptions, ChannelInv, NEW b \in Booking, AssertResourceChannelOpen(b),
         booking'[b].pc = "through", booking[b].ruled
  PROVE  SomeRuleReleased
<1>1. booking[b].rules = TheRules
  BY DEF ChannelInv, BookingSound, AssertResourceChannelOpen
<1>2. PICK cs, from, to : Block(TheRules, cs, from, to, now) = "none"
  <2>1. PICK block, cs, from, to :
          /\ block = Block(TheRules, cs, from, to, now)
          /\ booking' = [booking EXCEPT ![b].pc = IF block = "none" THEN "through" ELSE "refused"]
    BY <1>1 DEF AssertResourceChannelOpen
  <2>2. booking'[b].pc = IF block = "none" THEN "through" ELSE "refused"
    <3>1. "pc" \in DOMAIN booking[b]
      BY DEF ChannelInv, Rows, NewBooking
    <3>2. booking'[b] = [booking[b] EXCEPT !.pc = IF block = "none" THEN "through" ELSE "refused"]
      BY <2>1 DEF ChannelInv, Rows
    <3> QED
      BY <3>1, <3>2
  <2> QED
    BY <2>1, <2>2
<1>3. Snapshot(TheRules, cs, now).status \notin {"SCHEDULED", "CLOSED"}
  BY <1>2 DEF Block
<1>4. Active(TheRules) = {} \/ Released(TheRules, now) # {}
  BY <1>3 DEF Snapshot
<1>5. ASSUME NEW r \in Released(TheRules, now)
      PROVE  \E d \in (DayOf(now) - 31)..DayOf(now) :
               SameCycle(r, d, DayOf(now)) /\ IsReleaseDay(r, d) /\ d * DAY + r.time <= now
  <2>1. r \in RuleRow /\ CurrentRelease(r, now) <= now /\ Timed(now) /\ now \in Int
    BY RulesAre DEF Released, Timed
  <2>2. PICK d \in Int : /\ CurrentRelease(r, now) = d * DAY + r.time
                         /\ DayOf(CurrentRelease(r, now)) = d
                         /\ SameCycle(r, d, DayOf(now)) /\ IsReleaseDay(r, d)
                         /\ DayOf(now) - 31 <= d
    BY <2>1, CurrentIsRight
  <2>3. r.time \in 0..(DAY - 1)
    BY <2>1 DEF RuleRow
  <2>4. d * DAY + r.time \in Int
    BY <2>3, DayIs
  <2>5. d <= DayOf(now) /\ DayOf(now) \in Int
    BY <2>1, <2>2, <2>4, DaysAreOrdered
  <2> QED
    BY <2>1, <2>2, <2>5
<1> QED
  BY <1>4, <1>5 DEF SomeRuleReleased, Released

\* A step lets through only what it may.
LEMMA PassesRightly ==
  ASSUME Assumptions, ChannelInv, [Next]_vars
  PROVE  LetsThroughRightly
<1>1. ASSUME NEW b \in Booking, PassesThrough(b)
      PROVE  OutsideClosures(b) /\ (booking[b].ruled => SomeRuleReleased)
  BY <1>1, OnlyAssertPasses, AssertIsRight, AssertIsReleased DEF PassesThrough
<1> QED
  BY <1>1 DEF LetsThroughRightly

-----------------------------------------------------------------------------
(* Theorems *)

\* Whatever administrators change at once, a closure ends after it starts
\* (updateBookingClosure, which writes what it checked, the row it found included).
THEOREM ClosuresRight ==
  ASSUME Assumptions
  PROVE  Spec => []ClosuresAreRanges
<1>1. ChannelInv => ClosuresAreRanges
  BY DEF ChannelInv
<1> QED
  BY <1>1, ChannelStays, PTL

\* The rows, the requests of administrators and the reservations keep their types: what a
\* payload makes of a rule is a rule with a frequency, a time and days there are.
THEOREM TypeCorrect ==
  ASSUME Assumptions
  PROVE  Spec => []TypeOK
<1>1. ChannelInv => TypeOK
  BY ChannelTypes
<1> QED
  BY <1>1, ChannelStays, PTL

\* resolveCycleReleaseMoments: every release is on the release day of its cycle, in months
\* too short for it and in weeks that cross a month too, and the next one is the first
\* after it.
THEOREM CyclesRight ==
  ASSUME Assumptions
  PROVE  Spec => []CyclesAreRight
<1>1. ChannelInv => CyclesAreRight
  BY CyclesHold
<1> QED
  BY <1>1, ChannelStays, PTL

\* buildResourceChannelSnapshot: a channel that is shown as scheduled for a moment does not
\* open before it, and is scheduled no more at it, unless the rows change.
THEOREM OpensRight ==
  ASSUME Assumptions
  PROVE  Spec => OpensOnTime
<1>1. ChannelInv /\ [Next]_vars => KeepsSchedule
  BY ScheduleStays
<1> QED
  BY <1>1, ChannelStays, PTL DEF Spec, OpensOnTime

\* A reservation that assertResourceChannelOpen lets through has no slot in an active
\* closure that stood since its request began, and is not let through during one, and not
\* before the release of some rule, if nobody wrote one since: the rows are read in two
\* queries, the clock and the administrators go on in between.
THEOREM ChannelRight ==
  ASSUME Assumptions
  PROVE  Spec => ChannelHolds
<1>1. ChannelInv /\ [Next]_vars => LetsThroughRightly
  BY PassesRightly
<1> QED
  BY <1>1, ChannelStays, PTL DEF Spec, ChannelHolds
===============================================================================
