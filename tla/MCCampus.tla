------------------------------ MODULE MCCampus ------------------------------
(***************************************************************************)
(* The settings of Campus for TLC: for each scope rows, requests and times *)
(* few enough to see every interleaving of them, and enough to meet.       *)
(***************************************************************************)
EXTENDS Campus, TLC

CONSTANTS x1, x2, y1, y2, y3, z1, z2, p1, p2, q1, q2, u1, u2

\* Two workspaces that differ in nothing, and that no other scope has.
Twins == Permutations({q1, q2})

-----------------------------------------------------------------------------
(* Release rules and closures: December to March, of a winter whose December *)
(* 1 is a Friday and whose February has 28 days.                             *)

Minutes == 24 * 60
Jan10 == 40 * Minutes
MonthStarts == <<0, 31, 62, 90, 121>>
Winter == [MonthStart |-> MonthStarts, FirstWeekday |-> 5]

Rule(f, w, m, t) ==
    [frequency |-> f, dayOfWeek |-> w, dayOfMonth |-> m, time |-> t, isActive |-> TRUE]
Patch(f, w, t, on) ==
    [frequency |-> f, dayOfWeek |-> w, dayOfMonth |-> None, time |-> t, isActive |-> on]
Closure(from, to) == [startsAt |-> from, endsAt |-> to, isActive |-> TRUE]
ClosurePatch(from, to, on) == [startsAt |-> from, endsAt |-> to, isActive |-> on]

\* Two rules of any kind, on every day of January and February, at the times of day at
\* which something can change.
AnyRule == <<Rule("DAILY", None, None, 600),
             Rule("WEEKLY", 0, None, 540), Rule("WEEKLY", 3, None, 540),
             Rule("WEEKLY", 6, None, 540),
             Rule("MONTHLY", None, 1, 480), Rule("MONTHLY", None, 29, 480),
             Rule("MONTHLY", None, 30, 480), Rule("MONTHLY", None, 31, 480)>>
TwoRules == {x1 :> AnyRule[n[1]] @@ x2 :> AnyRule[n[2]] :
                n \in {pair \in (1..8) \X (1..8) : pair[1] <= pair[2]}}
TimesOfDay == <<0, 479, 480, 540, 600>>

MonthMoments ==
    [n \in 1..295 |-> (31 + (n - 1) \div 5) * Minutes + TimesOfDay[1 + ((n - 1) % 5)]]

MonthsSetting == Winter @@
    [RuleId |-> {x1, x2}, ClosureId |-> {y1}, InitialRules |-> TwoRules,
     InitialClosures |-> {y1 :> [startsAt |-> None, endsAt |-> None, isActive |-> FALSE],
                          y1 :> Closure(31 * Minutes, 62 * Minutes + 540)},
     Moments |-> MonthMoments,
     Admin |-> {}, RulePatches |-> {}, ClosurePatches |-> {}, Booking |-> {}, Wishes |-> {}]

ClosurePatchesOfDay ==
    {ClosurePatch(Jan10 + 700, None, None), ClosurePatch(None, Jan10 + 660, None),
     ClosurePatch(None, None, FALSE)}
Span(from, to) == [from |-> Jan10 + from, to |-> Jan10 + to]

NoRuleOrDaily == {x1 :> [frequency |-> "none"], x1 :> Rule("DAILY", None, None, 540)}

OneDay == Winter @@
    [RuleId |-> {x1}, ClosureId |-> {y1}, InitialRules |-> NoRuleOrDaily,
     InitialClosures |-> {y1 :> Closure(Jan10 + 600, Jan10 + 720)},
     Moments |-> <<Jan10 + 480, Jan10 + 540, Jan10 + 610>>,
     ClosurePatches |-> ClosurePatchesOfDay]

\* One day: two administrators change the closure,
EditorsSetting == OneDay @@
    [Admin |-> {p1, p2}, RulePatches |-> {}, Booking |-> {}, Wishes |-> {}]

\* or one of them everything, while a reservation is made.
ClientsSetting == OneDay @@
    [Admin |-> {p1},
     RulePatches |-> {Patch("WEEKLY", 3, 540, None), Patch(None, None, None, FALSE)},
     Booking |-> {z1}, Wishes |-> {{Span(540, 600), Span(660, 720)}, {Span(610, 650)}}]

-----------------------------------------------------------------------------
(* The catalogue: two administrators and a reservation. *)

CatalogueSetting ==
    [ResourceId |-> {x1, x2}, UnitId |-> {y1}, GroupId |-> {y2}, Admin |-> {p1, p2},
     Guest |-> {z1}]

-----------------------------------------------------------------------------
(* Activities: two workspaces. *)

OneActivity ==
    [ActivityId |-> {1}, TicketId |-> {y1, y2, y3}, Amount |-> {2}, Default |-> 1,
     Browser |-> {p1, p2}, Author |-> {p1}]

TwoActivities ==
    [ActivityId |-> {1, 2}, TicketId |-> {y1, y2}, Amount |-> {}, Default |-> 1,
     Browser |-> {p1, p2}, Author |-> {p1}]

-----------------------------------------------------------------------------
(* Service requests and notices: one that two administrators work on, or two in one *)
(* workspace.                                                                       *)

OneRequest ==
    [RequestId |-> {1}, Browser |-> {q1, q2}, MaxTime |-> 2,
     Offered |-> {"received", "resolved"}]

TwoRequests == [OneRequest EXCEPT !.RequestId = {1, 2}, !.Browser = {p1}, !.MaxTime = 1]

OneNotice == [NoticeId |-> {1}, Browser |-> {q1, q2}, MaxTime |-> 2]

TwoNotices == [NoticeId |-> {1, 2}, Browser |-> {p1}, MaxTime |-> 2]

-----------------------------------------------------------------------------
(* The rule book: two administrators change a rule, *)

Text(t, k, v, s) == [type |-> t, kind |-> k, value |-> v, status |-> s]

Edits == {Text("max_duration_minutes", "max", 2, None), Text(None, "max", 1, None),
          Text("min_credit_score", None, None, None), Text("min_credit_score", "min", 1, None),
          Text("max_active_reservations_per_category", None, None, "INACTIVE"),
          Text(None, None, None, "ACTIVE")}
OneDuration == {x1 :> Text("max_duration_minutes", "max", 2, "ACTIVE")}

RuleEditorsSetting ==
    [RuleId |-> {x1}, ResourceId |-> {y1}, InitialRules |-> OneDuration, Admin |-> {p1, p2},
     Payload |-> Edits, Guest |-> {}, Profile |-> {}, User |-> {}, Evaluation |-> {},
     MaxTime |-> 1]

\* one of them changes a rule of any type while somebody is judged by it,
OneOfAny == {x1 :> Text("min_credit_score", "min", 1, "ACTIVE"),
             x1 :> Text("max_active_reservations_per_category", "max", 1, "ACTIVE"),
             x1 :> Text("max_duration_minutes", "max", 1, "ACTIVE"),
             x1 :> Text("allowed_user_roles", "roles", {"admin"}, "INACTIVE")}
Switches == {Text(None, None, None, "INACTIVE"), Text(None, None, None, "ACTIVE"),
             Text(None, "max", 2, None)}
Student(s, score, duration, active) ==
    [scope |-> s, resource |-> y1, users |-> {u1}, role |-> "student", score |-> score,
     duration |-> duration, active |-> active]
Students == {Student(s, score, duration, active) :
    s \in {"reservation", "activity_registration"}, score \in {0, 1}, duration \in {1, 2},
    active \in {0, 1}}

AdmissionSetting ==
    [RuleId |-> {x1}, ResourceId |-> {y1}, InitialRules |-> OneOfAny, Admin |-> {p1},
     Payload |-> Switches, Guest |-> {z1}, Profile |-> Students, User |-> {u1},
     Evaluation |-> {}, MaxTime |-> 1]

\* two evaluations penalise two users by two rules,
Ban(days) == Text("no_show_credit_penalty", "penalty", days, "ACTIVE")
TwoBans == {(x1 :> Ban(a) @@ x2 :> Ban(b)) : a \in {0, 1, 2}, b \in {0, 1}}

PenaltiesSetting ==
    [RuleId |-> {x1, x2}, ResourceId |-> {y1}, InitialRules |-> TwoBans, Admin |-> {},
     Payload |-> {}, Guest |-> {}, Profile |-> {}, User |-> {u1, u2},
     Evaluation |-> {z1, z2}, MaxTime |-> 2]

\* or one user by a rule that is bound, unbound and deleted, while that user reserves.
OneBan == {x1 :> Ban(days) : days \in {0, 1, 2}}
OneStudent == {Student("reservation", 1, 1, 0)}

BansSetting ==
    [RuleId |-> {x1}, ResourceId |-> {y1}, InitialRules |-> OneBan, Admin |-> {p1},
     Payload |-> {}, Guest |-> {z1}, Profile |-> OneStudent, User |-> {u1},
     Evaluation |-> {z1, z2}, MaxTime |-> 2]

-----------------------------------------------------------------------------
(* The rules workspace and the resources workspace: two resources, or their one unit. *)

RulesPageSetting == [RuleId |-> {1, 2}, MaxCall |-> 2, New |-> x1]

TwoResources ==
    [ResourceId |-> {x1, x2}, UnitId |-> {}, Code |-> {y1, y2}, AreaOf |-> y1 :> 1 @@ y2 :> 2,
     Kind |-> {"createResource", "saveResource", "deleteResource"}, MaxCall |-> 2]

OneUnit ==
    [TwoResources EXCEPT !.UnitId = {z1}, !.MaxCall = 1,
        !.Kind = {"saveResource", "deleteResource", "createUnit", "saveUnit", "deleteUnit"}]

-----------------------------------------------------------------------------
(* The booking pages: a room and one other reservation; three courts, two of them in  *)
(* each of two groups.                                                                *)

Interval(from, to) == [from |-> from, to |-> to]
Entered == {Interval(a, a + 1) : a \in 0..7} \cup {Interval(a, a + 2) : a \in 0..6}
           \cup {Interval(3, 2)}
RoomClosures == {Interval(0, 2), Interval(4, 5), Interval(6, None)}

RoomSetting ==
    [Horizon |-> 8, Buffer |-> 1, Width |-> 2, Stride |-> 1, Displays |-> {2, 3, 4},
     Ranges |-> Entered, OrderId |-> {x1}, Closures |-> RoomClosures]

CourtsSetting ==
    [Unit |-> {y1, y2, y3}, Group |-> {{y1, y2}, {y2, y3}}, Hour |-> 0..3, Width |-> 2,
     Occupied |-> {{}, {<<y1, 2>>}, {<<y2, 1>>, <<y3, 3>>}}, Closed |-> {{}, {3}},
     Threshold |-> 1]

-----------------------------------------------------------------------------
Settings ==
    [months |-> MonthsSetting, editors |-> EditorsSetting, clients |-> ClientsSetting,
     catalogue |-> CatalogueSetting,
     oneActivity |-> OneActivity, twoActivities |-> TwoActivities,
     oneRequest |-> OneRequest, twoRequests |-> TwoRequests,
     oneNotice |-> OneNotice, twoNotices |-> TwoNotices,
     ruleEditors |-> RuleEditorsSetting, admission |-> AdmissionSetting,
     penalties |-> PenaltiesSetting, bans |-> BansSetting,
     rulesPage |-> RulesPageSetting, resourcesPage |-> TwoResources, unitsPage |-> OneUnit,
     room |-> RoomSetting, courts |-> CourtsSetting]
=============================================================================
