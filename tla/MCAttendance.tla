---------------------------- MODULE MCAttendance ----------------------------
(* Instances of Attendance for TLC. *)
EXTENDS Attendance, TLC

CONSTANTS u1, u2, h1, s1, s2

SlotSymmetry == Permutations({s1, s2})

\* Two reservations that two users made for each other, or the second one for herself.
Both == 1 :> {u1, u2} @@ 2 :> {u1, u2}
OneAlone == 1 :> {u1, u2} @@ 2 :> {u2}
EachHost == 1 :> u1 @@ 2 :> u2
=============================================================================
