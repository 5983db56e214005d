--------------------------- MODULE MCReservation ----------------------------
(* Instances of Reservation for TLC. *)
EXTENDS Reservation, TLC

CONSTANTS r1, r2, r3, room, a, b, u1, u2

At(t) == [at |-> t, spelling |-> "utc"]

Academic(u, t, len) ==
    [kind |-> "academic", user |-> u, units |-> <<room>>, starts |-> {At(t)}, length |-> len]

Sports(u, units, starts) ==
    [kind |-> "sports", user |-> u, units |-> units, starts |-> starts, length |-> 0]

\* r1 and r2 meet in the room with a gap of five or ten minutes, and at the courts as
\* two groups of opposite orders; r3 asks for the time of r1, for an end that is not
\* after its start, for a slot off the hour, and for an hour spelled twice.
WishOf ==
    r1 :> {Academic(u1, 0, 60), Sports(u1, <<a>>, {At(0), At(60)}), Sports(u1, <<b, a>>, {At(60)})}
    @@ r2 :> {Academic(u2, 65, 30), Academic(u2, 70, 30), Sports(u2, <<a, b>>, {At(60)})}
    @@ r3 :> {Academic(u1, 0, 60), Academic(u1, 60, 0), Sports(u1, <<a>>, {At(30)}),
              Sports(u1, <<b>>, {At(60), [at |-> 60, spelling |-> "offset"]}),
              Sports(u1, <<a>>, {At(60)})}
=============================================================================
