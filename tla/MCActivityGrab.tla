--------------------------- MODULE MCActivityGrab ---------------------------
(* Instances of ActivityGrab for TLC. *)
EXTENDS ActivityGrab, TLC

CONSTANTS u1, u2, t1, t2, q1, q2, w1, w2

\* One place of each ticket.
OneEach == [t \in Ticket |-> 1]

\* Users, handlers and slots are interchangeable in every property; the tickets
\* are not (one may be paid).
UserSymmetry == Permutations({u1, u2}) \cup Permutations({q1, q2})
                    \cup Permutations({w1, w2})
ActorSymmetry == Permutations({q1, q2}) \cup Permutations({w1, w2})

\* One grab after the other while the sale stays open: a request starts when no job
\* and no release of an earlier one is left, and no registration of its user stands.
OneByOne ==
    \A q \in Req : req[q].pc = "idle" /\ req'[q].pc # "idle" =>
        /\ \A j \in DOMAIN job : job[j] \notin {"waiting", "active"}
        /\ ActiveOf(req'[q].user) = {}
        /\ release = {}

OneByOneSpec == Init /\ [][Next /\ UNCHANGED onSale /\ OneByOne]_vars
=============================================================================
