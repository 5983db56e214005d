----------------------------- MODULE Attendance -----------------------------
(***************************************************************************)
(* Reservations after they are made: participants check in, the order is   *)
(* cancelled or marked by hand, or the attendance job evaluates it when    *)
(* the check-in window has closed, and penalises its participants if       *)
(* nobody came.  Every query of a handler or of the job is a step, and so  *)
(* is every row of the job's transaction that another one may hold; a      *)
(* transaction's changes are kept by its slot until it commits.            *)
(***************************************************************************)
EXTENDS Integers, FiniteSets

CONSTANTS
    Order,    \* confirmed reservations, numbered in the order of their creation
    User,
    Host,     \* who made an order
    Party,    \* its participants: the host and the companions
    Handler,  \* API handlers that may be in flight at once
    Slot,     \* slots of the attendance worker (its concurrency)
    Start,    \* the credit score users start with
    Delta,    \* scoreDelta of the no_show_credit_penalty rule
    Limit,    \* DEFAULT_REHYDRATE_LIMIT
    Faults,   \* the faults this instance allows
    None      \* "nobody", "nothing"

\* "api": an API handler dies, or a call of it fails.  "db": a query of the job
\* fails.  "redis": a call that schedules or removes a job fails.  "worker": the
\* worker process dies.  "stall": BullMQ takes a job from a slot that works on it.
FaultKind == {"api", "db", "redis", "worker", "stall"}

ASSUME AttendanceAssumption ==
    /\ Order \subseteq Nat
    /\ Party \in [Order -> SUBSET User]
    /\ \A o \in Order : Host[o] \in Party[o]
    /\ IsFiniteSet(Order)
    /\ Start \in Nat
    /\ Delta \in Nat \ {0}
    /\ Limit \in Nat
    /\ Faults \subseteq FaultKind
    /\ None \notin Order \cup User
    /\ Handler \cap Slot = {}
    /\ Slot \cap {"absent", "delayed", "finished"} = {}

Actor == Handler \cup Slot

VARIABLES
    status,     \* Order.status
    version,    \* Order.version
    missed,     \* the orders whose log says reservation-check-in-missed
    closed,     \* the orders whose check-in window has closed
    checked,    \* the participants with a checkedInAt, a time in the window
    late,       \* those whose row was written (updatedAt) after the window
    score,      \* User.creditScore
    penalties,  \* UserCreditLog rows of a user, and violationCount
    job,        \* BullMQ: the attendance job of an order; a slot if one holds it
    act,        \* the handlers and the worker slots
    timer       \* the rehydration timer of the worker process

vars == <<status, version, missed, closed, checked, late, score, penalties, job, act, timer>>
order == <<status, version, missed>>
arrivals == <<checked, late>>
users == <<score, penalties>>
rest == <<closed, timer>>

Status == {"CONFIRMED", "CANCELLED", "NO_SHOW"}
Kind == {"checkIn", "cancel", "noShow", "evaluate"}
InTx == {"charge", "write", "commit"}
Pc == {"idle", "look", "stamp", "transit", "read", "update", "unschedule", "finish"}
      \cup InTx

IdleAct == [pc |-> "idle", kind |-> "none", order |-> None, user |-> None,
            status |-> "none", version |-> 0, charged |-> {}, seen |-> 0,
            after |-> [u \in User |-> 0]]

IdleTimer == [pc |-> "idle", todo |-> {}, order |-> None]

ActRecord ==
    [pc : Pc, kind : Kind \cup {"none"}, order : Order \cup {None},
     user : User \cup {None}, status : Status \cup {"none"}, version : Nat,
     charged : SUBSET User, seen : Nat, after : [User -> Nat]]

\* A handler or a slot at work has an order, and a transaction has changed users of
\* that order only, until all of them are changed.
AtWork(a, x) ==
    /\ x.pc # "idle" => x.order \in Order
    /\ a \in Handler => x.pc \in {"idle", "look", "stamp", "transit", "unschedule"}
    /\ a \in Handler => x.kind # "evaluate"
    /\ a \in Handler /\ x.pc \in {"look", "stamp"} => x.user \in User
    /\ a \in Slot /\ x.pc # "idle" => x.pc \notin {"stamp", "transit"} /\ x.kind = "evaluate"
    /\ x.pc \notin InTx => x.charged = {}
    /\ x.pc \in InTx => x.charged \subseteq Party[x.order]
    /\ x.pc = "write" => x.user \in Party[x.order] \ x.charged
    /\ x.pc = "commit" => x.charged = Party[x.order]

ActType ==
    /\ act \in [Actor -> ActRecord]
    /\ \A a \in Actor : AtWork(a, act[a])

TimerType ==
    /\ timer \in [pc : {"idle", "remove", "add"}, todo : SUBSET Order,
                  order : Order \cup {None}]
    /\ timer.pc = "add" => timer.order \in Order

OrderType ==
    /\ status \in [Order -> Status]
    /\ version \in [Order -> Nat]
    /\ missed \subseteq Order

ArrivalType ==
    /\ closed \subseteq Order
    /\ checked \in [Order -> SUBSET User]
    /\ late \in [Order -> SUBSET User]

UserType ==
    /\ score \in [User -> Nat]
    /\ penalties \in [User -> Nat]

JobType == job \in [Order -> {"absent", "delayed", "finished"} \cup Slot]

TypeOK == OrderType /\ ArrivalType /\ UserType /\ JobType /\ ActType /\ TimerType

\* The reservations are committed, and their handlers have scheduled the evaluation,
\* or failed to, which they only log.
Init ==
    /\ status = [o \in Order |-> "CONFIRMED"]
    /\ version = [o \in Order |-> 0]
    /\ missed = {}
    /\ closed = {}
    /\ checked = [o \in Order |-> {}]
    /\ late = [o \in Order |-> {}]
    /\ score = [u \in User |-> Start]
    /\ penalties = [u \in User |-> 0]
    /\ job \in [Order -> {"delayed"} \cup (IF "redis" \in Faults THEN {"absent"} ELSE {})]
    /\ act = [a \in Actor |-> IdleAct]
    /\ timer = IdleTimer

Become(a, r) == act' = [act EXCEPT ![a] = r]
Go(a, pc) == Become(a, [act[a] EXCEPT !.pc = pc])
Leave(a) == Become(a, IdleAct)

-----------------------------------------------------------------------------
(* Check-in *)

\* checkInReservation is called by a participant; Prisma loads the order and then its
\* participants.  Any other call is refused without a trace.
CheckIn(a, o, u) ==
    /\ a \in Handler
    /\ act[a].pc = "idle"
    /\ u \in Party[o]
    /\ status[o] = "CONFIRMED"
    /\ Become(a, [IdleAct EXCEPT !.pc = "look", !.kind = "checkIn", !.order = o, !.user = u])
    /\ UNCHANGED <<order, arrivals, users, job, rest>>

\* A check-in before the window opens is refused without a trace, like any other call
\* that is refused: the model has the ones that are not.
WindowOpen(o) == o \notin closed

\* The participants are read, and the clock; one who checked in before is answered.
LookAtWindow(a) ==
    LET o == act[a].order IN
    /\ a \in Handler
    /\ act[a].pc = "look"
    /\ IF WindowOpen(o) /\ act[a].user \notin checked[o] THEN Go(a, "stamp") ELSE Leave(a)
    /\ UNCHANGED <<order, arrivals, users, job, rest>>

\* The time that was read is written, whatever has happened to the order meanwhile.
Stamp(a) ==
    LET o == act[a].order IN
    /\ act[a].pc = "stamp"
    /\ checked' = [checked EXCEPT ![o] = @ \cup {act[a].user}]
    /\ late' = [late EXCEPT ![o] = IF o \in closed THEN @ \cup {act[a].user}
                                                   ELSE @ \ {act[a].user}]
    /\ Leave(a)
    /\ UNCHANGED <<order, users, job, rest>>

-----------------------------------------------------------------------------
(* Cancellation, and NO_SHOW by hand *)

\* The slots whose transaction has updated an order, or a user.
HoldersOf(o) == {a \in Slot : act[a].pc \in InTx /\ act[a].order = o}
HoldersOfUser(u) == {a \in Slot : u \in act[a].charged}

\* cancelOrder and markNoShow load the order; from any other status they are refused.
Transit(a, o, kind) ==
    /\ a \in Handler
    /\ act[a].pc = "idle"
    /\ status[o] = "CONFIRMED"
    /\ Become(a, [IdleAct EXCEPT !.pc = "transit", !.kind = kind, !.order = o,
                                 !.status = status[o], !.version = version[o]])
    /\ UNCHANGED <<order, arrivals, users, job, rest>>

\* Mutant: the update is made by id only.
StillAsReadMutant(a) == TRUE

\* The WHERE of performOptimisticOrderTransition, and of the evaluation's update.
StillAsRead(a) ==
    /\ version[act[a].order] = act[a].version
    /\ status[act[a].order] = "CONFIRMED"

\* runOrderTransitionTransaction waits for a transaction that has updated the order,
\* and is rolled back when the order has changed.
CommitTransit(a) ==
    LET o == act[a].order IN
    /\ act[a].pc = "transit"
    /\ HoldersOf(o) = {}
    /\ IF StillAsRead(a)
       THEN /\ status' = [status EXCEPT ![o] = IF act[a].kind = "cancel" THEN "CANCELLED"
                                                                       ELSE "NO_SHOW"]
            /\ version' = [version EXCEPT ![o] = @ + 1]
            /\ Go(a, "unschedule")
       ELSE Leave(a) /\ UNCHANGED <<status, version>>
    /\ UNCHANGED <<missed, arrivals, users, job, rest>>

\* removeAttendanceEvaluation; its errors are only logged.  The job of a slot cannot
\* be removed.
Unschedule(a) ==
    LET o == act[a].order IN
    /\ act[a].pc = "unschedule"
    /\ \/ job' = IF job[o] \in Slot THEN job ELSE [job EXCEPT ![o] = "absent"]
       \/ "redis" \in Faults /\ job' = job
    /\ IF act[a].kind = "evaluate" THEN Go(a, "finish") ELSE Leave(a)
    /\ UNCHANGED <<order, arrivals, users, rest>>

HandlerDies(a) ==
    /\ "api" \in Faults
    /\ a \in Handler
    /\ act[a].pc # "idle"
    /\ Leave(a)
    /\ UNCHANGED <<order, arrivals, users, job, rest>>

-----------------------------------------------------------------------------
(* finalizeReservationAttendance *)

\* The job's delay ends with the check-in window.
TakeJob(a, o) ==
    /\ a \in Slot
    /\ act[a].pc = "idle"
    /\ job[o] = "delayed" /\ o \in closed
    /\ job' = [job EXCEPT ![o] = a]
    /\ Become(a, [IdleAct EXCEPT !.pc = "read", !.kind = "evaluate", !.order = o])
    /\ UNCHANGED <<order, arrivals, users, rest>>

\* Prisma loads the order and then its participants.
ReadOrder(a) ==
    LET o == act[a].order IN
    /\ act[a].pc = "read"
    /\ Become(a, [act[a] EXCEPT !.pc = "look", !.status = status[o], !.version = version[o]])
    /\ UNCHANGED <<order, arrivals, users, job, rest>>

\* Mutant: everybody has to come.
NobodyCameMutant(o) == checked[o] # Party[o]

NobodyCame(o) == checked[o] = {}

\* A reservation that is over, or that somebody came to, is left as it is.
LookAtParty(a) ==
    /\ a \in Slot
    /\ act[a].pc = "look"
    /\ IF act[a].status = "CONFIRMED" /\ NobodyCame(act[a].order)
       THEN Go(a, "update") ELSE Go(a, "finish")
    /\ UNCHANGED <<order, arrivals, users, job, rest>>

\* Mutant: the update does not wait for another transaction.
UpdateOrderMutant(a) ==
    /\ act[a].pc = "update"
    /\ Go(a, IF StillAsRead(a) THEN "charge" ELSE "unschedule")
    /\ UNCHANGED <<order, arrivals, users, job, rest>>

\* The transaction's first update waits for another one's; if it counts no row the
\* transaction ends there.
UpdateOrder(a) ==
    /\ act[a].pc = "update"
    /\ HoldersOf(act[a].order) = {}
    /\ Go(a, IF StillAsRead(a) THEN "charge" ELSE "unschedule")
    /\ UNCHANGED <<order, arrivals, users, job, rest>>

\* applyNoShow for one participant after another, the host first; the companions were
\* created together and come in any order.
ReadScore(a, u) ==
    /\ act[a].pc = "charge"
    /\ u \in Party[act[a].order] \ act[a].charged
    /\ u = Host[act[a].order] \/ Host[act[a].order] \in act[a].charged
    /\ Become(a, [act[a] EXCEPT !.pc = "write", !.user = u, !.seen = score[u]])
    /\ UNCHANGED <<order, arrivals, users, job, rest>>

\* Mutant: the rule is applied twice.
PenaltyMutant(seen) == IF seen > 2 * Delta THEN seen - 2 * Delta ELSE 0

\* Math.max(user.creditScore - scoreDelta, 0)
Penalty(seen) == IF seen > Delta THEN seen - Delta ELSE 0

\* Mutant: the host only is penalised.
PenaliseMutant(a) ==
    LET u == act[a].user IN
    /\ act[a].pc = "write"
    /\ HoldersOfUser(u) = {}
    /\ Become(a, [act[a] EXCEPT !.pc = "commit", !.user = None, !.seen = 0, !.charged = {u},
                                !.after = [@ EXCEPT ![u] = Penalty(act[a].seen)]])
    /\ UNCHANGED <<order, arrivals, users, job, rest>>

\* The update of the user waits for another transaction's; then the log, the rule
\* profile and the restriction are written, which the user's row lock protects.
Penalise(a) ==
    LET u == act[a].user
        charged == act[a].charged \cup {u}
    IN
    /\ act[a].pc = "write"
    /\ HoldersOfUser(u) = {}
    /\ Become(a, [act[a] EXCEPT
            !.pc = IF charged = Party[act[a].order] THEN "commit" ELSE "charge",
            !.user = None, !.seen = 0, !.charged = charged,
            !.after = [@ EXCEPT ![u] = Penalty(act[a].seen)]])
    /\ UNCHANGED <<order, arrivals, users, job, rest>>

Commit(a) ==
    LET o == act[a].order IN
    /\ act[a].pc = "commit"
    /\ status' = [status EXCEPT ![o] = "NO_SHOW"]
    /\ version' = [version EXCEPT ![o] = @ + 1]
    /\ missed' = missed \cup {o}
    /\ score' = [u \in User |-> IF u \in act[a].charged THEN act[a].after[u] ELSE score[u]]
    /\ penalties' = [u \in User |-> IF u \in act[a].charged THEN penalties[u] + 1
                                                           ELSE penalties[u]]
    /\ Become(a, [IdleAct EXCEPT !.pc = "unschedule", !.kind = "evaluate", !.order = o])
    /\ UNCHANGED <<arrivals, job, rest>>

\* BullMQ keeps a job whose handler returned or threw, if the slot still holds it.
Kept(a) == [o \in Order |-> IF job[o] = a THEN "finished" ELSE job[o]]

FinishJob(a) ==
    /\ act[a].pc = "finish"
    /\ job' = Kept(a)
    /\ Leave(a)
    /\ UNCHANGED <<order, arrivals, users, rest>>

WaitsFor(a) == IF act[a].pc = "write" THEN HoldersOfUser(act[a].user) ELSE {}

Deadlocked(a) ==
    \E knot \in SUBSET Slot :
        /\ a \in knot
        /\ \A b \in knot : \E c, d \in knot : b \in WaitsFor(c) /\ d \in WaitsFor(b)

\* PostgreSQL ends one transaction of a deadlock, and the job fails; it is not tried
\* again.
DeadlockVictim(a) ==
    /\ a \in Slot
    /\ Deadlocked(a)
    /\ job' = Kept(a)
    /\ Leave(a)
    /\ UNCHANGED <<order, arrivals, users, rest>>

JobFails(a) ==
    /\ "db" \in Faults
    /\ a \in Slot
    /\ act[a].pc \in InTx \cup {"read", "look", "update"}
    /\ job' = Kept(a)
    /\ Leave(a)
    /\ UNCHANGED <<order, arrivals, users, rest>>

-----------------------------------------------------------------------------
(* The attendance job, its worker, and the rehydration timer *)

\* The worker process ends: its transactions are rolled back.
WorkerExits ==
    /\ act' = [a \in Actor |-> IF a \in Slot THEN IdleAct ELSE act[a]]
    /\ timer' = IdleTimer

WorkerDies ==
    /\ "worker" \in Faults
    /\ WorkerExits
    /\ UNCHANGED <<order, arrivals, users, closed, job>>

\* BullMQ: the lock of a job runs out; the job is delivered again, or failed when that
\* has happened before.
JobStalls(o) ==
    /\ job[o] \in Slot
    /\ act[job[o]].order # o \/ "stall" \in Faults
    /\ \E s \in {"delayed", "finished"} : job' = [job EXCEPT ![o] = s]
    /\ UNCHANGED <<order, arrivals, users, act, rest>>

Confirmed == {o \in Order : status[o] = "CONFIRMED"}

\* Mutant: the newest one is left out.
NewestMutant == {o \in Confirmed : \E p \in Confirmed : p > o}

\* The newest of them, up to the limit.
Newest == {o \in Confirmed : Cardinality({p \in Confirmed : p > o}) < Limit}

\* rehydrateReservationAttendances, when the process starts and then by the timer.
RehydrateRead ==
    /\ timer.pc = "idle"
    /\ Newest # {}
    /\ timer' = [IdleTimer EXCEPT !.pc = "remove", !.todo = Newest]
    /\ UNCHANGED <<order, arrivals, users, closed, job, act>>

\* scheduleAttendanceEvaluation: the old job is removed.  Removing a job that a slot
\* holds throws; nobody catches the timer's promise, and the process ends.
RehydrateRemove(o) ==
    /\ timer.pc = "remove"
    /\ o \in timer.todo
    /\ \A p \in timer.todo : p <= o
    /\ IF job[o] \in Slot
       THEN WorkerExits /\ UNCHANGED job
       ELSE /\ job' = [job EXCEPT ![o] = "absent"]
            /\ timer' = [pc |-> "add", todo |-> timer.todo \ {o}, order |-> o]
            /\ UNCHANGED act
    /\ UNCHANGED <<order, arrivals, users, closed>>

\* A job of that id added in between is kept.
RehydrateAdd ==
    LET o == timer.order IN
    /\ timer.pc = "add"
    /\ job' = IF job[o] = "absent" THEN [job EXCEPT ![o] = "delayed"] ELSE job
    /\ timer' = IF timer.todo = {} THEN IdleTimer ELSE [timer EXCEPT !.pc = "remove"]
    /\ UNCHANGED <<order, arrivals, users, closed, act>>

\* Ten minutes after the reservation has started.
WindowCloses(o) ==
    /\ o \notin closed
    /\ closed' = closed \cup {o}
    /\ UNCHANGED <<order, arrivals, users, job, act, timer>>

-----------------------------------------------------------------------------
HandlerStep(a) ==
    \/ \E o \in Order : \/ \E u \in User : CheckIn(a, o, u)
                        \/ \E kind \in {"cancel", "noShow"} : Transit(a, o, kind)
    \/ LookAtWindow(a) \/ Stamp(a) \/ CommitTransit(a) \/ HandlerDies(a)

SlotStep(a) ==
    \/ \E o \in Order : TakeJob(a, o)
    \/ ReadOrder(a) \/ LookAtParty(a) \/ UpdateOrder(a)
    \/ \E u \in User : ReadScore(a, u)
    \/ Penalise(a) \/ Commit(a) \/ FinishJob(a) \/ DeadlockVictim(a) \/ JobFails(a)

EnvStep ==
    \/ \E o \in Order : JobStalls(o) \/ WindowCloses(o) \/ RehydrateRemove(o)
    \/ WorkerDies \/ RehydrateRead \/ RehydrateAdd

Next ==
    \/ \E a \in Handler : HandlerStep(a)
    \/ \E a \in Slot : SlotStep(a)
    \/ \E a \in Actor : Unschedule(a)
    \/ EnvStep

Spec == Init /\ [][Next]_vars

-----------------------------------------------------------------------------
(* Properties *)

\* Everybody has one credit log for each of their reservations that the job found
\* missed, and none for those that were cancelled or marked by hand meanwhile:
\* repeated, overlapping, failed and repeated evaluations neither lose a penalty nor
\* give it twice.
PenaltiesMatch ==
    \A u \in User : penalties[u] = Cardinality({o \in missed : u \in Party[o]})

Book == INSTANCE PenaltyBook

\* docs/product-architecture.md, 7.1 and 3.5: a reservation leaves CONFIRMED once, and
\* its participants are penalised in the step that ends it as missed, or never.
ImplementsBook == Book!Spec

\* Nobody loses more credit than the logs say, and who has a log has lost at least
\* one penalty.  (It is no equality: see the README on overlapping evaluations.)
ScoreWithinLogs ==
    \A u \in User :
        /\ score[u] + Delta * penalties[u] >= Start
        /\ score[u] <= IF penalties[u] = 0 THEN Start
                          ELSE IF Start > Delta THEN Start - Delta ELSE 0

\* docs/business-flow-diagram.md, 4: a reservation is missed if nobody has checked in
\* when the window closes.  Nobody is penalised for an order that a check-in was
\* written for in time.  (A later write of a time in the window can be too late.)
InTimeIsSafe == \A o \in missed : checked[o] \subseteq late[o]

\* A reservation nobody came to does not stay confirmed: lost, failed, stalled and
\* half-replaced jobs and victims of deadlocks are scheduled again, as long as there
\* are not more confirmed reservations than one rehydration reads.
MissedIsFinalised ==
    \A o \in Order :
        o \in closed /\ status[o] = "CONFIRMED"
            ~> status[o] # "CONFIRMED" \/ checked[o] # {}

\* What goes wrong with the evaluations: the worker process ends, by the timer's own
\* error too, a job is taken from a slot that works on it, or a query of a job fails.
Mishap ==
    \/ WorkerDies
    \/ \E o \in Order : job[o] \in Slot /\ RehydrateRemove(o)
    \/ \E o \in Order : job[o] \in Slot /\ act[job[o]].order = o /\ JobStalls(o)
    \/ \E a \in Slot : JobFails(a)

\* Queries return, the timer fires, PostgreSQL and BullMQ find what hangs, a job that
\* is due again and again is taken, and mishaps come to an end.
FairSpec ==
    /\ Spec
    /\ \A a \in Slot : /\ WF_vars(SlotStep(a) \/ Unschedule(a))
                       /\ WF_vars(DeadlockVictim(a))
    /\ WF_vars(RehydrateRead) /\ WF_vars(RehydrateAdd)
    /\ \A o \in Order : /\ WF_vars(RehydrateRemove(o)) /\ WF_vars(JobStalls(o))
                        /\ SF_vars(\E a \in Slot : TakeJob(a, o))
    /\ <>[][~Mishap]_vars
=============================================================================
