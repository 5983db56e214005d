------------------------- MODULE Attendance_proofs --------------------------
(***************************************************************************)
(* Proofs about Attendance: type correctness, that it implements the       *)
(* abstract PenaltyBook, that a check-in in time is safe, and what credit  *)
(* scores are worth, for any orders, users, slots, handlers and faults.    *)
(***************************************************************************)
EXTENDS Attendance, FiniteSetTheorems, TLAPS

-----------------------------------------------------------------------------
(* Type correctness *)

\* The initial state is well typed.
LEMMA TypeInit == Init => TypeOK
<1> SUFFICES ASSUME Init PROVE TypeOK
  OBVIOUS
<1>1. OrderType /\ ArrivalType /\ JobType
  BY DEF Init, OrderType, ArrivalType, JobType, Status
<1>2. UserType
  BY AttendanceAssumption DEF Init, UserType
<1>3. ActType
  BY DEF Init, ActType, ActRecord, AtWork, IdleAct, Pc, InTx
<1>4. TimerType
  BY DEF Init, TimerType, IdleTimer
<1> QED
  BY <1>1, <1>2, <1>3, <1>4 DEF TypeOK

\* What a step leaves alone keeps its type.
LEMMA Frame ==
  ASSUME TypeOK
  PROVE  /\ UNCHANGED order => OrderType'
         /\ UNCHANGED <<closed, arrivals>> => ArrivalType'
         /\ UNCHANGED users => UserType'
         /\ UNCHANGED job => JobType'
         /\ UNCHANGED act => ActType'
         /\ UNCHANGED timer => TimerType'
BY DEF TypeOK, order, arrivals, users, OrderType, ArrivalType, UserType, JobType,
       ActType, AtWork, TimerType

\* An actor may become any other record of its type.
LEMMA BecomeType ==
  ASSUME ActType, NEW a \in Actor, NEW x \in ActRecord, AtWork(a, x), Become(a, x)
  PROVE  ActType'
<1>1. /\ act' \in [Actor -> ActRecord]
      /\ act'[a] = x
      /\ \A b \in Actor \ {a} : act'[b] = act[b]
  BY DEF ActType, Become
<1>2. ASSUME NEW b \in Actor PROVE AtWork(b, act'[b])
  BY <1>1 DEF ActType
<1> QED
  BY <1>1, <1>2 DEF ActType

\* Any actor may be idle.
LEMMA IdleType == IdleAct \in ActRecord /\ \A a : AtWork(a, IdleAct)
BY DEF IdleAct, ActRecord, AtWork, Pc, InTx

\* Only the program counter changes, outside a transaction.
LEMMA GoType ==
  ASSUME ActType, NEW a \in Actor, act[a].pc \notin InTx \cup {"idle"},
         NEW pc \in {"look", "stamp", "update", "charge", "unschedule", "finish"},
         a \in Handler => pc \in {"look", "stamp", "unschedule"},
         a \in Slot => pc # "stamp",
         a \in Handler /\ pc \in {"look", "stamp"} => act[a].user \in User,
         Go(a, pc)
  PROVE  ActType'
<1> DEFINE x == [act[a] EXCEPT !.pc = pc]
<1>1. act[a] \in ActRecord /\ AtWork(a, act[a])
  BY DEF ActType
<1>2. x \in ActRecord /\ AtWork(a, x)
  BY <1>1 DEF ActRecord, AtWork, Pc, InTx
<1> QED
  BY <1>2, BecomeType DEF Go

\* An actor that leaves is idle.
LEMMA LeaveType ==
  ASSUME ActType, NEW a \in Actor, Leave(a) PROVE ActType'
BY IdleType, BecomeType DEF Leave

\* A handler's step keeps the types.
LEMMA TypeHandler ==
  ASSUME TypeOK, NEW a \in Handler, HandlerStep(a) PROVE TypeOK'
<1>0. a \in Actor /\ a \notin Slot
  BY AttendanceAssumption DEF Actor
<1>1. act[a] \in ActRecord /\ AtWork(a, act[a]) /\ ActType
  BY <1>0 DEF TypeOK, ActType
<1>2. ASSUME NEW o \in Order, NEW u \in User, CheckIn(a, o, u) PROVE TypeOK'
  <2> DEFINE x == [IdleAct EXCEPT !.pc = "look", !.kind = "checkIn", !.order = o, !.user = u]
  <2>1. x \in ActRecord /\ AtWork(a, x)
    BY <1>0 DEF IdleAct, ActRecord, AtWork, Pc, InTx, Kind
  <2>2. ActType'
    BY <1>0, <1>1, <1>2, <2>1, BecomeType DEF CheckIn
  <2> QED
    BY <1>2, <2>2, Frame DEF CheckIn, rest, TypeOK
<1>3. ASSUME NEW o \in Order, NEW kind \in {"cancel", "noShow"}, Transit(a, o, kind)
      PROVE  TypeOK'
  <2> DEFINE x == [IdleAct EXCEPT !.pc = "transit", !.kind = kind, !.order = o,
                                  !.status = status[o], !.version = version[o]]
  <2>1. status[o] \in Status /\ version[o] \in Nat
    BY DEF TypeOK, OrderType
  <2>2. x \in ActRecord /\ AtWork(a, x)
    BY <1>0, <2>1 DEF IdleAct, ActRecord, AtWork, Pc, InTx, Kind
  <2>3. ActType'
    BY <1>0, <1>1, <1>3, <2>2, BecomeType DEF Transit
  <2> QED
    BY <1>3, <2>3, Frame DEF Transit, rest, TypeOK
<1>4. CASE LookAtWindow(a)
  <2>1. act[a].user \in User /\ act[a].pc \notin InTx \cup {"idle"}
    BY <1>1, <1>4 DEF LookAtWindow, AtWork, InTx
  <2>2. ActType'
    BY <1>0, <1>1, <1>4, <2>1, GoType, LeaveType DEF LookAtWindow
  <2> QED
    BY <1>4, <2>2, Frame DEF LookAtWindow, rest, TypeOK
<1>5. CASE Stamp(a)
  <2>1. act[a].user \in User /\ act[a].order \in Order
    BY <1>1, <1>5 DEF Stamp, AtWork
  <2>2. ArrivalType'
    BY <1>5, <2>1 DEF Stamp, TypeOK, ArrivalType, rest
  <2>3. ActType'
    BY <1>0, <1>1, <1>5, LeaveType DEF Stamp
  <2> QED
    BY <1>5, <2>2, <2>3, Frame DEF Stamp, rest, TypeOK
<1>6. CASE CommitTransit(a)
  <2> DEFINE o == act[a].order
  <2>1. o \in Order /\ act[a].pc \notin InTx \cup {"idle"}
    BY <1>1, <1>6 DEF CommitTransit, AtWork, InTx
  <2>2. ActType'
    BY <1>0, <1>1, <1>6, <2>1, GoType, LeaveType DEF CommitTransit
  <2>3. OrderType'
    <3>1. CASE StillAsRead(a)
      <4>1. /\ status' = [status EXCEPT ![o] = IF act[a].kind = "cancel" THEN "CANCELLED"
                                                                         ELSE "NO_SHOW"]
            /\ version' = [version EXCEPT ![o] = version[o] + 1]
            /\ missed' = missed
        BY <1>6, <3>1 DEF CommitTransit
      <4>2. version[o] + 1 \in Nat
        BY <2>1 DEF TypeOK, OrderType
      <4> QED
        BY <4>1, <4>2 DEF TypeOK, OrderType, Status
    <3>2. CASE ~StillAsRead(a)
      BY <1>6, <3>2 DEF CommitTransit, TypeOK, OrderType
    <3> QED
      BY <3>1, <3>2
  <2> QED
    BY <1>6, <2>2, <2>3, Frame DEF CommitTransit, rest, TypeOK
<1>7. CASE HandlerDies(a)
  <2>1. ActType'
    BY <1>0, <1>1, <1>7, LeaveType DEF HandlerDies
  <2> QED
    BY <1>7, <2>1, Frame DEF HandlerDies, rest, TypeOK
<1> QED
  BY <1>2, <1>3, <1>4, <1>5, <1>6, <1>7 DEF HandlerStep

\* Removing a job keeps the types.
LEMMA TypeUnschedule ==
  ASSUME TypeOK, NEW a \in Actor, Unschedule(a) PROVE TypeOK'
<1>1. act[a] \in ActRecord /\ AtWork(a, act[a]) /\ ActType
  BY DEF TypeOK, ActType
<1>2. act[a].order \in Order /\ act[a].pc \notin InTx \cup {"idle"}
  BY <1>1 DEF Unschedule, AtWork, InTx
<1>3. ActType'
  BY <1>1, <1>2, GoType, LeaveType DEF Unschedule, AtWork, Actor
<1>4. JobType'
  BY <1>2 DEF Unschedule, TypeOK, JobType
<1> QED
  BY <1>3, <1>4, Frame DEF Unschedule, rest, TypeOK

\* A job that ends is kept as finished.
LEMMA KeptType ==
  ASSUME JobType, NEW a \in Actor, job' = Kept(a) PROVE JobType'
BY DEF JobType, Kept

\* A slot's step keeps the types.
LEMMA TypeSlot ==
  ASSUME TypeOK, NEW a \in Slot, SlotStep(a) PROVE TypeOK'
<1>0. a \in Actor /\ a \notin Handler
  BY AttendanceAssumption DEF Actor
<1>1. act[a] \in ActRecord /\ AtWork(a, act[a]) /\ ActType
  BY <1>0 DEF TypeOK, ActType
<1> DEFINE o == act[a].order
           u == act[a].user
           charged == act[a].charged \cup {u}
<1>2. ASSUME NEW p \in Order, TakeJob(a, p) PROVE TypeOK'
  <2> DEFINE x == [IdleAct EXCEPT !.pc = "read", !.kind = "evaluate", !.order = p]
  <2>1. x \in ActRecord /\ AtWork(a, x)
    BY <1>0 DEF IdleAct, ActRecord, AtWork, Pc, InTx, Kind
  <2>2. ActType'
    BY <1>0, <1>1, <1>2, <2>1, BecomeType DEF TakeJob
  <2>3. JobType'
    BY <1>2 DEF TakeJob, TypeOK, JobType
  <2> QED
    BY <1>2, <2>2, <2>3, Frame DEF TakeJob, rest, TypeOK
<1>3. CASE ReadOrder(a)
  <2> DEFINE x == [act[a] EXCEPT !.pc = "look", !.status = status[o], !.version = version[o]]
  <2>1. o \in Order /\ status[o] \in Status /\ version[o] \in Nat
    BY <1>1, <1>3 DEF ReadOrder, AtWork, TypeOK, OrderType
  <2>2. x \in ActRecord /\ AtWork(a, x)
    BY <1>0, <1>1, <1>3, <2>1 DEF ReadOrder, ActRecord, AtWork, Pc, InTx
  <2>3. ActType'
    BY <1>0, <1>1, <1>3, <2>2, BecomeType DEF ReadOrder
  <2> QED
    BY <1>3, <2>3, Frame DEF ReadOrder, rest, TypeOK
<1>4. CASE LookAtParty(a)
  <2>1. act[a].pc \notin InTx \cup {"idle"}
    BY <1>4 DEF LookAtParty, InTx
  <2>2. ActType'
    BY <1>0, <1>1, <1>4, <2>1, GoType DEF LookAtParty
  <2> QED
    BY <1>4, <2>2, Frame DEF LookAtParty, rest, TypeOK
<1>5. CASE UpdateOrder(a)
  <2>1. act[a].pc \notin InTx \cup {"idle"}
    BY <1>5 DEF UpdateOrder, InTx
  <2>2. ActType'
    BY <1>0, <1>1, <1>5, <2>1, GoType DEF UpdateOrder
  <2> QED
    BY <1>5, <2>2, Frame DEF UpdateOrder, rest, TypeOK
<1>6. ASSUME NEW v \in User, ReadScore(a, v) PROVE TypeOK'
  <2> DEFINE x == [act[a] EXCEPT !.pc = "write", !.user = v, !.seen = score[v]]
  <2>1. score[v] \in Nat
    BY DEF TypeOK, UserType
  <2>2. x \in ActRecord /\ AtWork(a, x)
    BY <1>0, <1>1, <1>6, <2>1 DEF ReadScore, ActRecord, AtWork, Pc, InTx
  <2>3. ActType'
    BY <1>0, <1>1, <1>6, <2>2, BecomeType DEF ReadScore
  <2> QED
    BY <1>6, <2>3, Frame DEF ReadScore, rest, TypeOK
<1>7. CASE Penalise(a)
  <2> DEFINE pc == IF charged = Party[o] THEN "commit" ELSE "charge"
             after == [act[a].after EXCEPT ![u] = Penalty(act[a].seen)]
             x == [act[a] EXCEPT !.pc = pc, !.user = None, !.seen = 0, !.charged = charged,
                                 !.after = after]
  <2>1. act[a].pc = "write" /\ o \in Order /\ u \in Party[o] /\ u \in User
    BY <1>1, <1>7, AttendanceAssumption DEF Penalise, AtWork
  <2>2. after \in [User -> Nat]
    <3>1. Penalty(act[a].seen) \in Nat
      BY <1>1, AttendanceAssumption DEF Penalty, ActRecord
    <3> QED
      BY <1>1, <3>1 DEF ActRecord
  <2>3. charged \subseteq Party[o] /\ charged \subseteq User
    BY <1>1, <2>1, AttendanceAssumption DEF AtWork, InTx
  <2>4. pc \in {"commit", "charge"} /\ (pc = "commit" => charged = Party[o])
    OBVIOUS
  <2>5. x \in ActRecord
    <3>1. pc \in Pc /\ charged \in SUBSET User /\ None \in User \cup {None} /\ 0 \in Nat
      BY <2>3, <2>4 DEF Pc, InTx
    <3> HIDE DEF pc, charged, after
    <3> QED
      BY <1>1, <2>2, <3>1 DEF ActRecord
  <2>6. AtWork(a, x)
    BY <1>0, <1>1, <2>1, <2>3, <2>4 DEF ActRecord, AtWork, InTx
  <2>7. Become(a, x)
    BY <1>7 DEF Penalise
  <2>8. ActType'
    BY <1>0, <1>1, <2>5, <2>6, <2>7, BecomeType
  <2> QED
    BY <1>7, <2>8, Frame DEF Penalise, rest, TypeOK
<1>8. CASE Commit(a)
  <2> DEFINE x == [IdleAct EXCEPT !.pc = "unschedule", !.kind = "evaluate", !.order = o]
  <2>1. o \in Order /\ act[a].after \in [User -> Nat]
    BY <1>1, <1>8 DEF Commit, AtWork, ActRecord
  <2>2. OrderType'
    BY <1>8, <2>1 DEF Commit, TypeOK, OrderType, Status
  <2>3. UserType'
    BY <1>8, <2>1 DEF Commit, TypeOK, UserType
  <2>4. x \in ActRecord /\ AtWork(a, x)
    BY <1>0, <2>1 DEF IdleAct, ActRecord, AtWork, Pc, InTx, Kind
  <2>5. ActType'
    BY <1>0, <1>1, <1>8, <2>4, BecomeType DEF Commit
  <2> QED
    BY <1>8, <2>2, <2>3, <2>5, Frame DEF Commit, rest, TypeOK
<1>9. CASE FinishJob(a) \/ DeadlockVictim(a) \/ JobFails(a)
  <2>1. /\ Leave(a) /\ job' = Kept(a)
        /\ UNCHANGED <<order, arrivals, users, rest>>
    BY <1>9 DEF FinishJob, DeadlockVictim, JobFails
  <2>2. ActType' /\ JobType'
    BY <1>0, <1>1, <2>1, LeaveType, KeptType DEF TypeOK
  <2> QED
    BY <2>1, <2>2, Frame DEF rest, TypeOK
<1> QED
  BY <1>2, <1>3, <1>4, <1>5, <1>6, <1>7, <1>8, <1>9 DEF SlotStep

\* What happens to the jobs, the worker process and the windows keeps the types.
LEMMA TypeEnv ==
  ASSUME TypeOK, EnvStep PROVE TypeOK'
<1>1. ASSUME WorkerExits PROVE ActType' /\ TimerType'
  <2>1. \A a \in Actor : act'[a] \in {act[a], IdleAct}
    BY <1>1 DEF WorkerExits
  <2>2. act' \in [Actor -> ActRecord]
    BY <1>1, <2>1, IdleType DEF WorkerExits, TypeOK, ActType
  <2>3. \A a \in Actor : AtWork(a, act'[a])
    BY <2>1, IdleType DEF TypeOK, ActType
  <2>4. TimerType'
    BY <1>1 DEF WorkerExits, TimerType, IdleTimer
  <2> QED
    BY <2>2, <2>3, <2>4 DEF ActType
<1>2. ASSUME NEW o \in Order, JobStalls(o) PROVE TypeOK'
  <2>1. JobType'
    BY <1>2 DEF JobStalls, TypeOK, JobType
  <2> QED
    BY <1>2, <2>1, Frame DEF JobStalls, rest, TypeOK
<1>3. ASSUME NEW o \in Order, WindowCloses(o) PROVE TypeOK'
  <2>1. ArrivalType'
    BY <1>3 DEF WindowCloses, TypeOK, ArrivalType, arrivals
  <2> QED
    BY <1>3, <2>1, Frame DEF WindowCloses, TypeOK
<1>4. ASSUME NEW o \in Order, RehydrateRemove(o) PROVE TypeOK'
  <2>1. CASE job[o] \in Slot
    <3>1. WorkerExits /\ UNCHANGED <<job, order, arrivals, users, closed>>
      BY <1>4, <2>1 DEF RehydrateRemove
    <3> QED
      BY <1>1, <3>1, Frame DEF TypeOK
  <2>2. CASE job[o] \notin Slot
    <3>1. /\ job' = [job EXCEPT ![o] = "absent"]
          /\ timer' = [pc |-> "add", todo |-> timer.todo \ {o}, order |-> o]
          /\ UNCHANGED <<act, order, arrivals, users, closed>>
      BY <1>4, <2>2 DEF RehydrateRemove
    <3>2. JobType' /\ TimerType'
      BY <3>1 DEF TypeOK, JobType, TimerType
    <3> QED
      BY <3>1, <3>2, Frame DEF TypeOK
  <2> QED
    BY <2>1, <2>2
<1>5. CASE WorkerDies
  BY <1>1, <1>5, Frame DEF WorkerDies, TypeOK
<1>6. CASE RehydrateRead
  <2>1. TimerType'
    BY <1>6 DEF RehydrateRead, TimerType, IdleTimer, Newest, Confirmed
  <2> QED
    BY <1>6, <2>1, Frame DEF RehydrateRead, TypeOK
<1>7. CASE RehydrateAdd
  <2>1. timer.order \in Order
    BY <1>7 DEF RehydrateAdd, TypeOK, TimerType
  <2>2. JobType'
    BY <1>7, <2>1 DEF RehydrateAdd, TypeOK, JobType
  <2>3. TimerType'
    BY <1>7, <2>1 DEF RehydrateAdd, TypeOK, TimerType, IdleTimer
  <2> QED
    BY <1>7, <2>2, <2>3, Frame DEF RehydrateAdd, TypeOK
<1> QED
  BY <1>2, <1>3, <1>4, <1>5, <1>6, <1>7 DEF EnvStep

\* Every step keeps the types.
LEMMA TypeStep == TypeOK /\ [Next]_vars => TypeOK'
<1> SUFFICES ASSUME TypeOK, [Next]_vars PROVE TypeOK'
  OBVIOUS
<1>1. CASE UNCHANGED vars
  BY <1>1, Frame DEF vars, order, arrivals, users, TypeOK
<1>2. CASE Next
  BY <1>2, TypeHandler, TypeSlot, TypeUnschedule, TypeEnv DEF Next
<1> QED
  BY <1>1, <1>2

\* Every variable keeps its type; a handler or slot at work has an order, and a
\* transaction of the evaluation has changed participants of its order only.
THEOREM TypeCorrect == Spec => []TypeOK
BY TypeInit, TypeStep, PTL DEF Spec

-----------------------------------------------------------------------------
(* What the steps do to the evaluations in progress *)

\* Every slot goes on as it was, or has left its evaluation.
SlotsRest ==
    \A b \in Slot : \/ act'[b] = act[b]
                    \/ act'[b].pc \in {"idle", "unschedule", "finish"} /\ act'[b].charged = {}

\* An order that no transaction has updated ends by hand.
EndsByHand(o) ==
    /\ HoldersOf(o) = {}
    /\ status[o] = "CONFIRMED"
    /\ \E as \in {"CANCELLED", "NO_SHOW"} : status' = [status EXCEPT ![o] = as]

\* A check-in is written, in time or too late.
IsStamped(o, u) ==
    /\ checked' = [checked EXCEPT ![o] = @ \cup {u}]
    /\ late' = [late EXCEPT ![o] = IF o \in closed THEN @ \cup {u} ELSE @ \ {u}]

\* An actor that is replaced leaves the others as they are.
LEMMA Others ==
  ASSUME TypeOK, NEW a \in Actor, NEW x, Become(a, x)
  PROVE  act'[a] = x /\ \A b \in Actor \ {a} : act'[b] = act[b]
BY DEF TypeOK, ActType, Become

\* A handler's step concerns no slot; it may end an order or write a check-in.
LEMMA HandlerEffect ==
  ASSUME TypeOK, NEW a \in Handler, HandlerStep(a)
  PROVE  /\ SlotsRest
         /\ UNCHANGED <<missed, users, closed>>
         /\ UNCHANGED status \/ \E o \in Order : EndsByHand(o)
         /\ UNCHANGED arrivals \/ \E o \in Order, u \in User : IsStamped(o, u)
<1>0. a \in Actor /\ a \notin Slot /\ Slot \subseteq Actor
  BY AttendanceAssumption DEF Actor
<1>1. act[a] \in ActRecord /\ AtWork(a, act[a])
  BY <1>0 DEF TypeOK, ActType
<1>2. ASSUME NEW x, Become(a, x) PROVE SlotsRest
  BY <1>0, <1>2, Others DEF SlotsRest
<1>3. ASSUME NEW o \in Order, NEW u \in User, CheckIn(a, o, u)
      PROVE  SlotsRest /\ UNCHANGED <<order, arrivals, users, closed>>
  BY <1>2, <1>3 DEF CheckIn, rest
<1>4. ASSUME NEW o \in Order, NEW kind \in {"cancel", "noShow"}, Transit(a, o, kind)
      PROVE  SlotsRest /\ UNCHANGED <<order, arrivals, users, closed>>
  BY <1>2, <1>4 DEF Transit, rest
<1>5. CASE LookAtWindow(a) \/ HandlerDies(a)
  BY <1>2, <1>5 DEF LookAtWindow, HandlerDies, Go, Leave, rest, order
<1>6. CASE Stamp(a)
  <2>1. act[a].order \in Order /\ act[a].user \in User
    BY <1>1, <1>6 DEF Stamp, AtWork
  <2>2. IsStamped(act[a].order, act[a].user)
    BY <1>6 DEF Stamp, IsStamped
  <2> QED
    BY <1>2, <1>6, <2>1, <2>2 DEF Stamp, Leave, rest, order
<1>7. CASE CommitTransit(a)
  <2> DEFINE o == act[a].order
  <2>1. o \in Order
    BY <1>1, <1>7 DEF CommitTransit, AtWork
  <2>2. UNCHANGED status \/ EndsByHand(o)
    BY <1>7 DEF CommitTransit, StillAsRead, EndsByHand
  <2>3. SlotsRest
    BY <1>2, <1>7 DEF CommitTransit, Go, Leave
  <2> QED
    BY <1>7, <2>1, <2>2, <2>3 DEF CommitTransit, rest
<1> QED
  BY <1>3, <1>4, <1>5, <1>6, <1>7 DEF HandlerStep, order

\* Jobs, the process and the removal of a job concern no order and no user.
LEMMA QuietEffect ==
  ASSUME TypeOK, EnvStep \/ \E a \in Actor : Unschedule(a)
  PROVE  SlotsRest /\ UNCHANGED <<order, arrivals, users>> /\ closed \subseteq closed'
<1>0. Slot \subseteq Actor
  BY DEF Actor
<1>1. ASSUME WorkerExits PROVE SlotsRest
  BY <1>0, <1>1 DEF WorkerExits, SlotsRest, IdleAct
<1>2. ASSUME NEW a \in Actor, Unschedule(a)
      PROVE  SlotsRest /\ UNCHANGED <<order, arrivals, users, closed>>
  <2>1. act[a].charged = {}
    BY <1>2 DEF Unschedule, TypeOK, ActType, AtWork, InTx
  <2>2. PICK x : Become(a, x) /\ x.pc \in {"idle", "finish"} /\ x.charged = {}
    <3>1. Become(a, [act[a] EXCEPT !.pc = "finish"]) \/ Become(a, IdleAct)
      BY <1>2 DEF Unschedule, Go, Leave
    <3>2. act[a] \in ActRecord
      BY DEF TypeOK, ActType
    <3> QED
      BY <2>1, <3>1, <3>2 DEF IdleAct, ActRecord
  <2>3. SlotsRest
    BY <1>0, <2>2, Others DEF SlotsRest
  <2> QED
    BY <1>2, <2>3 DEF Unschedule, rest
<1>3. CASE \E o \in Order : JobStalls(o) \/ WindowCloses(o) \/ RehydrateRemove(o)
  BY <1>1, <1>3 DEF JobStalls, WindowCloses, RehydrateRemove, rest, SlotsRest
<1>4. CASE WorkerDies \/ RehydrateRead \/ RehydrateAdd
  BY <1>1, <1>4 DEF WorkerDies, RehydrateRead, RehydrateAdd, SlotsRest
<1> QED
  BY <1>2, <1>3, <1>4 DEF EnvStep

\* Where one slot goes, and what the state is then; a commit is stated apart.
LEMMA SlotEffect ==
  ASSUME TypeOK, NEW a \in Slot, SlotStep(a)
  PROVE  \/ SlotsRest /\ UNCHANGED <<order, arrivals, users, closed>>
         \/ /\ \E o \in Order : TakeJob(a, o)
            /\ UNCHANGED <<order, arrivals, users, closed>>
         \/ /\ ReadOrder(a) \/ LookAtParty(a) \/ UpdateOrder(a) \/ Penalise(a)
               \/ \E u \in User : ReadScore(a, u)
            /\ UNCHANGED <<order, arrivals, users, closed>>
         \/ Commit(a)
<1>0. a \in Actor /\ Slot \subseteq Actor
  BY DEF Actor
<1>1. CASE FinishJob(a) \/ DeadlockVictim(a) \/ JobFails(a)
  <2>1. Become(a, IdleAct) /\ UNCHANGED <<order, arrivals, users, rest>>
    BY <1>1 DEF FinishJob, DeadlockVictim, JobFails, Leave
  <2> QED
    BY <1>0, <2>1, Others DEF SlotsRest, IdleAct, rest
<1>2. ASSUME NEW o \in Order, TakeJob(a, o)
      PROVE  UNCHANGED <<order, arrivals, users, closed>>
  BY <1>2 DEF TakeJob, rest
<1>3. ASSUME NEW u \in User, ReadScore(a, u)
      PROVE  UNCHANGED <<order, arrivals, users, closed>>
  BY <1>3 DEF ReadScore, rest
<1>4. CASE ReadOrder(a) \/ LookAtParty(a) \/ UpdateOrder(a) \/ Penalise(a)
  BY <1>4 DEF ReadOrder, LookAtParty, UpdateOrder, Penalise, rest
<1> QED
  BY <1>1, <1>2, <1>3, <1>4 DEF SlotStep

-----------------------------------------------------------------------------
(* One transaction at a time evaluates an order, which is confirmed *)

OneTx == \A a, b \in Slot :
    act[a].pc \in InTx /\ act[b].pc \in InTx /\ act[a].order = act[b].order => a = b

TxOwnsOrder == \A a \in Slot : act[a].pc \in InTx => status[act[a].order] = "CONFIRMED"

MissedEnded == \A o \in missed : status[o] # "CONFIRMED"

TxInv == TypeOK /\ OneTx /\ TxOwnsOrder /\ MissedEnded

\* The transactions that are left have the orders they had, and those are confirmed.
LEMMA TxKept ==
  ASSUME TypeOK', OneTx, TxOwnsOrder, MissedEnded,
         \A a \in Slot : act'[a].pc \in InTx =>
            act[a].pc \in InTx /\ act'[a].order = act[a].order,
         \A a \in Slot : act'[a].pc \in InTx => status'[act[a].order] = status[act[a].order],
         \A o \in missed' : status'[o] # "CONFIRMED"
  PROVE  TxInv'
BY DEF TxInv, OneTx, TxOwnsOrder, MissedEnded

\* The same when the slots rest and orders end by hand at most.
LEMMA TxRests ==
  ASSUME TxInv, TypeOK', SlotsRest, UNCHANGED missed,
         UNCHANGED status \/ \E o \in Order : EndsByHand(o)
  PROVE  TxInv'
<1>1. ASSUME NEW a \in Slot, act'[a].pc \in InTx
      PROVE  act[a].pc \in InTx /\ act'[a] = act[a] /\ act[a].order \in Order
  BY <1>1 DEF SlotsRest, InTx, TxInv, TypeOK, ActType, AtWork, Actor
<1>2. ASSUME NEW a \in Slot, act'[a].pc \in InTx
      PROVE  status'[act[a].order] = status[act[a].order]
  <2>1. ASSUME NEW o \in Order, EndsByHand(o) PROVE act[a].order # o
    BY <1>1, <1>2, <2>1 DEF EndsByHand, HoldersOf
  <2>2. status \in [Order -> Status]
    BY DEF TxInv, TypeOK, OrderType
  <2> QED
    BY <1>1, <1>2, <2>1, <2>2 DEF EndsByHand
<1>3. \A o \in missed' : status'[o] # "CONFIRMED"
  BY DEF TxInv, TypeOK, OrderType, MissedEnded, EndsByHand
<1> QED
  BY <1>1, <1>2, <1>3, TxKept DEF TxInv

\* The initial state satisfies it.
LEMMA TxInit == Init => TxInv
<1> SUFFICES ASSUME Init PROVE TxInv
  OBVIOUS
<1>1. \A a \in Slot : act[a].pc \notin InTx
  BY DEF Init, Actor, IdleAct, InTx
<1> QED
  BY <1>1, TypeInit DEF Init, TxInv, OneTx, TxOwnsOrder, MissedEnded

\* A slot that commits had the order alone, confirmed, and charged its participants.
LEMMA CommitEffect ==
  ASSUME TxInv, NEW a \in Slot, Commit(a)
  PROVE  /\ Book!Miss(act[a].order)
         /\ act[a].order \in Order \ missed
         /\ act[a].charged = Party[act[a].order]
<1> DEFINE o == act[a].order
<1>1. o \in Order /\ act[a].charged = Party[o] /\ act[a].pc \in InTx
  BY DEF Commit, TxInv, TypeOK, ActType, AtWork, InTx, Actor
<1>2. status[o] = "CONFIRMED" /\ o \notin missed
  BY <1>1 DEF TxInv, TxOwnsOrder, MissedEnded
<1> QED
  BY <1>1, <1>2 DEF Commit, Book!Miss, Book!End

\* Every step keeps the invariant, and is a step of the penalty book or a stutter.
LEMMA TxStep ==
  ASSUME TxInv, [Next]_vars
  PROVE  TxInv' /\ [Book!Next]_<<status, missed, penalties>>
<1>0. TypeOK /\ TypeOK' /\ Slot \subseteq Actor
  BY TypeStep DEF TxInv, Actor
<1>1. CASE UNCHANGED vars
  <2>1. SlotsRest /\ UNCHANGED <<status, missed, penalties>>
    BY <1>1 DEF vars, SlotsRest
  <2> QED
    BY <1>0, <2>1, TxRests
<1>2. CASE EnvStep \/ \E a \in Actor : Unschedule(a)
  <2>1. SlotsRest /\ UNCHANGED <<status, missed, penalties>>
    BY <1>0, <1>2, QuietEffect DEF order, users
  <2> QED
    BY <1>0, <2>1, TxRests
<1>3. ASSUME NEW a \in Handler, HandlerStep(a)
      PROVE  TxInv' /\ [Book!Next]_<<status, missed, penalties>>
  <2>1. /\ SlotsRest /\ UNCHANGED <<missed, penalties>>
        /\ UNCHANGED status \/ \E o \in Order : EndsByHand(o)
    BY <1>0, <1>3, HandlerEffect DEF users
  <2>2. ASSUME NEW o \in Order, EndsByHand(o) PROVE Book!Drop(o)
    BY <2>1, <2>2 DEF EndsByHand, Book!Drop, Book!End
  <2> QED
    BY <1>0, <2>1, <2>2, TxRests DEF Book!Next
<1>4. ASSUME NEW a \in Slot, SlotStep(a)
      PROVE  TxInv' /\ [Book!Next]_<<status, missed, penalties>>
  <2>0. act[a] \in ActRecord /\ a \in Actor
    BY <1>0 DEF TypeOK, ActType
  <2>1. CASE SlotsRest /\ UNCHANGED <<order, users>>
    BY <1>0, <2>1, TxRests DEF order, users
  <2>2. ASSUME NEW o \in Order, TakeJob(a, o), UNCHANGED <<order, users>>
        PROVE  TxInv' /\ UNCHANGED <<status, missed, penalties>>
    <3> DEFINE x == [IdleAct EXCEPT !.pc = "read", !.kind = "evaluate", !.order = o]
    <3>0. Become(a, x)
      BY <2>2 DEF TakeJob
    <3>1. act'[a].pc \notin InTx /\ \A b \in Slot \ {a} : act'[b] = act[b]
      <4>1. x.pc \notin InTx
        BY DEF IdleAct, InTx
      <4> HIDE DEF x
      <4> QED
        BY <1>0, <2>0, <3>0, <4>1, Others
    <3> QED
      BY <1>0, <2>2, <3>1, TxKept DEF TxInv, MissedEnded, order, users
  <2>3. ASSUME UNCHANGED <<order, users>>, NEW x \in ActRecord, Become(a, x),
               x.order = act[a].order, x.pc \in InTx => act[a].pc \in InTx
        PROVE  TxInv' /\ UNCHANGED <<status, missed, penalties>>
    <3>1. act'[a] = x /\ \A b \in Slot \ {a} : act'[b] = act[b]
      BY <1>0, <2>0, <2>3, Others
    <3> QED
      BY <1>0, <2>3, <3>1, TxKept DEF TxInv, MissedEnded, order, users
  <2>4. ASSUME UpdateOrder(a), UNCHANGED <<order, users>>
        PROVE  TxInv' /\ UNCHANGED <<status, missed, penalties>>
    <3>1. CASE StillAsRead(a)
      <4>1. /\ act'[a] = [act[a] EXCEPT !.pc = "charge"]
            /\ \A b \in Slot \ {a} : act'[b] = act[b]
        BY <1>0, <2>0, <2>4, <3>1, Others DEF UpdateOrder, Go
      <4>2. act'[a].order = act[a].order
        BY <2>0, <4>1 DEF ActRecord
      <4>3. \A b \in Slot \ {a} : act[b].pc \in InTx => act[b].order # act[a].order
        BY <2>4 DEF UpdateOrder, HoldersOf
      <4>4. OneTx'
        <5>1. \A b, c \in Slot \ {a} :
                act'[b].pc \in InTx /\ act'[c].pc \in InTx /\ act'[b].order = act'[c].order => b = c
          BY <4>1 DEF OneTx, TxInv
        <5>2. \A b \in Slot \ {a} : act'[b].pc \in InTx => act'[b].order # act'[a].order
          BY <4>1, <4>2, <4>3
        <5> QED
          BY <5>1, <5>2 DEF OneTx
      <4>5. status[act[a].order] = "CONFIRMED"
        BY <3>1 DEF StillAsRead
      <4>6. TxOwnsOrder' /\ MissedEnded'
        BY <2>4, <4>1, <4>2, <4>5 DEF TxOwnsOrder, MissedEnded, TxInv, order
      <4> QED
        BY <1>0, <2>4, <4>4, <4>6 DEF TxInv, order, users
    <3>2. CASE ~StillAsRead(a)
      <4> DEFINE x == [act[a] EXCEPT !.pc = "unschedule"]
      <4>1. x \in ActRecord /\ Become(a, x) /\ x.order = act[a].order /\ x.pc \notin InTx
        BY <2>0, <2>4, <3>2 DEF UpdateOrder, Go, ActRecord, InTx, Pc
      <4> QED
        BY <2>3, <2>4, <4>1
    <3> QED
      BY <3>1, <3>2
  <2>5. ASSUME ReadOrder(a) \/ LookAtParty(a) \/ Penalise(a) \/ \E u \in User : ReadScore(a, u),
               UNCHANGED <<order, users>>
        PROVE  TxInv' /\ UNCHANGED <<status, missed, penalties>>
    <3>1. PICK x : /\ Become(a, x) /\ x.order = act[a].order
                   /\ x.pc \in InTx => act[a].pc \in InTx
      <4>1. CASE ReadOrder(a)
        <5> DEFINE o == act[a].order
                   y == [act[a] EXCEPT !.pc = "look", !.status = status[o], !.version = version[o]]
        <5>1. Become(a, y)
          BY <4>1 DEF ReadOrder
        <5>2. y.order = act[a].order /\ y.pc \notin InTx
          BY <2>0 DEF ActRecord, InTx
        <5> QED
          BY <5>1, <5>2
      <4>2. CASE LookAtParty(a)
        BY <2>0, <4>2 DEF LookAtParty, Go, ActRecord, InTx
      <4>3. CASE Penalise(a)
        BY <2>0, <4>3 DEF Penalise, ActRecord, InTx
      <4>4. ASSUME NEW u \in User, ReadScore(a, u)
            PROVE  \E x : /\ Become(a, x) /\ x.order = act[a].order
                          /\ x.pc \in InTx => act[a].pc \in InTx
        BY <2>0, <4>4 DEF ReadScore, ActRecord, InTx
      <4> QED
        BY <2>5, <4>1, <4>2, <4>3, <4>4
    <3>2. x \in ActRecord
      BY <1>0, <2>0, <3>1, Others DEF TypeOK, ActType
    <3> QED
      BY <2>3, <2>5, <3>1, <3>2
  <2>6. CASE Commit(a)
    <3> DEFINE o == act[a].order
    <3>1. Book!Miss(o) /\ o \in Order
      BY <2>6, CommitEffect
    <3> DEFINE x == [IdleAct EXCEPT !.pc = "unschedule", !.kind = "evaluate", !.order = o]
    <3>0. Become(a, x)
      BY <2>6 DEF Commit
    <3>2. act'[a].pc \notin InTx /\ \A b \in Slot \ {a} : act'[b] = act[b]
      <4>1. x.pc \notin InTx
        BY DEF IdleAct, InTx
      <4> HIDE DEF x
      <4> QED
        BY <1>0, <2>0, <3>0, <4>1, Others
    <3>3. /\ status' = [status EXCEPT ![o] = "NO_SHOW"] /\ missed' = missed \cup {o}
          /\ status \in [Order -> Status] /\ missed \subseteq Order
      BY <1>0, <2>6 DEF Commit, TypeOK, OrderType
    <3>4. ASSUME NEW b \in Slot, act'[b].pc \in InTx
          PROVE  act'[b] = act[b] /\ status'[act[b].order] = status[act[b].order]
      <4>1. b # a /\ act'[b] = act[b] /\ act[a].pc \in InTx
        BY <2>6, <3>2, <3>4 DEF Commit, InTx
      <4>2. act[b].order # o /\ act[b].order \in Order
        BY <1>0, <3>4, <4>1 DEF TxInv, OneTx, TypeOK, ActType, AtWork, InTx
      <4> QED
        BY <3>3, <4>1, <4>2
    <3>5. \A p \in missed' : status'[p] # "CONFIRMED"
      BY <3>1, <3>3 DEF TxInv, MissedEnded
    <3>6. TxInv'
      BY <1>0, <3>4, <3>5, TxKept DEF TxInv
    <3> QED
      BY <3>1, <3>6 DEF Book!Next
  <2> QED
    BY <1>0, <1>4, <2>1, <2>2, <2>4, <2>5, <2>6, SlotEffect
<1> QED
  BY <1>1, <1>2, <1>3, <1>4 DEF Next

\* Attendance implements the penalty book: an order ends once, and in the step that
\* ends it as missed each participant is penalised once.
THEOREM Implements == Spec => ImplementsBook
<1>1. Init => Book!Init
  BY DEF Init, Book!Init
<1>2. TxInv /\ [Next]_vars => TxInv' /\ [Book!Next]_<<status, missed, penalties>>
  BY TxStep
<1> QED
  BY <1>1, <1>2, TxInit, PTL DEF Spec, ImplementsBook, Book!Spec

-----------------------------------------------------------------------------
(* One penalty for each missed reservation *)

\* The orders of a set that a user takes part in.
Of(u, S) == {p \in S : u \in Party[p]}

\* One more order is one more of them if the user takes part.
LEMMA OneMore ==
  ASSUME NEW S \in SUBSET Order, NEW o \in Order \ S, NEW u
  PROVE  Cardinality(Of(u, S \cup {o}))
           = IF u \in Party[o] THEN Cardinality(Of(u, S)) + 1 ELSE Cardinality(Of(u, S))
<1>1. IsFiniteSet(Of(u, S))
  BY AttendanceAssumption, FS_Subset DEF Of
<1>2. CASE u \in Party[o]
  <2>1. Of(u, S \cup {o}) = Of(u, S) \cup {o} /\ o \notin Of(u, S)
    BY <1>2 DEF Of
  <2> QED
    BY <1>1, <1>2, <2>1, FS_AddElement
<1>3. CASE u \notin Party[o]
  <2>1. Of(u, S \cup {o}) = Of(u, S)
    BY <1>3 DEF Of
  <2> QED
    BY <1>3, <2>1
<1> QED
  BY <1>2, <1>3

\* A step of the penalty book keeps the penalties right.
LEMMA PenaltiesStep ==
  ASSUME TxInv, PenaltiesMatch, [Next]_vars PROVE PenaltiesMatch'
<1>1. CASE \E a \in Slot : Commit(a)
  <2>1. PICK a \in Slot : Commit(a)
    BY <1>1
  <2> DEFINE o == act[a].order
  <2>2. o \in Order \ missed /\ missed \in SUBSET Order /\ Book!Miss(o)
    BY <2>1, CommitEffect DEF TxInv, TypeOK, OrderType
  <2>3. missed' = missed \cup {o}
    BY <2>2 DEF Book!Miss
  <2>4. ASSUME NEW u \in User PROVE penalties'[u] = Cardinality(Of(u, missed'))
    <3>1. penalties[u] = Cardinality(Of(u, missed))
      BY DEF PenaltiesMatch, Of
    <3>2. penalties'[u] = IF u \in Party[o] THEN penalties[u] + 1 ELSE penalties[u]
      BY <2>2 DEF Book!Miss
    <3> QED
      BY <2>2, <2>3, <3>1, <3>2, OneMore
  <2> QED
    BY <2>4 DEF PenaltiesMatch, Of
<1>2. CASE ~ \E a \in Slot : Commit(a)
  <2>1. UNCHANGED <<missed, penalties>>
    BY <1>2, HandlerEffect, QuietEffect, SlotEffect
       DEF Next, TxInv, vars, order, users
  <2> QED
    BY <2>1 DEF PenaltiesMatch
<1> QED
  BY <1>1, <1>2

\* Everybody has one credit log for each of their reservations that was found missed.
THEOREM PenaltiesRight == Spec => []PenaltiesMatch
<1>1. Init => PenaltiesMatch
  <2>1. \A u : {o \in {} : u \in Party[o]} = {}
    OBVIOUS
  <2> QED
    BY <2>1, FS_EmptySet DEF Init, PenaltiesMatch
<1>2. TxInv /\ PenaltiesMatch /\ [Next]_vars => TxInv' /\ PenaltiesMatch'
  BY TxStep, PenaltiesStep
<1> QED
  BY <1>1, <1>2, TxInit, PTL DEF Spec

-----------------------------------------------------------------------------
(* A check-in in time is safe *)

\* Evaluations concern closed windows only; from the look at the participants on,
\* whoever is written as checked in was written too late.
AfterClose ==
    \A a \in Slot :
        /\ act[a].pc \in InTx \cup {"read", "look", "update"} => act[a].order \in closed
        /\ act[a].pc \in InTx \cup {"update"} =>
             checked[act[a].order] \subseteq late[act[a].order]

InTimeInv == TypeOK /\ AfterClose /\ missed \subseteq closed /\ InTimeIsSafe

\* Late check-ins stay late once the window has closed.
LEMMA LateGrows ==
  ASSUME TypeOK, NEW o \in closed, checked[o] \subseteq late[o],
         UNCHANGED arrivals \/ \E p \in Order, u \in User : IsStamped(p, u)
  PROVE  checked'[o] \subseteq late'[o]
<1>1. o \in Order
  BY DEF TypeOK, ArrivalType
<1>2. ASSUME NEW p \in Order, NEW u \in User, IsStamped(p, u)
      PROVE  checked'[o] \subseteq late'[o]
  BY <1>1, <1>2 DEF IsStamped, TypeOK, ArrivalType
<1> QED
  BY <1>2 DEF arrivals

\* The invariant lasts while nothing is missed and no slot begins or looks.
LEMMA InTimeRests ==
  ASSUME InTimeInv, TypeOK', SlotsRest, UNCHANGED missed, closed \subseteq closed',
         UNCHANGED arrivals \/ \E o \in Order, u \in User : IsStamped(o, u)
  PROVE  InTimeInv'
<1>1. AfterClose'
  <2>1. ASSUME NEW a \in Slot, act'[a].pc \in InTx \cup {"read", "look", "update"}
        PROVE  act'[a] = act[a]
    BY <2>1 DEF SlotsRest, InTx
  <2> QED
    BY <2>1, LateGrows DEF AfterClose, InTimeInv
<1>2. (missed \subseteq closed)' /\ InTimeIsSafe'
  BY LateGrows DEF InTimeInv, InTimeIsSafe
<1> QED
  BY <1>1, <1>2 DEF InTimeInv

\* Every step keeps it.
LEMMA InTimeStep ==
  ASSUME InTimeInv, [Next]_vars PROVE InTimeInv'
<1>0. TypeOK /\ TypeOK' /\ Slot \subseteq Actor
  BY TypeStep DEF InTimeInv, Actor
<1>1. CASE UNCHANGED vars
  BY <1>0, <1>1, InTimeRests DEF vars, SlotsRest, arrivals
<1>2. CASE EnvStep \/ \E a \in Actor : Unschedule(a)
  BY <1>0, <1>2, QuietEffect, InTimeRests DEF order
<1>3. CASE \E a \in Handler : HandlerStep(a)
  BY <1>0, <1>3, HandlerEffect, InTimeRests
<1>4. ASSUME NEW a \in Slot, SlotStep(a) PROVE InTimeInv'
  <2>0. a \in Actor /\ act[a] \in ActRecord
    BY <1>0 DEF TypeOK, ActType
  <2>1. ASSUME UNCHANGED <<missed, arrivals, closed>>, NEW x, Become(a, x),
               x.pc \in InTx \cup {"read", "look", "update"} => x.order \in closed,
               x.pc \in InTx \cup {"update"} => checked[x.order] \subseteq late[x.order]
        PROVE  InTimeInv'
    <3>1. act'[a] = x /\ \A b \in Slot \ {a} : act'[b] = act[b]
      BY <1>0, <2>0, <2>1, Others
    <3>2. checked' = checked /\ late' = late
      BY <2>1 DEF arrivals
    <3>3. AfterClose'
      BY <2>1, <3>1, <3>2 DEF AfterClose, InTimeInv
    <3> QED
      BY <1>0, <2>1, <3>2, <3>3 DEF InTimeInv, InTimeIsSafe
  <2>2. CASE SlotsRest /\ UNCHANGED <<order, arrivals, closed>>
    BY <1>0, <2>2, InTimeRests DEF order
  <2>3. ASSUME NEW o \in Order, TakeJob(a, o), UNCHANGED <<order, arrivals, closed>>
        PROVE  InTimeInv'
    <3> DEFINE x == [IdleAct EXCEPT !.pc = "read", !.kind = "evaluate", !.order = o]
    <3>1. Become(a, x) /\ o \in closed
      BY <2>3 DEF TakeJob
    <3>2. x.pc = "read" /\ x.order = o
      BY DEF IdleAct
    <3> HIDE DEF x
    <3> QED
      BY <2>1, <2>3, <3>1, <3>2 DEF order, InTx
  <2>4. ASSUME ReadOrder(a), UNCHANGED <<order, arrivals, closed>> PROVE InTimeInv'
    <3> DEFINE o == act[a].order
               x == [act[a] EXCEPT !.pc = "look", !.status = status[o], !.version = version[o]]
    <3>1. Become(a, x) /\ o \in closed
      BY <2>4 DEF ReadOrder, InTimeInv, AfterClose
    <3>2. x.pc = "look" /\ x.order = o
      BY <2>0 DEF ActRecord
    <3> HIDE DEF x
    <3> QED
      BY <2>1, <2>4, <3>1, <3>2 DEF order, InTx
  <2>5. ASSUME LookAtParty(a), UNCHANGED <<order, arrivals, closed>> PROVE InTimeInv'
    <3>1. PICK pc \in {"update", "finish"} :
            Go(a, pc) /\ (pc = "update" => NobodyCame(act[a].order))
      BY <2>5 DEF LookAtParty
    <3> DEFINE x == [act[a] EXCEPT !.pc = pc]
    <3>2. Become(a, x) /\ x.pc = pc /\ x.order = act[a].order
      BY <2>0, <3>1 DEF Go, ActRecord
    <3>3. act[a].order \in closed
      BY <2>5 DEF LookAtParty, InTimeInv, AfterClose
    <3> HIDE DEF x
    <3> QED
      BY <2>1, <2>5, <3>1, <3>2, <3>3 DEF order, InTx, NobodyCame
  <2>6. ASSUME UpdateOrder(a) \/ Penalise(a) \/ \E u \in User : ReadScore(a, u),
               UNCHANGED <<order, arrivals, closed>>
        PROVE  InTimeInv'
    <3>1. act[a].pc \in InTx \cup {"update"}
      BY <2>6 DEF UpdateOrder, Penalise, ReadScore, InTx
    <3>2. PICK x : Become(a, x) /\ x.order = act[a].order
      <4>1. CASE UpdateOrder(a)
        BY <2>0, <4>1 DEF UpdateOrder, Go, ActRecord
      <4>2. CASE Penalise(a)
        <5> DEFINE u == act[a].user
                   charged == act[a].charged \cup {u}
                   pc == IF charged = Party[act[a].order] THEN "commit" ELSE "charge"
                   after == [act[a].after EXCEPT ![u] = Penalty(act[a].seen)]
                   y == [act[a] EXCEPT !.pc = pc, !.user = None, !.seen = 0,
                                       !.charged = charged, !.after = after]
        <5>1. Become(a, y)
          BY <4>2 DEF Penalise
        <5>2. y.order = act[a].order
          BY <2>0 DEF ActRecord
        <5> HIDE DEF y
        <5> QED
          BY <5>1, <5>2
      <4>3. ASSUME NEW u \in User, ReadScore(a, u)
            PROVE  \E x : Become(a, x) /\ x.order = act[a].order
        <5> DEFINE y == [act[a] EXCEPT !.pc = "write", !.user = u, !.seen = score[u]]
        <5>1. Become(a, y)
          BY <4>3 DEF ReadScore
        <5>2. y.order = act[a].order
          BY <2>0 DEF ActRecord
        <5> QED
          BY <5>1, <5>2
      <4> QED
        BY <2>6, <4>1, <4>2, <4>3
    <3> QED
      BY <2>1, <2>6, <3>1, <3>2 DEF order, InTimeInv, AfterClose
  <2>7. CASE Commit(a)
    <3> DEFINE o == act[a].order
               x == [IdleAct EXCEPT !.pc = "unschedule", !.kind = "evaluate", !.order = o]
    <3>1. Become(a, x) /\ missed' = missed \cup {o} /\ UNCHANGED <<checked, late, closed>>
      BY <2>7 DEF Commit, arrivals, rest
    <3>2. x.pc = "unschedule"
      BY DEF IdleAct
    <3>3. o \in closed /\ checked[o] \subseteq late[o]
      BY <2>7 DEF Commit, InTimeInv, AfterClose, InTx
    <3> HIDE DEF x
    <3>4. act'[a] = x /\ \A b \in Slot \ {a} : act'[b] = act[b]
      BY <1>0, <2>0, <3>1, Others
    <3>5. AfterClose'
      BY <3>1, <3>2, <3>4 DEF AfterClose, InTimeInv, InTx
    <3> QED
      BY <1>0, <3>1, <3>3, <3>5 DEF InTimeInv, InTimeIsSafe
  <2> QED
    BY <1>0, <1>4, <2>2, <2>3, <2>4, <2>5, <2>6, <2>7, SlotEffect
<1> QED
  BY <1>1, <1>2, <1>3, <1>4 DEF Next

\* Nobody is penalised for an order that a check-in was written for in time.
THEOREM InTimeSafe == Spec => []InTimeIsSafe
<1>1. Init => InTimeInv
  <2>1. Init => AfterClose
    BY DEF Init, AfterClose, Actor, IdleAct, InTx
  <2> QED
    BY <2>1, TypeInit DEF Init, InTimeInv, InTimeIsSafe
<1>2. InTimeInv /\ [Next]_vars => InTimeInv'
  BY InTimeStep
<1>3. InTimeInv => InTimeIsSafe
  BY DEF InTimeInv
<1> QED
  BY <1>1, <1>2, <1>3, PTL DEF Spec

-----------------------------------------------------------------------------
(* What credit scores are worth *)

\* A credit score, or one that is about to be written, with the penalties it stands for.
Worth(n) == Delta * n
Floor == IF Start > Delta THEN Start - Delta ELSE 0

\* The arithmetic of penalties.
LEMMA WorthIs ==
  /\ Worth(0) = 0
  /\ \A n \in Nat : Worth(n) \in Nat /\ Worth(n + 1) = Worth(n) + Delta
<1>1. Delta \in Nat
  BY AttendanceAssumption
<1>2. Delta * 0 = 0 /\ \A n \in Nat : Delta * n \in Nat /\ Delta * (n + 1) = Delta * n + Delta
  BY <1>1
<1> QED
  BY <1>2 DEF Worth

\* The rule takes at most Delta, and from somebody who has at most the start score it
\* leaves at most the floor.
LEMMA PenaltyIs ==
  ASSUME NEW seen \in Nat
  PROVE  /\ Penalty(seen) \in Nat /\ Penalty(seen) + Delta >= seen
         /\ seen <= Start => Penalty(seen) <= Floor
BY AttendanceAssumption DEF Penalty, Floor

ScoreOk(n, x) == x + Worth(n) >= Start /\ x <= IF n = 0 THEN Start ELSE Floor

\* The score an evaluation has read may be old, but has not more penalties than there
\* are now; what it will write is one penalty less than that.
SeenOk == \A a \in Slot : act[a].pc = "write" =>
    act[a].seen <= Start /\ act[a].seen + Worth(penalties[act[a].user]) >= Start

ChargedOk == \A a \in Slot : \A u \in act[a].charged :
    /\ act[a].after[u] <= Floor
    /\ act[a].after[u] + Worth(penalties[u]) + Delta >= Start

CreditInv ==
    TypeOK /\ SeenOk /\ ChargedOk /\ \A u \in User : ScoreOk(penalties[u], score[u])

\* The invariant says what the property does.
LEMMA CreditIsScore == CreditInv => ScoreWithinLogs
<1>1. ASSUME CreditInv, NEW u \in User
      PROVE  /\ score[u] + Delta * penalties[u] >= Start
             /\ score[u] <= IF penalties[u] = 0 THEN Start ELSE Floor
  BY <1>1 DEF CreditInv, ScoreOk, Worth
<1> QED
  BY <1>1 DEF ScoreWithinLogs, Floor

\* The invariant lasts while users are left alone and no slot reads or charges.
LEMMA CreditRests ==
  ASSUME CreditInv, TypeOK', SlotsRest, UNCHANGED users PROVE CreditInv'
<1>1. score' = score /\ penalties' = penalties
  BY DEF users
<1>2. SeenOk'
  BY <1>1 DEF SeenOk, CreditInv, SlotsRest
<1>3. ChargedOk'
  <2>1. \A b \in Slot : act'[b] = act[b] \/ act'[b].charged = {}
    BY DEF SlotsRest
  <2> QED
    BY <1>1, <2>1 DEF ChargedOk, CreditInv
<1> QED
  BY <1>1, <1>2, <1>3 DEF CreditInv

\* It lasts when one slot is replaced by a record for which it holds.
LEMMA CreditBecomes ==
  ASSUME CreditInv, TypeOK', UNCHANGED users, NEW a \in Slot, NEW x, Become(a, x),
         x.pc = "write" => x.seen <= Start /\ x.seen + Worth(penalties[x.user]) >= Start,
         \A u \in x.charged : /\ x.after[u] <= Floor
                              /\ x.after[u] + Worth(penalties[u]) + Delta >= Start
  PROVE  CreditInv'
<1>0. TypeOK /\ Slot \subseteq Actor
  BY DEF CreditInv, Actor
<1>1. act'[a] = x /\ \A b \in Slot \ {a} : act'[b] = act[b]
  BY <1>0, Others
<1>2. score' = score /\ penalties' = penalties
  BY DEF users
<1>3. SeenOk'
  BY <1>1, <1>2 DEF SeenOk, CreditInv
<1>4. ChargedOk'
  BY <1>1, <1>2 DEF ChargedOk, CreditInv
<1> QED
  BY <1>2, <1>3, <1>4 DEF CreditInv

\* A commit writes what was charged, and adds a penalty to whoever was.
LEMMA CreditCommit ==
  ASSUME CreditInv, TypeOK', NEW a \in Slot, Commit(a) PROVE CreditInv'
<1> DEFINE o == act[a].order
           x == [IdleAct EXCEPT !.pc = "unschedule", !.kind = "evaluate", !.order = o]
<1>0. TypeOK /\ a \in Actor /\ Slot \subseteq Actor /\ act[a] \in ActRecord
  BY DEF CreditInv, Actor, TypeOK, ActType
<1>1. Become(a, x)
  BY DEF Commit
<1>2. x.pc = "unschedule" /\ x.charged = {}
  BY DEF IdleAct
<1> HIDE DEF x
<1>3. act'[a] = x /\ \A b \in Slot \ {a} : act'[b] = act[b]
  BY <1>0, <1>1, Others
<1>4. ASSUME NEW u \in User
      PROVE  /\ penalties[u] \in Nat /\ Worth(penalties[u]) \in Nat
             /\ penalties'[u] \in {penalties[u], penalties[u] + 1}
             /\ Worth(penalties'[u]) \in {Worth(penalties[u]), Worth(penalties[u]) + Delta}
             /\ Worth(penalties'[u]) >= Worth(penalties[u])
  <2>1. penalties[u] \in Nat
    BY <1>0 DEF TypeOK, UserType
  <2>2. penalties'[u] \in {penalties[u], penalties[u] + 1}
    BY DEF Commit
  <2>3. Worth(penalties[u]) \in Nat /\ Worth(penalties[u] + 1) = Worth(penalties[u]) + Delta
    BY <2>1, WorthIs
  <2> QED
    BY <2>1, <2>2, <2>3, AttendanceAssumption
<1>5. SeenOk'
  <2>1. ASSUME NEW b \in Slot, act'[b].pc = "write"
        PROVE  /\ act'[b].seen <= Start
               /\ act'[b].seen + Worth(penalties'[act'[b].user]) >= Start
    <3>1. b # a /\ act'[b] = act[b]
      BY <1>2, <1>3, <2>1
    <3>2. act[b].seen \in Nat /\ act[b].user \in User
      BY <1>0, <2>1, <3>1, AttendanceAssumption
         DEF TypeOK, ActType, ActRecord, AtWork
    <3>3. act[b].seen <= Start /\ act[b].seen + Worth(penalties[act[b].user]) >= Start
      BY <2>1, <3>1 DEF CreditInv, SeenOk
    <3>4. Worth(penalties'[act[b].user]) >= Worth(penalties[act[b].user])
          /\ Worth(penalties[act[b].user]) \in Nat
          /\ Worth(penalties'[act[b].user]) \in Nat
      BY <1>4, <3>2, AttendanceAssumption
    <3> QED
      BY <3>1, <3>2, <3>3, <3>4, AttendanceAssumption
  <2> QED
    BY <2>1 DEF SeenOk
<1>6. ChargedOk'
  <2>1. ASSUME NEW b \in Slot, NEW u \in act'[b].charged
        PROVE  /\ act'[b].after[u] <= Floor
               /\ act'[b].after[u] + Worth(penalties'[u]) + Delta >= Start
    <3>1. b # a /\ act'[b] = act[b]
      BY <1>2, <1>3, <2>1
    <3>2. u \in User /\ act[b].after[u] \in Nat
      BY <1>0, <2>1, <3>1 DEF TypeOK, ActType, ActRecord
    <3>3. act[b].after[u] <= Floor /\ act[b].after[u] + Worth(penalties[u]) + Delta >= Start
      BY <2>1, <3>1 DEF CreditInv, ChargedOk
    <3>4. /\ Worth(penalties'[u]) >= Worth(penalties[u])
          /\ Worth(penalties[u]) \in Nat /\ Worth(penalties'[u]) \in Nat
      BY <1>4, <3>2, AttendanceAssumption
    <3> QED
      BY <3>1, <3>2, <3>3, <3>4, AttendanceAssumption
  <2> QED
    BY <2>1 DEF ChargedOk
<1>7. ASSUME NEW u \in User PROVE ScoreOk(penalties'[u], score'[u])
  <2>1. CASE u \in act[a].charged
    <3>1. score'[u] = act[a].after[u] /\ penalties'[u] = penalties[u] + 1
      BY <2>1 DEF Commit
    <3>2. act[a].after[u] <= Floor /\ act[a].after[u] + Worth(penalties[u]) + Delta >= Start
      BY <2>1 DEF CreditInv, ChargedOk
    <3>3. act[a].after[u] \in Nat /\ penalties[u] \in Nat /\ Worth(penalties[u]) \in Nat
          /\ Worth(penalties[u] + 1) = Worth(penalties[u]) + Delta
      BY <1>0, <1>4, WorthIs DEF ActRecord
    <3> QED
      BY <3>1, <3>2, <3>3, AttendanceAssumption DEF ScoreOk
  <2>2. CASE u \notin act[a].charged
    <3>1. score'[u] = score[u] /\ penalties'[u] = penalties[u]
      BY <2>2 DEF Commit
    <3> QED
      BY <3>1 DEF CreditInv
  <2> QED
    BY <2>1, <2>2
<1> QED
  BY <1>5, <1>6, <1>7 DEF CreditInv

\* Every step keeps it.
LEMMA CreditStep ==
  ASSUME CreditInv, [Next]_vars PROVE CreditInv'
<1>0. TypeOK /\ TypeOK' /\ Slot \subseteq Actor
  BY TypeStep DEF CreditInv, Actor
<1>1. CASE UNCHANGED vars
  BY <1>0, <1>1, CreditRests DEF vars, SlotsRest, users
<1>2. CASE EnvStep \/ \E a \in Actor : Unschedule(a)
  BY <1>0, <1>2, QuietEffect, CreditRests
<1>3. CASE \E a \in Handler : HandlerStep(a)
  BY <1>0, <1>3, HandlerEffect, CreditRests
<1>4. ASSUME NEW a \in Slot, SlotStep(a) PROVE CreditInv'
  <2>0. a \in Actor /\ act[a] \in ActRecord /\ AtWork(a, act[a])
    BY <1>0 DEF TypeOK, ActType
  <2>1. ASSUME NEW o \in Order, TakeJob(a, o), UNCHANGED users PROVE CreditInv'
    <3> DEFINE x == [IdleAct EXCEPT !.pc = "read", !.kind = "evaluate", !.order = o]
    <3>1. Become(a, x)
      BY <2>1 DEF TakeJob
    <3>2. x.pc # "write" /\ x.charged = {}
      BY DEF IdleAct
    <3> HIDE DEF x
    <3> QED
      BY <1>0, <2>1, <3>1, <3>2, CreditBecomes
  <2>2. ASSUME ReadOrder(a), UNCHANGED users PROVE CreditInv'
    <3> DEFINE o == act[a].order
               x == [act[a] EXCEPT !.pc = "look", !.status = status[o], !.version = version[o]]
    <3>1. Become(a, x) /\ act[a].charged = {}
      BY <2>0, <2>2 DEF ReadOrder, AtWork, InTx
    <3>2. x.pc # "write" /\ x.charged = {}
      BY <2>0, <3>1 DEF ActRecord
    <3> HIDE DEF x
    <3> QED
      BY <1>0, <2>2, <3>1, <3>2, CreditBecomes
  <2>3. ASSUME LookAtParty(a) \/ UpdateOrder(a), UNCHANGED users PROVE CreditInv'
    <3>1. PICK pc \in {"update", "finish", "charge", "unschedule"} : Go(a, pc)
      BY <2>3 DEF LookAtParty, UpdateOrder
    <3> DEFINE x == [act[a] EXCEPT !.pc = pc]
    <3>2. act[a].charged = {}
      BY <2>0, <2>3 DEF LookAtParty, UpdateOrder, AtWork, InTx
    <3>3. Become(a, x) /\ x.pc # "write" /\ x.charged = {}
      BY <2>0, <3>1, <3>2 DEF Go, ActRecord
    <3> HIDE DEF x
    <3> QED
      BY <1>0, <2>3, <3>3, CreditBecomes
  <2>4. ASSUME NEW u \in User, ReadScore(a, u), UNCHANGED users PROVE CreditInv'
    <3> DEFINE x == [act[a] EXCEPT !.pc = "write", !.user = u, !.seen = score[u]]
    <3>1. Become(a, x)
      BY <2>4 DEF ReadScore
    <3>2. /\ x.user = u /\ x.seen = score[u]
          /\ x.charged = act[a].charged /\ x.after = act[a].after
      BY <2>0 DEF ActRecord
    <3>3. score[u] <= Start /\ score[u] + Worth(penalties[u]) >= Start
      <4>1. ScoreOk(penalties[u], score[u]) /\ score[u] \in Nat
        BY DEF CreditInv, TypeOK, UserType
      <4> QED
        BY <4>1, AttendanceAssumption DEF ScoreOk, Floor
    <3>4. \A v \in act[a].charged : /\ act[a].after[v] <= Floor
                                    /\ act[a].after[v] + Worth(penalties[v]) + Delta >= Start
      BY DEF CreditInv, ChargedOk
    <3> HIDE DEF x
    <3> QED
      BY <1>0, <2>4, <3>1, <3>2, <3>3, <3>4, CreditBecomes
  <2>5. ASSUME Penalise(a), UNCHANGED users PROVE CreditInv'
    <3> DEFINE u == act[a].user
               charged == act[a].charged \cup {u}
               pc == IF charged = Party[act[a].order] THEN "commit" ELSE "charge"
               after == [act[a].after EXCEPT ![u] = Penalty(act[a].seen)]
               x == [act[a] EXCEPT !.pc = pc, !.user = None, !.seen = 0,
                                   !.charged = charged, !.after = after]
    <3>1. Become(a, x) /\ act[a].pc = "write"
      BY <2>5 DEF Penalise
    <3>2. x.pc = pc /\ x.charged = charged /\ x.after = after
      BY <2>0 DEF ActRecord
    <3>3. /\ act[a].after \in [User -> Nat] /\ act[a].charged \subseteq User
          /\ u \in User /\ u \notin act[a].charged /\ act[a].seen \in Nat
      BY <2>0, <3>1, AttendanceAssumption DEF ActRecord, AtWork
    <3>4. act[a].seen <= Start /\ act[a].seen + Worth(penalties[u]) >= Start
      BY <3>1 DEF CreditInv, SeenOk
    <3>5. after[u] <= Floor /\ after[u] + Worth(penalties[u]) + Delta >= Start
      <4>1. after[u] = Penalty(act[a].seen)
        BY <3>3
      <4>2. /\ Penalty(act[a].seen) \in Nat /\ Penalty(act[a].seen) + Delta >= act[a].seen
            /\ Penalty(act[a].seen) <= Floor
        BY <3>3, <3>4, PenaltyIs
      <4>3. Worth(penalties[u]) \in Nat
        BY <1>0, <3>3, WorthIs DEF TypeOK, UserType
      <4> QED
        BY <3>3, <3>4, <4>1, <4>2, <4>3, AttendanceAssumption
    <3>6. \A v \in act[a].charged :
            after[v] <= Floor /\ after[v] + Worth(penalties[v]) + Delta >= Start
      BY <3>3 DEF CreditInv, ChargedOk
    <3>7. pc # "write"
      OBVIOUS
    <3> HIDE DEF x, after, pc
    <3> QED
      BY <1>0, <2>5, <3>1, <3>2, <3>5, <3>6, <3>7, CreditBecomes
  <2> QED
    BY <1>0, <1>4, <2>1, <2>2, <2>3, <2>4, <2>5, CreditRests, CreditCommit, SlotEffect
<1> QED
  BY <1>1, <1>2, <1>3, <1>4 DEF Next

\* Nobody loses more credit than the logs say, and who has a log has lost at least one
\* penalty, whatever evaluations overlap.
THEOREM ScoreSafe == Spec => []ScoreWithinLogs
<1>1. Init => CreditInv
  <2>1. Init => SeenOk /\ ChargedOk
    BY DEF Init, SeenOk, ChargedOk, Actor, IdleAct
  <2>2. ASSUME Init, NEW u \in User PROVE ScoreOk(penalties[u], score[u])
    BY <2>2, WorthIs, AttendanceAssumption DEF Init, ScoreOk
  <2> QED
    BY <2>1, <2>2, TypeInit DEF CreditInv
<1>2. CreditInv /\ [Next]_vars => CreditInv'
  BY CreditStep
<1> QED
  BY <1>1, <1>2, CreditIsScore, PTL DEF Spec
=============================================================================
