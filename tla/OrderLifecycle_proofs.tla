----------------------- MODULE OrderLifecycle_proofs -----------------------
(***************************************************************************)
(* Proofs about OrderLifecycle: type correctness, the agreement of order   *)
(* statuses, payments and the callbacks' answers, and that it implements   *)
(* the abstract OrderTable, for any orders, handlers, slots and faults.    *)
(***************************************************************************)
EXTENDS OrderLifecycle, TLAPS

-----------------------------------------------------------------------------
(* Type correctness *)

\* The initial state is well typed.
LEMMA TypeInit == Init => TypeOK
<1> SUFFICES ASSUME Init PROVE TypeOK
  OBVIOUS
<1>1. RowsType
  BY DEF Init, RowsType, RecordRow, NoRecord, Status, PayStatus
<1>2. JobType
  BY DEF Init, JobType
<1>3. ActType
  BY DEF Init, ActType, ActRecord, AtWork, IdleAct, ActPc
<1>4. TimerType
  BY DEF Init, TimerType, IdleTimer
<1>5. /\ overdue \subseteq Order /\ creating \subseteq Order
      /\ compensated \in [Order -> Status \cup {"none"}]
  BY OrderAssumption DEF Init
<1> QED
  BY <1>1, <1>2, <1>3, <1>4, <1>5 DEF TypeOK

\* What a step leaves alone keeps its type.
LEMMA Frame ==
  ASSUME TypeOK
  PROVE  /\ UNCHANGED rows => RowsType'
         /\ UNCHANGED job => JobType'
         /\ UNCHANGED act => ActType'
         /\ UNCHANGED timer => TimerType'
         /\ UNCHANGED overdue => (overdue \subseteq Order)'
         /\ UNCHANGED creating => (creating \subseteq Order)'
         /\ UNCHANGED compensated => (compensated \in [Order -> Status \cup {"none"}])'
BY DEF TypeOK, rows, RowsType, JobType, ActType, AtWork, TimerType

\* An actor may become what it may be: its record is replaced by another one of the
\* type.
LEMMA BecomeType ==
  ASSUME ActType, NEW a \in Actor, NEW x \in ActRecord, AtWork(x), Become(a, x)
  PROVE  ActType'
<1>1. /\ act' \in [Actor -> ActRecord]
      /\ act'[a] = x
      /\ \A b \in Actor \ {a} : act'[b] = act[b]
  BY DEF ActType, Become
<1>2. ASSUME NEW b \in Actor PROVE AtWork(act'[b])
  BY <1>1 DEF ActType
<1> QED
  BY <1>1, <1>2 DEF ActType

\* An idle actor is of the type.
LEMMA IdleActType == IdleAct \in ActRecord /\ AtWork(IdleAct)
BY DEF IdleAct, ActRecord, AtWork, ActPc

\* An actor that concludes stays within the type.
LEMMA ConcludeType ==
  ASSUME ActType, NEW a \in Actor, act[a].pc # "idle",
         NEW answer \in {"ok", "badRequest", "conflict", "late"}, Conclude(a, answer)
  PROVE  ActType'
<1>1. act[a] \in ActRecord /\ AtWork(act[a])
  BY DEF ActType
<1>2. CASE act[a].kind = "pay"
  <2> DEFINE x == [act[a] EXCEPT !.pc = "answered", !.answer = answer]
  <2>1. x \in ActRecord /\ AtWork(x)
    BY <1>1, <1>2 DEF ActRecord, AtWork, ActPc
  <2> QED
    BY <1>2, <2>1, BecomeType DEF Conclude
<1>3. CASE act[a].kind = "timeout"
  <2> DEFINE x == [act[a] EXCEPT !.pc = "finish"]
  <2>1. x \in ActRecord /\ AtWork(x)
    BY <1>1 DEF ActRecord, AtWork, ActPc
  <2> QED
    BY <1>3, <2>1, BecomeType DEF Conclude
<1>4. CASE act[a].kind \notin {"pay", "timeout"}
  BY <1>4, IdleActType, BecomeType DEF Conclude
<1> QED
  BY <1>2, <1>3, <1>4

\* A payment record may be replaced by another one of the type.
LEMMA WithType ==
  ASSUME RowsType, NEW o \in Order, NEW r \in RecordId, NEW row \in RecordRow,
         record' = With(o, r, row), UNCHANGED <<status, version>>
  PROVE  RowsType'
<1> DEFINE n == [record[o] EXCEPT ![r] = row]
<1>1. n \in [RecordId -> RecordRow]
  BY DEF RowsType
<1>2. record' = [record EXCEPT ![o] = n]
  BY DEF With
<1> HIDE DEF n
<1>3. record' \in [Order -> [RecordId -> RecordRow]]
  BY <1>1, <1>2 DEF RowsType
<1> QED
  BY <1>3 DEF RowsType

\* A committed transition keeps the types.
LEMMA TypeCommit ==
  ASSUME TypeOK, NEW a \in Actor, Commit(a) PROVE TypeOK'
<1> DEFINE o == act[a].order
<1>1. /\ act[a] \in ActRecord /\ AtWork(act[a]) /\ o \in Order
      /\ act[a].kind \in Kind
  BY DEF TypeOK, ActType, AtWork, Commit
<1>2. RowsType'
  <2>1. Target(act[a].kind) \in Status
    BY DEF Target, Status
  <2>2. RecordsAfter(a) \in [RecordId -> RecordRow]
    <3>1. ASSUME NEW r \in RecordId PROVE RecordsAfter(a)[r] \in RecordRow
      <4>1. record[o][r] \in RecordRow
        BY <1>1 DEF TypeOK, RowsType
      <4>2. /\ [record[o][r] EXCEPT !.state = "PAID"] \in RecordRow
            /\ [record[o][r] EXCEPT !.state = "FAILED"] \in RecordRow
        BY <4>1 DEF RecordRow, PayStatus
      <4>3. RecordsAfter(a)[r] \in {record[o][r], [record[o][r] EXCEPT !.state = "PAID"],
                                    [record[o][r] EXCEPT !.state = "FAILED"]}
        BY DEF RecordsAfter
      <4> QED
        BY <4>1, <4>2, <4>3
    <3> QED
      BY <3>1 DEF RecordsAfter
  <2>3. status' \in [Order -> Status] /\ version' \in [Order -> Nat]
    <3>1. status' \in [Order -> Status]
      BY <2>1 DEF TypeOK, RowsType, Commit
    <3>2. version' \in [Order -> Nat]
      <4>1. version' = [version EXCEPT ![o] = version[o] + 1]
        BY DEF Commit
      <4>2. version \in [Order -> Nat] /\ version[o] + 1 \in Nat
        BY <1>1 DEF TypeOK, RowsType
      <4> QED
        BY <4>1, <4>2
    <3> QED
      BY <3>1, <3>2
  <2>4. record' \in [Order -> [RecordId -> RecordRow]]
    BY <2>2 DEF TypeOK, RowsType, Commit
  <2> QED
    BY <2>3, <2>4 DEF RowsType
<1>3. ActType'
  <2> DEFINE x == [act[a] EXCEPT !.pc = "unschedule"]
  <2>1. x \in ActRecord /\ AtWork(x)
    BY <1>1 DEF ActRecord, AtWork, ActPc, Commit
  <2> QED
    BY <2>1, BecomeType DEF Commit, TypeOK
<1> QED
  BY <1>2, <1>3, Frame DEF Commit, rest, TypeOK

\* The other steps of a transition keep the types.
LEMMA TypeTransition ==
  ASSUME TypeOK, NEW a \in Actor, TransitionStep(a) PROVE TypeOK'
<1> DEFINE o == act[a].order
<1>1. act[a] \in ActRecord /\ AtWork(act[a]) /\ ActType
  BY DEF TypeOK, ActType
<1>2. CASE Load(a)
  <2>1. ActType'
    <3>1. CASE status[o] \in AllowedFrom(act[a].kind)
      <4> DEFINE x == [act[a] EXCEPT !.pc = "commit", !.status = status[o],
                                     !.version = version[o]]
      <4>1. o \in Order /\ act[a].kind \in Kind
        BY <1>1, <1>2 DEF AtWork, Load
      <4>2. status[o] \in Status /\ version[o] \in Nat
        BY <4>1 DEF TypeOK, RowsType
      <4>3. x \in ActRecord /\ AtWork(x)
        BY <1>1, <3>1, <4>1, <4>2 DEF ActRecord, AtWork, ActPc
      <4> QED
        BY <1>1, <1>2, <3>1, <4>3, BecomeType DEF Load
    <3>2. CASE status[o] \notin AllowedFrom(act[a].kind)
      BY <1>1, <1>2, <3>2, ConcludeType DEF Load
    <3> QED
      BY <3>1, <3>2
  <2> QED
    BY <1>2, <2>1, Frame DEF Load, rest, TypeOK
<1>3. CASE Commit(a)
  BY <1>3, TypeCommit
<1>4. CASE Conflict(a)
  <2>1. ActType'
    <3>1. CASE act[a].kind = "pay"
      <4> DEFINE x == [act[a] EXCEPT !.pc = "recheck"]
      <4>1. x \in ActRecord /\ AtWork(x)
        BY <1>1, <1>4, <3>1 DEF ActRecord, AtWork, ActPc, Conflict
      <4> QED
        BY <1>1, <1>4, <3>1, <4>1, BecomeType DEF Conflict
    <3>2. CASE act[a].kind # "pay"
      BY <1>1, <1>4, <3>2, ConcludeType DEF Conflict
    <3> QED
      BY <3>1, <3>2
  <2> QED
    BY <1>4, <2>1, Frame DEF Conflict, rest, TypeOK
<1>5. CASE Unschedule(a)
  <2>1. ActType'
    BY <1>1, <1>5, ConcludeType DEF Unschedule
  <2>2. JobType'
    BY <1>5 DEF Unschedule, TypeOK, JobType
  <2> QED
    BY <1>5, <2>1, <2>2, Frame DEF Unschedule, rest, TypeOK
<1> QED
  BY <1>2, <1>3, <1>4, <1>5 DEF TransitionStep

\* What a handler may turn into when it takes up or goes on with its work.
LEMMA TypeHandler ==
  ASSUME TypeOK, NEW a \in Handler, HandlerStep(a) PROVE TypeOK'
<1> DEFINE o == act[a].order
<1>0. a \in Actor
  BY DEF Actor
<1>1. act[a] \in ActRecord /\ AtWork(act[a]) /\ ActType
  BY <1>0 DEF TypeOK, ActType
<1>2. ASSUME NEW u \in Order, NEW kind \in Kind \ {"pay", "timeout"}, Ask(a, u, kind)
      PROVE  TypeOK'
  <2> DEFINE x == [IdleAct EXCEPT !.pc = "load", !.kind = kind, !.order = u]
  <2>1. x \in ActRecord /\ AtWork(x)
    BY <1>2 DEF IdleAct, ActRecord, AtWork, ActPc
  <2>2. ActType'
    BY <1>0, <1>1, <1>2, <2>1, BecomeType DEF Ask
  <2> QED
    BY <1>2, <2>2, Frame DEF Ask, rest, TypeOK
<1>3. ASSUME NEW u \in Order, StartPayment(a, u) PROVE TypeOK'
  <2> DEFINE x == [IdleAct EXCEPT !.pc = "find", !.kind = "start", !.order = u]
  <2>1. x \in ActRecord /\ AtWork(x)
    BY DEF IdleAct, ActRecord, AtWork, ActPc
  <2>2. ActType'
    BY <1>0, <1>1, <1>3, <2>1, BecomeType DEF StartPayment
  <2> QED
    BY <1>3, <2>2, Frame DEF StartPayment, rest, TypeOK
<1>4. ASSUME NEW u \in Order, NEW r \in RecordId, CallbackRead(a, u, r) PROVE TypeOK'
  <2> DEFINE x == [IdleAct EXCEPT !.pc = "order", !.kind = "pay", !.order = u,
                                  !.record = r, !.state = record[u][r].state]
  <2>1. record[u][r].state \in PayStatus \cup {"none"} /\ r \in Nat
    BY OrderAssumption DEF TypeOK, RowsType, RecordRow, RecordId
  <2>2. x \in ActRecord /\ AtWork(x)
    BY <2>1 DEF IdleAct, ActRecord, AtWork, ActPc, Kind
  <2>3. ActType'
    BY <1>0, <1>1, <1>4, <2>2, BecomeType DEF CallbackRead
  <2> QED
    BY <1>4, <2>3, Frame DEF CallbackRead, rest, TypeOK
<1>5. CASE FindRecord(a)
  <2>1. PICK x \in ActRecord : AtWork(x) /\ Become(a, x)
    <3>1. CASE Become(a, [act[a] EXCEPT !.pc = "create"])
      <4>1. /\ [act[a] EXCEPT !.pc = "create"] \in ActRecord
            /\ AtWork([act[a] EXCEPT !.pc = "create"])
        BY <1>1, <1>5 DEF ActRecord, AtWork, ActPc, FindRecord
      <4> QED
        BY <3>1, <4>1
    <3>2. CASE Leave(a)
      BY <3>2, IdleActType DEF Leave
    <3>3. ASSUME NEW r \in RecordId, Become(a, [act[a] EXCEPT !.pc = "number", !.record = r])
          PROVE  \E x \in ActRecord : AtWork(x) /\ Become(a, x)
      <4>1. r \in Nat
        BY OrderAssumption DEF RecordId
      <4>2. /\ [act[a] EXCEPT !.pc = "number", !.record = r] \in ActRecord
            /\ AtWork([act[a] EXCEPT !.pc = "number", !.record = r])
        BY <1>1, <1>5, <4>1 DEF ActRecord, AtWork, ActPc, FindRecord
      <4> QED
        BY <3>3, <4>2
    <3> QED
      BY <1>5, <3>1, <3>2, <3>3 DEF FindRecord, Live
  <2>2. ActType'
    BY <1>0, <1>1, <2>1, BecomeType
  <2> QED
    BY <1>5, <2>2, Frame DEF FindRecord, rest, TypeOK
<1>6. CASE CreateRecord(a)
  <2>1. PICK r \in RecordId :
          /\ record' = With(o, r, [state |-> "PENDING", numbered |-> FALSE])
          /\ Become(a, [act[a] EXCEPT !.pc = "number", !.record = r])
    BY <1>6 DEF CreateRecord, Free
  <2>2. RowsType'
    <3>1. [state |-> "PENDING", numbered |-> FALSE] \in RecordRow /\ o \in Order
      BY <1>1, <1>6 DEF RecordRow, PayStatus, AtWork, CreateRecord
    <3> QED
      BY <1>6, <2>1, <3>1, WithType DEF CreateRecord, TypeOK
  <2>3. ActType'
    <3> DEFINE x == [act[a] EXCEPT !.pc = "number", !.record = r]
    <3>1. r \in Nat
      BY OrderAssumption DEF RecordId
    <3>2. x \in ActRecord /\ AtWork(x)
      BY <1>1, <1>6, <3>1 DEF ActRecord, AtWork, ActPc, CreateRecord
    <3> QED
      BY <1>0, <1>1, <2>1, <3>2, BecomeType
  <2> QED
    BY <1>6, <2>2, <2>3, Frame DEF CreateRecord, rest, TypeOK
<1>7. CASE NumberRecord(a)
  <2>1. RowsType'
    <3> DEFINE r == act[a].record
               row == [record[o][r] EXCEPT !.numbered = TRUE]
    <3>1. o \in Order /\ r \in RecordId
      BY <1>1, <1>7 DEF AtWork, NumberRecord
    <3>2. record' = record \/ record' = With(o, r, row)
      BY <1>7 DEF NumberRecord
    <3>3. row \in RecordRow
      <4>1. record[o][r] \in RecordRow
        BY <3>1 DEF TypeOK, RowsType
      <4>2. \A x \in RecordRow : [x EXCEPT !.numbered = TRUE] \in RecordRow
        BY DEF RecordRow
      <4> QED
        BY <4>1, <4>2
    <3>4. UNCHANGED <<status, version>> /\ RowsType
      BY <1>7 DEF NumberRecord, TypeOK
    <3>5. record' = record => RowsType'
      BY <3>4 DEF RowsType
    <3> HIDE DEF o, r, row
    <3> QED
      BY <3>1, <3>2, <3>3, <3>4, <3>5, WithType
  <2>2. ActType'
    BY <1>0, <1>1, <1>7, IdleActType, BecomeType DEF NumberRecord, Leave
  <2> QED
    BY <1>7, <2>1, <2>2, Frame DEF NumberRecord, rest, TypeOK
<1>8. CASE CallbackRecheck(a)
  <2> DEFINE x == [act[a] EXCEPT !.pc = "reorder", !.state = record[o][act[a].record].state]
  <2>1. o \in Order /\ act[a].record \in RecordId /\ act[a].kind = "pay"
    BY <1>1, <1>8 DEF AtWork, CallbackRecheck
  <2>2. record[o][act[a].record].state \in PayStatus \cup {"none"}
    BY <2>1 DEF TypeOK, RowsType, RecordRow
  <2>3. x \in ActRecord /\ AtWork(x)
    BY <1>1, <2>1, <2>2 DEF ActRecord, AtWork, ActPc
  <2>4. ActType'
    BY <1>0, <1>1, <1>8, <2>3, BecomeType DEF CallbackRecheck
  <2> QED
    BY <1>8, <2>4, Frame DEF CallbackRecheck, rest, TypeOK
<1>9. CASE CallbackDecide(a)
  <2>1. o \in Order /\ act[a].kind = "pay" /\ act[a].pc # "idle"
    BY <1>1, <1>9 DEF AtWork, CallbackDecide
  <2>2. status[o] \in Status
    BY <2>1 DEF TypeOK, RowsType
  <2>3. ASSUME Become(a, [act[a] EXCEPT !.pc = "compensate", !.status = status[o]])
       PROVE  ActType'
    <3> DEFINE x == [act[a] EXCEPT !.pc = "compensate", !.status = status[o]]
    <3>1. x \in ActRecord /\ AtWork(x)
      BY <1>1, <2>1, <2>2 DEF ActRecord, AtWork, ActPc
    <3> QED
      BY <1>0, <1>1, <2>3, <3>1, BecomeType
  <2>4. ASSUME Become(a, [act[a] EXCEPT !.pc = "load"])
       PROVE  ActType'
    <3> DEFINE x == [act[a] EXCEPT !.pc = "load"]
    <3>1. x \in ActRecord /\ AtWork(x)
      BY <1>1, <2>1 DEF ActRecord, AtWork, ActPc, Kind
    <3> QED
      BY <1>0, <1>1, <2>4, <3>1, BecomeType
  <2>5. ASSUME Conclude(a, "ok") \/ Conclude(a, "conflict")
       PROVE  ActType'
    BY <1>0, <1>1, <2>1, <2>5, ConcludeType
  <2>6. ActType'
    BY <1>9, <2>3, <2>4, <2>5 DEF CallbackDecide
  <2> QED
    BY <1>9, <2>6, Frame DEF CallbackDecide, rest, TypeOK
<1>10. CASE Compensate(a)
  <2>1. ActType'
    BY <1>0, <1>1, <1>10, ConcludeType DEF Compensate
  <2>2. compensated' \in [Order -> Status \cup {"none"}]
    <3>1. act[a].status \in Status \cup {"none"}
      BY <1>1 DEF ActRecord
    <3> QED
      BY <1>10, <3>1 DEF Compensate, TypeOK
  <2> QED
    BY <1>10, <2>1, <2>2, Frame DEF Compensate, rest, TypeOK
<1>11. CASE Answered(a) \/ HandlerDies(a)
  <2>1. ActType'
    BY <1>0, <1>1, <1>11, IdleActType, BecomeType DEF Answered, HandlerDies, Leave
  <2> QED
    BY <1>11, <2>1, Frame DEF Answered, HandlerDies, rest, TypeOK
<1> QED
  BY <1>2, <1>3, <1>4, <1>5, <1>6, <1>7, <1>8, <1>9, <1>10, <1>11 DEF HandlerStep

\* The worker's slots keep the types.
LEMMA TypeSlot ==
  ASSUME TypeOK, NEW a \in Slot, SlotStep(a) PROVE TypeOK'
<1>0. a \in Actor
  BY DEF Actor
<1>1. act[a] \in ActRecord /\ AtWork(act[a]) /\ ActType /\ JobType
  BY <1>0 DEF TypeOK, ActType
<1>2. ASSUME NEW o \in Order, TakeJob(a, o) PROVE TypeOK'
  <2> DEFINE x == [IdleAct EXCEPT !.pc = "load", !.kind = "timeout", !.order = o]
  <2>1. x \in ActRecord /\ AtWork(x)
    BY DEF IdleAct, ActRecord, AtWork, ActPc, Kind
  <2>2. ActType'
    BY <1>0, <1>1, <1>2, <2>1, BecomeType DEF TakeJob
  <2>3. JobType'
    BY <1>1, <1>2 DEF TakeJob, JobType
  <2> QED
    BY <1>2, <2>2, <2>3, Frame DEF TakeJob, rest, TypeOK
<1>3. CASE FinishJob(a) \/ JobFails(a)
  <2>1. ActType'
    BY <1>0, <1>1, <1>3, IdleActType, BecomeType DEF FinishJob, JobFails, Leave
  <2>2. JobType'
    BY <1>1, <1>3 DEF FinishJob, JobFails, JobType
  <2> QED
    BY <1>3, <2>1, <2>2, Frame DEF FinishJob, JobFails, rest, TypeOK
<1> QED
  BY <1>2, <1>3 DEF SlotStep

\* So do the queue, the clock, the timer and the end of the worker process.
LEMMA TypeEnv == ASSUME TypeOK, EnvStep PROVE TypeOK'
<1>1. WorkerExits => ActType' /\ TimerType'
  BY IdleActType DEF WorkerExits, TypeOK, ActType, Actor, TimerType, IdleTimer
<1>2. ASSUME NEW o \in Order, ScheduleCreated(o) PROVE TypeOK'
  <2>1. JobType' /\ (creating \subseteq Order)'
    BY <1>2 DEF ScheduleCreated, TypeOK, JobType
  <2> QED
    BY <1>2, <2>1, Frame DEF ScheduleCreated, TypeOK
<1>3. ASSUME NEW o \in Order, JobStalls(o) PROVE TypeOK'
  <2>1. JobType'
    BY <1>3 DEF JobStalls, TypeOK, JobType
  <2> QED
    BY <1>3, <2>1, Frame DEF JobStalls, rest, TypeOK
<1>4. ASSUME NEW o \in Order, ExpireAtPasses(o) PROVE TypeOK'
  <2>1. (overdue \subseteq Order)'
    BY <1>4 DEF ExpireAtPasses, TypeOK
  <2> QED
    BY <1>4, <2>1, Frame DEF ExpireAtPasses, TypeOK
<1>5. ASSUME NEW o \in Order, RehydrateRemove(o) PROVE TypeOK'
  <2>1. CASE WorkerExits /\ UNCHANGED job
    BY <1>1, <1>5, <2>1, Frame DEF RehydrateRemove, TypeOK
  <2>2. CASE /\ job' = [job EXCEPT ![o] = "absent"]
             /\ timer' = [pc |-> "add", todo |-> timer.todo \ {o}, order |-> o]
             /\ UNCHANGED act
    <3>1. JobType' /\ TimerType'
      BY <2>2 DEF TypeOK, JobType, TimerType
    <3> QED
      BY <1>5, <2>2, <3>1, Frame DEF RehydrateRemove, TypeOK
  <2> QED
    BY <1>5, <2>1, <2>2 DEF RehydrateRemove
<1>6. CASE WorkerDies
  BY <1>1, <1>6, Frame DEF WorkerDies, TypeOK
<1>7. CASE RehydrateRead
  <2>1. TimerType'
    BY <1>7 DEF RehydrateRead, TimerType, IdleTimer, Pending
  <2> QED
    BY <1>7, <2>1, Frame DEF RehydrateRead, TypeOK
<1>8. CASE RehydrateAdd
  <2>1. TimerType'
    BY <1>8 DEF RehydrateAdd, TypeOK, TimerType, IdleTimer
  <2>2. JobType'
    BY <1>8 DEF RehydrateAdd, TypeOK, JobType, TimerType
  <2> QED
    BY <1>8, <2>1, <2>2, Frame DEF RehydrateAdd, TypeOK
<1> QED
  BY <1>2, <1>3, <1>4, <1>5, <1>6, <1>7, <1>8 DEF EnvStep

\* OrderLifecycle is well typed: every reachable state satisfies TypeOK, and so no
\* transition is committed that the code's table of allowed statuses excludes.
THEOREM TypeCorrect == Spec => []TypeOK
<1>1. TypeOK /\ [Next]_vars => TypeOK'
  <2> SUFFICES ASSUME TypeOK, [Next]_vars PROVE TypeOK'
    OBVIOUS
  <2>1. CASE UNCHANGED vars
    BY <2>1, Frame DEF vars, rows, TypeOK
  <2> QED
    BY <2>1, TypeTransition, TypeHandler, TypeSlot, TypeEnv DEF Next
<1> QED
  BY <1>1, TypeInit, PTL DEF Spec

-----------------------------------------------------------------------------
(* Statuses, payments and answers agree *)

\* What an actor whose record is x may rely on, given the payment records rec and
\* the statuses st: its record has its number, what it found paid is paid, and an
\* order that it found moved on has moved on.
Knows(x, rec, st) ==
    /\ x.kind = "pay" => x.order \in Order /\ rec[x.order][x.record].numbered
    /\ x.pc = "number" => rec[x.order][x.record].state # "none"
    /\ x.state = "PAID" => x.kind = "pay" /\ rec[x.order][x.record].state = "PAID"
    /\ x.pc = "unschedule" /\ x.kind = "pay" => rec[x.order][x.record].state = "PAID"
    /\ x.pc = "compensate" => st[x.order] # "PENDING_CONFIRMATION"
    /\ x.answer = "ok" => x.kind = "pay" /\ rec[x.order][x.record].state = "PAID"
    /\ x.answer = "late" => x.kind = "pay" /\ st[x.order] # "PENDING_CONFIRMATION"

\* A record has a number only if it exists.
NumberedExist ==
    \A o \in Order, r \in RecordId :
        record[o][r].numbered => record[o][r].state # "none"

\* The inductive invariant: PaymentsAgree holds because a callback that is under way
\* is for a record with its number, and AnswersAreTrue because what a callback read
\* stays true until it answers.
PaymentInv ==
    /\ TypeOK
    /\ PaymentsAgree
    /\ NumberedExist
    /\ \A a \in Actor : Knows(act[a], record, status)

\* What no step takes back: an order that moved on, a number, a record, a payment.
RowsGrow ==
    /\ \A o \in Order :
         status[o] # "PENDING_CONFIRMATION" => status'[o] # "PENDING_CONFIRMATION"
    /\ \A o \in Order, r \in RecordId :
         /\ record[o][r].numbered => record'[o][r].numbered
         /\ record[o][r].state # "none" => record'[o][r].state # "none"
         /\ record[o][r].state = "PAID" => record'[o][r].state = "PAID"

\* An actor that is left alone may rely on what it could rely on.
LEMMA KnowsKept ==
  ASSUME RowsGrow, NEW x \in ActRecord, AtWork(x), Knows(x, record, status)
  PROVE  Knows(x, record', status')
<1>1. x.kind = "pay" => x.order \in Order /\ x.record \in RecordId
  BY DEF AtWork, Knows
<1>2. x.pc = "number" => x.order \in Order /\ x.record \in RecordId
  BY DEF AtWork
<1>3. x.pc = "compensate" => x.order \in Order
  BY DEF AtWork
<1> QED
  BY <1>1, <1>2, <1>3 DEF Knows, RowsGrow

\* An idle actor relies on nothing.
LEMMA IdleKnows == \A rec, st : Knows(IdleAct, rec, st)
BY DEF Knows, IdleAct

\* One actor becomes x, which may rely on what x says, and the others are left alone.
LEMMA BecomeKnows ==
  ASSUME PaymentInv, RowsGrow, NEW a \in Actor, NEW x, Become(a, x),
         Knows(x, record', status')
  PROVE  \A b \in Actor : Knows(act'[b], record', status')
<1>1. /\ act'[a] = x
      /\ \A b \in Actor \ {a} : act'[b] = act[b]
  BY DEF PaymentInv, TypeOK, ActType, Become
<1>2. ASSUME NEW b \in Actor \ {a} PROVE Knows(act'[b], record', status')
  <2>1. act[b] \in ActRecord /\ AtWork(act[b]) /\ Knows(act[b], record, status)
    BY DEF PaymentInv, TypeOK, ActType
  <2> QED
    BY <1>1, <2>1, KnowsKept
<1> QED
  BY <1>1, <1>2

\* An actor concludes with an answer that is true.
LEMMA ConcludeKnows ==
  ASSUME PaymentInv, RowsGrow, NEW a \in Actor, NEW answer, Conclude(a, answer),
         answer = "ok" /\ act[a].kind = "pay"
            => record'[act[a].order][act[a].record].state = "PAID",
         answer = "late" /\ act[a].kind = "pay"
            => status'[act[a].order] # "PENDING_CONFIRMATION"
  PROVE  \A b \in Actor : Knows(act'[b], record', status')
<1>1. act[a] \in ActRecord /\ Knows(act[a], record', status')
  BY KnowsKept DEF PaymentInv, TypeOK, ActType
<1>2. CASE act[a].kind = "pay"
  <2> DEFINE x == [act[a] EXCEPT !.pc = "answered", !.answer = answer]
  <2>1. Knows(x, record', status')
    BY <1>1, <1>2 DEF Knows, ActRecord
  <2> QED
    BY <1>2, <2>1, BecomeKnows DEF Conclude
<1>3. CASE act[a].kind = "timeout"
  <2> DEFINE x == [act[a] EXCEPT !.pc = "finish"]
  <2>1. Knows(x, record', status')
    BY <1>1, <1>3 DEF Knows, ActRecord
  <2> QED
    BY <1>3, <2>1, BecomeKnows DEF Conclude
<1>4. CASE act[a].kind \notin {"pay", "timeout"}
  BY <1>4, IdleKnows, BecomeKnows DEF Conclude
<1> QED
  BY <1>2, <1>3, <1>4

\* Rows that a step leaves alone grow trivially.
LEMMA RowsKept ==
  ASSUME PaymentInv, UNCHANGED rows PROVE RowsGrow /\ PaymentsAgree' /\ NumberedExist'
BY DEF PaymentInv, rows, RowsGrow, PaymentsAgree, NumberedExist

\* A committed transition started from the status it was let through with, takes only
\* a pending payment, and fails only pending ones of an order it cancels.
LEMMA CommitRows ==
  ASSUME PaymentInv, NEW a \in Actor, Commit(a)
  PROVE  /\ RowsGrow /\ PaymentsAgree' /\ NumberedExist'
         /\ act[a].kind = "pay" => record'[act[a].order][act[a].record].state = "PAID"
<1> DEFINE o == act[a].order
           r == act[a].record
           kind == act[a].kind
<1>1. /\ o \in Order /\ kind \in Kind
      /\ status[o] \in AllowedFrom(kind) /\ status[o] = act[a].status
  BY DEF PaymentInv, TypeOK, ActType, AtWork, Commit, StillAsRead
<1>2. status[o] # "CANCELLED" /\ Target(kind) # "PENDING_CONFIRMATION"
  BY <1>1 DEF AllowedFrom, Target
<1>3. /\ status'[o] = Target(kind)
      /\ record'[o] = RecordsAfter(a)
      /\ \A u \in Order \ {o} : status'[u] = status[u] /\ record'[u] = record[u]
  BY <1>1 DEF PaymentInv, TypeOK, RowsType, Commit
<1>4. kind = "pay" => /\ r \in RecordId
                      /\ record[o][r].state = "PENDING" /\ record[o][r].numbered
                      /\ Target(kind) = "CONFIRMED"
  BY DEF PaymentInv, TypeOK, ActType, AtWork, Knows, Commit, PaymentTaken, Target
<1>5. ASSUME NEW s \in RecordId
      PROVE  /\ record'[o][s].numbered = record[o][s].numbered
             /\ \/ record'[o][s].state = record[o][s].state
                \/ /\ kind = "pay" /\ s = r
                   /\ record'[o][s].state = "PAID"
                \/ /\ Target(kind) = "CANCELLED"
                   /\ record[o][s].state = "PENDING" /\ record'[o][s].state = "FAILED"
  <2>1. record[o][s] \in RecordRow
    BY <1>1 DEF PaymentInv, TypeOK, RowsType
  <2>2. /\ [record[o][s] EXCEPT !.state = "PAID"].state = "PAID"
        /\ [record[o][s] EXCEPT !.state = "PAID"].numbered = record[o][s].numbered
        /\ [record[o][s] EXCEPT !.state = "FAILED"].state = "FAILED"
        /\ [record[o][s] EXCEPT !.state = "FAILED"].numbered = record[o][s].numbered
    BY <2>1 DEF RecordRow
  <2>3. record'[o][s] =
            IF kind = "pay" /\ s = r
            THEN [record[o][s] EXCEPT !.state = "PAID"]
            ELSE IF /\ Target(kind) = "CANCELLED"
                    /\ act[a].status = "PENDING_CONFIRMATION"
                    /\ o \in Paid
                    /\ record[o][s].state = "PENDING"
            THEN [record[o][s] EXCEPT !.state = "FAILED"]
            ELSE record[o][s]
    BY <1>3 DEF RecordsAfter
  <2> QED
    BY <2>2, <2>3
<1>6. kind = "pay" => record'[o][r].state = "PAID"
  <2>1. ASSUME kind = "pay" PROVE record'[o][r].state = "PAID"
    <3>1. record[o][r] \in RecordRow
      BY <1>1, <1>4, <2>1 DEF PaymentInv, TypeOK, RowsType
    <3>2. record'[o][r] = [record[o][r] EXCEPT !.state = "PAID"]
      BY <1>3, <1>4, <2>1 DEF RecordsAfter
    <3> QED
      BY <3>1, <3>2 DEF RecordRow
  <2> QED
    BY <2>1
<1> HIDE DEF o, r, kind
<1>7. RowsGrow
  BY <1>1, <1>2, <1>3, <1>4, <1>5 DEF RowsGrow, PaymentInv
<1>8. PaymentsAgree' /\ NumberedExist'
  <2>1. PaymentsAgree /\ NumberedExist
    BY DEF PaymentInv
  <2>2. ASSUME NEW u \in Order, NEW s \in RecordId
        PROVE  /\ record'[u][s].numbered => record'[u][s].state # "none"
               /\ record'[u][s].state = "PAID" =>
                      record'[u][s].numbered /\ status'[u] # "PENDING_CONFIRMATION"
               /\ record'[u][s].state = "FAILED" => status'[u] = "CANCELLED"
               /\ record'[u][s].numbered = record[u][s].numbered
    <3>1. CASE u # o
      BY <1>3, <2>1, <3>1 DEF PaymentsAgree, NumberedExist
    <3>2. CASE u = o
      <4>1. record[o][s].state # "FAILED"
        BY <1>1, <1>2, <2>1 DEF PaymentsAgree
      <4> QED
        BY <1>1, <1>2, <1>3, <1>4, <1>5, <2>1, <3>2, <4>1 DEF PaymentsAgree, NumberedExist
    <3> QED
      BY <3>1, <3>2
  <2> QED
    BY <2>1, <2>2 DEF PaymentsAgree, NumberedExist
<1> QED
  BY <1>6, <1>7, <1>8 DEF o, r, kind

\* One record of an order is replaced.
LEMMA WithIs ==
  ASSUME RowsType, NEW o \in Order, NEW r \in RecordId, NEW row,
         record' = With(o, r, row)
  PROVE  /\ record'[o][r] = row
         /\ \A s \in RecordId \ {r} : record'[o][s] = record[o][s]
         /\ \A u \in Order \ {o} : record'[u] = record[u]
<1> DEFINE n == [record[o] EXCEPT ![r] = row]
<1>1. n[r] = row /\ \A s \in RecordId \ {r} : n[s] = record[o][s]
  BY DEF RowsType
<1>2. record' = [record EXCEPT ![o] = n]
  BY DEF With
<1> HIDE DEF n
<1>3. record'[o] = n /\ \A u \in Order \ {o} : record'[u] = record[u]
  BY <1>2 DEF RowsType
<1> QED
  BY <1>1, <1>3

\* A new record is pending, without a number, and in nobody's place.
LEMMA CreateRows ==
  ASSUME PaymentInv, NEW a \in Actor, CreateRecord(a)
  PROVE  /\ RowsGrow /\ PaymentsAgree' /\ NumberedExist'
         /\ \A b \in Actor : Knows(act'[b], record', status')
<1>1. PICK o \in Order, r \in RecordId :
        /\ o = act[a].order
        /\ record[o][r].state = "none"
        /\ record' = With(o, r, [state |-> "PENDING", numbered |-> FALSE])
        /\ Become(a, [act[a] EXCEPT !.pc = "number", !.record = r])
  BY DEF CreateRecord, Free, PaymentInv, TypeOK, ActType, AtWork
<1>2. /\ record'[o][r] = [state |-> "PENDING", numbered |-> FALSE]
      /\ \A s \in RecordId \ {r} : record'[o][s] = record[o][s]
      /\ \A u \in Order \ {o} : record'[u] = record[u]
      /\ status' = status
  BY <1>1, WithIs DEF PaymentInv, TypeOK, CreateRecord
<1>3. ~record[o][r].numbered
  BY <1>1 DEF PaymentInv, NumberedExist
<1>4. RowsGrow
  BY <1>1, <1>2, <1>3 DEF RowsGrow
<1>5. PaymentsAgree' /\ NumberedExist'
  BY <1>1, <1>2, <1>3 DEF PaymentInv, PaymentsAgree, NumberedExist
<1>6. \A b \in Actor : Knows(act'[b], record', status')
  <2> DEFINE x == [act[a] EXCEPT !.pc = "number", !.record = r]
  <2>1. /\ act[a] \in ActRecord /\ act[a].kind = "start"
        /\ Knows(act[a], record, status)
    BY DEF PaymentInv, TypeOK, ActType, AtWork, CreateRecord
  <2>2. Knows(x, record', status')
    BY <1>1, <1>2, <2>1 DEF Knows, ActRecord
  <2> QED
    BY <1>1, <1>4, <2>2, BecomeKnows
<1> QED
  BY <1>4, <1>5, <1>6

\* A record is given its number when no other record of the order has one.
LEMMA NumberRows ==
  ASSUME PaymentInv, NEW a \in Actor, NumberRecord(a)
  PROVE  /\ RowsGrow /\ PaymentsAgree' /\ NumberedExist'
         /\ \A b \in Actor : Knows(act'[b], record', status')
<1> DEFINE o == act[a].order
           r == act[a].record
           row == [record[o][r] EXCEPT !.numbered = TRUE]
<1>1. /\ o \in Order /\ r \in RecordId
      /\ record[o][r].state # "none"
  BY DEF PaymentInv, TypeOK, ActType, AtWork, Knows, NumberRecord
<1>2. status' = status /\ Become(a, IdleAct)
  BY DEF NumberRecord, Leave
<1>3. row.numbered /\ row.state = record[o][r].state
  <2>1. record[o][r] \in RecordRow
    BY <1>1 DEF PaymentInv, TypeOK, RowsType
  <2> QED
    BY <2>1 DEF RecordRow
<1>4. \/ record' = record
      \/ record' = With(o, r, row) /\ ~NumberTaken(o, r)
  BY DEF NumberRecord
<1> HIDE DEF o, r, row
<1>5. RowsGrow /\ PaymentsAgree' /\ NumberedExist'
  <2>1. CASE record' = record
    BY <1>2, <2>1 DEF PaymentInv, RowsGrow, PaymentsAgree, NumberedExist
  <2>2. CASE record' = With(o, r, row) /\ ~NumberTaken(o, r)
    <3>1. /\ record'[o][r] = row
          /\ \A s \in RecordId \ {r} : record'[o][s] = record[o][s]
          /\ \A u \in Order \ {o} : record'[u] = record[u]
      BY <1>1, <2>2, WithIs DEF PaymentInv, TypeOK
    <3>2. \A s \in RecordId \ {r} : ~record[o][s].numbered
      BY <2>2 DEF NumberTaken
    <3>3. RowsGrow
      BY <1>1, <1>2, <1>3, <3>1 DEF RowsGrow
    <3>4. NumberedExist'
      BY <1>1, <1>3, <3>1 DEF PaymentInv, NumberedExist
    <3>5. PaymentsAgree'
      BY <1>1, <1>2, <1>3, <3>1, <3>2 DEF PaymentInv, PaymentsAgree
    <3> QED
      BY <3>3, <3>4, <3>5
  <2> QED
    BY <1>4, <2>1, <2>2
<1>6. \A b \in Actor : Knows(act'[b], record', status')
  BY <1>2, <1>5, IdleKnows, BecomeKnows
<1> QED
  BY <1>5, <1>6

\* The steps of a transition keep the invariant.
LEMMA TransitionKnows ==
  ASSUME PaymentInv, NEW a \in Actor, TransitionStep(a)
  PROVE  /\ PaymentsAgree' /\ NumberedExist'
         /\ \A b \in Actor : Knows(act'[b], record', status')
<1>1. /\ act[a] \in ActRecord /\ AtWork(act[a])
      /\ Knows(act[a], record, status)
  BY DEF PaymentInv, TypeOK, ActType
<1>2. CASE Load(a)
  <2> DEFINE x == [act[a] EXCEPT !.pc = "commit", !.status = status[act[a].order],
                                 !.version = version[act[a].order]]
  <2>1. UNCHANGED rows
    BY <1>2 DEF Load, rows
  <2>2. Knows(x, record', status')
    BY <1>1, <1>2, <2>1 DEF Knows, ActRecord, rows, Load
  <2> QED
    BY <1>2, <2>1, <2>2, RowsKept, BecomeKnows, ConcludeKnows DEF Load
<1>3. CASE Commit(a)
  <2> DEFINE x == [act[a] EXCEPT !.pc = "unschedule"]
  <2>1. /\ RowsGrow /\ PaymentsAgree' /\ NumberedExist'
        /\ act[a].kind = "pay" => record'[act[a].order][act[a].record].state = "PAID"
    BY <1>3, CommitRows
  <2>2. Knows(act[a], record', status')
    BY <1>1, <2>1, KnowsKept
  <2>3. Knows(x, record', status')
    BY <1>1, <2>1, <2>2 DEF Knows, ActRecord
  <2>4. Become(a, x)
    BY <1>3 DEF Commit
  <2> QED
    BY <2>1, <2>3, <2>4, BecomeKnows
<1>4. CASE Conflict(a)
  <2> DEFINE x == [act[a] EXCEPT !.pc = "recheck"]
  <2>1. UNCHANGED rows
    BY <1>4 DEF Conflict, rows
  <2>2. Knows(x, record', status')
    BY <1>1, <1>4, <2>1 DEF Knows, ActRecord, rows, Conflict
  <2> QED
    BY <1>4, <2>1, <2>2, RowsKept, BecomeKnows, ConcludeKnows DEF Conflict
<1>5. CASE Unschedule(a)
  <2>1. UNCHANGED rows
    BY <1>5 DEF Unschedule, rows
  <2>2. act[a].kind = "pay" => record'[act[a].order][act[a].record].state = "PAID"
    BY <1>1, <1>5, <2>1 DEF Knows, Unschedule, rows
  <2> QED
    BY <1>5, <2>1, <2>2, RowsKept, ConcludeKnows DEF Unschedule
<1> QED
  BY <1>2, <1>3, <1>4, <1>5 DEF TransitionStep

\* So do the steps of a handler.
LEMMA HandlerKnows ==
  ASSUME PaymentInv, NEW a \in Handler, HandlerStep(a)
  PROVE  /\ PaymentsAgree' /\ NumberedExist'
         /\ \A b \in Actor : Knows(act'[b], record', status')
<1>0. a \in Actor
  BY DEF Actor
<1>1. /\ act[a] \in ActRecord /\ AtWork(act[a])
      /\ Knows(act[a], record, status)
  BY <1>0 DEF PaymentInv, TypeOK, ActType
<1>2. CASE CreateRecord(a) \/ NumberRecord(a)
  BY <1>0, <1>2, CreateRows, NumberRows
<1>3. ASSUME UNCHANGED rows, NEW x, Become(a, x), Knows(x, record, status)
      PROVE  /\ PaymentsAgree' /\ NumberedExist'
             /\ \A b \in Actor : Knows(act'[b], record', status')
  BY <1>0, <1>3, RowsKept, BecomeKnows DEF rows
<1>4. ASSUME NEW o \in Order, NEW kind \in Kind \ {"pay", "timeout"}, Ask(a, o, kind)
      PROVE  UNCHANGED rows /\ \E x : Become(a, x) /\ Knows(x, record, status)
  <2> DEFINE x == [IdleAct EXCEPT !.pc = "load", !.kind = kind, !.order = o]
  <2>1. Knows(x, record, status)
    BY DEF Knows, IdleAct
  <2> QED
    BY <1>4, <2>1 DEF Ask, rows
<1>5. ASSUME NEW o \in Order, StartPayment(a, o)
      PROVE  UNCHANGED rows /\ \E x : Become(a, x) /\ Knows(x, record, status)
  <2> DEFINE x == [IdleAct EXCEPT !.pc = "find", !.kind = "start", !.order = o]
  <2>1. Knows(x, record, status)
    BY DEF Knows, IdleAct
  <2> QED
    BY <1>5, <2>1 DEF StartPayment, rows
<1>6. ASSUME NEW o \in Order, NEW r \in RecordId, CallbackRead(a, o, r)
      PROVE  UNCHANGED rows /\ \E x : Become(a, x) /\ Knows(x, record, status)
  <2> DEFINE x == [IdleAct EXCEPT !.pc = "order", !.kind = "pay", !.order = o,
                                  !.record = r, !.state = record[o][r].state]
  <2>1. Knows(x, record, status)
    BY <1>6 DEF Knows, IdleAct, CallbackRead
  <2> QED
    BY <1>6, <2>1 DEF CallbackRead, rows
<1>7. ASSUME FindRecord(a)
      PROVE  UNCHANGED rows /\ \E x : Become(a, x) /\ Knows(x, record, status)
  <2>1. act[a].kind = "start" /\ act[a].pc = "find"
    BY <1>1, <1>7 DEF AtWork, FindRecord
  <2>2. Knows([act[a] EXCEPT !.pc = "create"], record, status)
    BY <1>1, <2>1 DEF Knows, ActRecord
  <2>3. ASSUME NEW r \in Live(act[a].order)
        PROVE  Knows([act[a] EXCEPT !.pc = "number", !.record = r], record, status)
    <3>1. record[act[a].order][r].state # "none"
      BY DEF Live
    <3>2. act[a].state # "PAID" /\ act[a].answer \notin {"ok", "late"}
      BY <1>1, <2>1 DEF Knows
    <3> QED
      BY <1>1, <2>1, <3>1, <3>2 DEF Knows, ActRecord
  <2>4. \/ Become(a, [act[a] EXCEPT !.pc = "create"])
        \/ Become(a, IdleAct)
        \/ \E r \in Live(act[a].order) :
              Become(a, [act[a] EXCEPT !.pc = "number", !.record = r])
    BY <1>7 DEF FindRecord, Leave
  <2>5. UNCHANGED rows
    BY <1>7 DEF FindRecord, rows
  <2> QED
    BY <2>2, <2>3, <2>4, <2>5, IdleKnows
<1>8. ASSUME CallbackRecheck(a)
      PROVE  UNCHANGED rows /\ \E x : Become(a, x) /\ Knows(x, record, status)
  <2> DEFINE x == [act[a] EXCEPT !.pc = "reorder",
                                 !.state = record[act[a].order][act[a].record].state]
  <2>1. act[a].kind = "pay"
    BY <1>1, <1>8 DEF AtWork, CallbackRecheck
  <2>2. Knows(x, record, status)
    BY <1>1, <2>1 DEF Knows, ActRecord
  <2> QED
    BY <1>8, <2>2 DEF CallbackRecheck, rows
<1>9. CASE CallbackDecide(a)
  <2> DEFINE x == [act[a] EXCEPT !.pc = "compensate", !.status = status[act[a].order]]
             y == [act[a] EXCEPT !.pc = "load"]
  <2>1. UNCHANGED rows
    BY <1>9 DEF CallbackDecide, rows
  <2>2. CASE act[a].state = "PAID"
    <3>1. record'[act[a].order][act[a].record].state = "PAID"
      BY <1>1, <2>1, <2>2 DEF Knows, rows
    <3> QED
      BY <1>0, <1>9, <2>1, <2>2, <3>1, RowsKept, ConcludeKnows DEF CallbackDecide
  <2>3. CASE Become(a, x) /\ status[act[a].order] # "PENDING_CONFIRMATION"
    <3>1. Knows(x, record, status)
      BY <1>1, <2>3 DEF Knows, ActRecord
    <3> QED
      BY <1>3, <2>1, <2>3, <3>1
  <2>4. CASE Become(a, y)
    <3>1. Knows(y, record, status)
      BY <1>1 DEF Knows, ActRecord
    <3> QED
      BY <1>3, <2>1, <2>4, <3>1
  <2>5. CASE Conclude(a, "conflict")
    BY <1>0, <2>1, <2>5, RowsKept, ConcludeKnows
  <2> QED
    BY <1>9, <2>2, <2>3, <2>4, <2>5 DEF CallbackDecide
<1>10. CASE Compensate(a)
  <2>1. UNCHANGED rows
    BY <1>10 DEF Compensate, rows
  <2>2. status'[act[a].order] # "PENDING_CONFIRMATION"
    BY <1>1, <1>10, <2>1 DEF Knows, Compensate, rows
  <2> QED
    BY <1>0, <1>10, <2>1, <2>2, RowsKept, ConcludeKnows DEF Compensate
<1>11. ASSUME Answered(a) \/ HandlerDies(a)
       PROVE  UNCHANGED rows /\ \E x : Become(a, x) /\ Knows(x, record, status)
  BY <1>11, IdleKnows DEF Answered, HandlerDies, Leave, rows
<1> QED
  BY <1>2, <1>3, <1>4, <1>5, <1>6, <1>7, <1>8, <1>9, <1>10, <1>11 DEF HandlerStep

\* And so do the worker, the queue and the clock, which leave the rows alone.
LEMMA OthersKnow ==
  ASSUME PaymentInv, (\E a \in Slot : SlotStep(a)) \/ EnvStep \/ UNCHANGED vars
  PROVE  /\ PaymentsAgree' /\ NumberedExist'
         /\ \A b \in Actor : Knows(act'[b], record', status')
<1>1. UNCHANGED rows
  BY DEF SlotStep, TakeJob, FinishJob, JobFails, EnvStep, ScheduleCreated, JobStalls,
         ExpireAtPasses, RehydrateRemove, WorkerDies, RehydrateRead, RehydrateAdd,
         rows, vars
<1>2. RowsGrow /\ PaymentsAgree' /\ NumberedExist'
  BY <1>1, RowsKept
<1>3. ASSUME NEW a \in Slot, SlotStep(a)
      PROVE  \A b \in Actor : Knows(act'[b], record', status')
  <2>1. \E x : Become(a, x) /\ Knows(x, record', status')
    <3>1. ASSUME NEW o \in Order, TakeJob(a, o)
          PROVE  \E x : Become(a, x) /\ Knows(x, record', status')
      <4> DEFINE x == [IdleAct EXCEPT !.pc = "load", !.kind = "timeout", !.order = o]
      <4>1. Knows(x, record', status')
        BY DEF Knows, IdleAct
      <4> QED
        BY <3>1, <4>1 DEF TakeJob
    <3>2. ASSUME FinishJob(a) \/ JobFails(a)
          PROVE  \E x : Become(a, x) /\ Knows(x, record', status')
      BY <3>2, IdleKnows DEF FinishJob, JobFails, Leave
    <3> QED
      BY <1>3, <3>1, <3>2 DEF SlotStep
  <2> QED
    BY <1>2, <2>1, BecomeKnows DEF Actor
<1>4. ASSUME NEW b \in Actor, act'[b] = act[b] \/ act'[b] = IdleAct
      PROVE  Knows(act'[b], record', status')
  <2>1. act[b] \in ActRecord /\ AtWork(act[b]) /\ Knows(act[b], record, status)
    BY DEF PaymentInv, TypeOK, ActType
  <2> QED
    BY <1>2, <1>4, <2>1, KnowsKept, IdleKnows
<1>5. ASSUME EnvStep \/ UNCHANGED vars, NEW b \in Actor
      PROVE  act'[b] = act[b] \/ act'[b] = IdleAct
  BY <1>5 DEF EnvStep, ScheduleCreated, JobStalls, ExpireAtPasses, RehydrateRemove,
              WorkerDies, WorkerExits, RehydrateRead, RehydrateAdd, vars
<1> QED
  BY <1>2, <1>3, <1>4, <1>5

\* The initial state satisfies the invariant.
LEMMA PaymentInit == Init => PaymentInv
<1> SUFFICES ASSUME Init PROVE PaymentInv
  OBVIOUS
<1>1. PaymentsAgree /\ NumberedExist
  BY DEF Init, PaymentsAgree, NumberedExist, NoRecord
<1>2. \A a \in Actor : Knows(act[a], record, status)
  BY IdleKnows DEF Init
<1> QED
  BY <1>1, <1>2, TypeInit DEF PaymentInv

\* PaymentInv is an invariant of OrderLifecycle.
LEMMA PaymentInvariant == Spec => []PaymentInv
<1>1. PaymentInv /\ TypeOK' /\ [Next]_vars => PaymentInv'
  <2> SUFFICES ASSUME PaymentInv, [Next]_vars
               PROVE  /\ PaymentsAgree' /\ NumberedExist'
                      /\ \A b \in Actor : Knows(act'[b], record', status')
    BY DEF PaymentInv
  <2> QED
    BY TransitionKnows, HandlerKnows, OthersKnow DEF Next
<1> QED
  BY <1>1, PaymentInit, TypeCorrect, PTL DEF Spec

\* Whatever handlers, callbacks and expirations race and whatever fails, a paid order
\* was confirmed in the same transaction, a failed payment's order is cancelled, no
\* order is paid twice, and every callback is answered truly.
THEOREM PaymentsSafe == Spec => [](PaymentsAgree /\ AnswersAreTrue)
<1>1. PaymentInv => PaymentsAgree /\ AnswersAreTrue
  BY DEF PaymentInv, AnswersAreTrue, Knows, Actor
<1> QED
  BY <1>1, PaymentInvariant, PTL

-----------------------------------------------------------------------------
(* OrderLifecycle implements the abstract order table *)

\* A committed transition is a move of the table, and the payment's is a payment.
LEMMA CommitIsMove ==
  ASSUME PaymentInv, PaymentsAgree', RowsGrow, NEW a \in Actor, Commit(a)
  PROVE  Table!Next
<1> DEFINE o == act[a].order
           r == act[a].record
           kind == act[a].kind
<1>1. /\ o \in Order /\ kind \in Kind
      /\ status[o] \in AllowedFrom(kind)
      /\ kind = "pay" => r \in RecordId
      /\ RowsType
  BY DEF PaymentInv, TypeOK, ActType, AtWork, Commit, StillAsRead
<1>2. /\ status' = [status EXCEPT ![o] = Target(kind)]
      /\ record' = [record EXCEPT ![o] = RecordsAfter(a)]
  BY DEF Commit
<1>3. CASE kind = "pay"
  <2>1. record'[o][r].state = "PAID"
    BY <1>3, CommitRows
  <2>2. ASSUME NEW s \in RecordId \ {r}
        PROVE  record'[o][s].state = "PAID" => record[o][s].state = "PAID"
    <3>1. record'[o][s] = record[o][s]
      BY <1>1, <1>2, <1>3 DEF RecordsAfter, Target, RowsType
    <3> QED
      BY <3>1
  <2>3. \A u \in Order \ {o} : record'[u] = record[u]
    BY <1>1, <1>2 DEF RowsType
  <2>4. Settled' = Settled \cup {o}
    BY <1>1, <1>3, <2>1, <2>2, <2>3 DEF Settled, RowsGrow
  <2>5. /\ status[o] \in {"PENDING_CONFIRMATION"}
        /\ status' = [status EXCEPT ![o] = "CONFIRMED"]
    BY <1>1, <1>2, <1>3 DEF AllowedFrom, Target
  <2>6. Table!Pay(o)
    BY <2>4, <2>5 DEF Table!Pay, Table!Move
  <2> QED
    BY <1>1, <2>6 DEF Table!Next
<1>4. CASE kind # "pay"
  <2>1. ASSUME NEW s \in RecordId
        PROVE  record'[o][s].state = "PAID" => record[o][s].state = "PAID"
    <3>1. record[o][s] \in RecordRow
      BY <1>1 DEF RowsType
    <3>2. \/ record'[o][s] = record[o][s]
          \/ record'[o][s] = [record[o][s] EXCEPT !.state = "FAILED"]
      BY <1>1, <1>2, <1>4 DEF RecordsAfter, RowsType
    <3> QED
      BY <3>1, <3>2 DEF RecordRow
  <2>2. \A u \in Order \ {o} : record'[u] = record[u]
    BY <1>1, <1>2 DEF RowsType
  <2>3. UNCHANGED Settled
    BY <1>1, <2>1, <2>2 DEF Settled, RowsGrow
  <2>4. \/ Table!Confirm(o) \/ Table!Cancel(o) \/ Table!MissIt(o)
    BY <1>1, <1>2, <1>4, <2>3
    DEF Table!Confirm, Table!Cancel, Table!MissIt, Table!Move, AllowedFrom, Target, Kind
  <2> QED
    BY <1>1, <2>4 DEF Table!Next
<1> QED
  BY <1>3, <1>4

\* Every behaviour of the order centre and the payments is one of the abstract order
\* table: each committed transition is one move of the table or one payment, and no
\* other step, fault or late callback changes a status or takes a payment.
THEOREM Implements == Spec => ImplementsOrders
<1>1. Init => Table!Init
  BY DEF Init, Table!Init, Settled, NoRecord
<1>2. PaymentInv /\ PaymentInv' /\ [Next]_vars => [Table!Next]_<<status, Settled>>
  <2> SUFFICES ASSUME PaymentInv, PaymentInv', [Next]_vars
               PROVE  Table!Next \/ UNCHANGED <<status, Settled>>
    OBVIOUS
  <2>1. CASE UNCHANGED rows
    BY <2>1 DEF rows, Settled
  <2>2. ASSUME NEW a \in Actor, Commit(a) PROVE Table!Next
    BY <2>2, CommitRows, CommitIsMove
  <2>3. ASSUME NEW a \in Actor, TransitionStep(a)
        PROVE  Commit(a) \/ UNCHANGED rows
    BY <2>3 DEF TransitionStep, Load, Conflict, Unschedule, rows
  <2>4. ASSUME NEW a \in Handler, CreateRecord(a) PROVE UNCHANGED <<status, Settled>>
    <3>1. PICK o \in Order, r \in RecordId :
            /\ record[o][r].state = "none"
            /\ record' = With(o, r, [state |-> "PENDING", numbered |-> FALSE])
      BY <2>4 DEF CreateRecord, Free, PaymentInv, TypeOK, ActType, AtWork, Actor
    <3>2. /\ record'[o][r] = [state |-> "PENDING", numbered |-> FALSE]
          /\ \A s \in RecordId \ {r} : record'[o][s] = record[o][s]
          /\ \A u \in Order \ {o} : record'[u] = record[u]
      BY <3>1, WithIs DEF PaymentInv, TypeOK
    <3>3. UNCHANGED Settled
      BY <3>1, <3>2 DEF Settled
    <3> QED
      BY <2>4, <3>3 DEF CreateRecord
  <2>5. ASSUME NEW a \in Handler, NumberRecord(a) PROVE UNCHANGED <<status, Settled>>
    <3> DEFINE o == act[a].order
               r == act[a].record
               row == [record[o][r] EXCEPT !.numbered = TRUE]
    <3>1. o \in Order /\ r \in RecordId
      BY <2>5 DEF NumberRecord, PaymentInv, TypeOK, ActType, AtWork, Actor
    <3>2. record' = record \/ record' = With(o, r, row)
      BY <2>5 DEF NumberRecord
    <3>3. row.state = record[o][r].state
      <4>1. record[o][r] \in RecordRow
        BY <3>1 DEF PaymentInv, TypeOK, RowsType
      <4> QED
        BY <4>1 DEF RecordRow
    <3> HIDE DEF o, r, row
    <3>4. record' = With(o, r, row) =>
              /\ record'[o][r] = row
              /\ \A s \in RecordId \ {r} : record'[o][s] = record[o][s]
              /\ \A u \in Order \ {o} : record'[u] = record[u]
      BY <3>1, WithIs DEF PaymentInv, TypeOK
    <3>5. UNCHANGED Settled
      BY <3>1, <3>2, <3>3, <3>4 DEF Settled
    <3> QED
      BY <2>5, <3>5 DEF NumberRecord
  <2>6. ASSUME NEW a \in Handler, HandlerStep(a)
        PROVE  CreateRecord(a) \/ NumberRecord(a) \/ UNCHANGED rows
    BY <2>6 DEF HandlerStep, Ask, StartPayment, CallbackRead, FindRecord, CallbackRecheck,
                CallbackDecide, Compensate, Answered, HandlerDies, rows
  <2>7. (\E a \in Slot : SlotStep(a)) \/ EnvStep \/ UNCHANGED vars => UNCHANGED rows
    BY DEF SlotStep, TakeJob, FinishJob, JobFails, EnvStep, ScheduleCreated, JobStalls,
           ExpireAtPasses, RehydrateRemove, WorkerDies, RehydrateRead, RehydrateAdd,
           rows, vars
  <2> QED
    BY <2>1, <2>2, <2>3, <2>4, <2>5, <2>6, <2>7 DEF Next
<1> QED
  BY <1>1, <1>2, PaymentInvariant, PTL DEF Spec, ImplementsOrders, Table!Spec

\* What a payer was told, paid or closed, is what the order and its records say,
\* whatever the handlers and the expiry job did since (payment.service.ts).
THEOREM AnswersRight == Spec => []AnswersAreTrue
BY PaymentsSafe, PTL

=============================================================================
