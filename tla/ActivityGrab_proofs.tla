------------------------ MODULE ActivityGrab_proofs ------------------------
(***************************************************************************)
(* Proofs about ActivityGrab, for any users, tickets, stocks, handlers,    *)
(* slots and faults: type correctness, no oversell, one active             *)
(* registration per user, that it implements the abstract TicketSale, and  *)
(* what each of three properties of cache, claims and polls needs of the   *)
(* faults to hold.                                                         *)
(***************************************************************************)
EXTENDS ActivityGrab, FiniteSetTheorems, WellFoundedInduction, TLAPS

-----------------------------------------------------------------------------
(* Lemmas on the operators *)

\* Registration identifiers are finitely many natural numbers.
LEMMA RegIdFinite == IsFiniteSet(RegId) /\ RegId \subseteq Nat
<1>1. Cardinality(User) \in Nat
  BY GrabAssumption, FS_CardinalityType
<1>2. Cardinality(User) + MaxCancels \in Int
  BY <1>1, GrabAssumption
<1> QED
  BY <1>2, FS_Interval DEF RegId

\* The holders of a ticket are counted by a natural number.
LEMMA HoldersFinite ==
  ASSUME NEW t PROVE IsFiniteSet(HoldersOf(t)) /\ Cardinality(HoldersOf(t)) \in Nat
<1>1. HoldersOf(t) \in SUBSET RegId
  BY DEF HoldersOf
<1> QED
  BY <1>1, RegIdFinite, FS_Subset, FS_CardinalityType

\* A count of claims is a natural number.
LEMMA CountClaimsType ==
  ASSUME NEW keys \in SUBSET User, NEW t PROVE CountClaims(keys, t) \in Nat
<1>1. keys \cap ClaimsOn(t) \in SUBSET User
  OBVIOUS
<1> QED
  BY <1>1, GrabAssumption, FS_Subset, FS_CardinalityType DEF CountClaims

\* Math.max(n, 0) of an integer is a natural number.
LEMMA NonNegativeType == ASSUME NEW n \in Int PROVE NonNegative(n) \in Nat
BY DEF NonNegative

-----------------------------------------------------------------------------
(* Type correctness *)

\* The initial state is well typed.
LEMMA TypeInit == Init => TypeOK
<1> SUFFICES ASSUME Init PROVE TypeOK
  OBVIOUS
<1>1. DbType
  BY GrabAssumption DEF Init, DbType, RegRecord
<1>2. RedisType
  BY DEF Init, RedisType
<1>3. QueueType
  BY DEF Init, QueueType
<1>4. ReqType
  BY DEF Init, ReqType, ReqRecord, IdleReq, ReqPc
<1>5. RunType
  BY DEF Init, RunType, RunRecord
<1>6. RecType
  BY DEF Init, RecType, IdleRec, RecPc
<1>7. release \subseteq RegId /\ faults \in FaultSets
  BY DEF Init
<1> QED
  BY <1>1, <1>2, <1>3, <1>4, <1>5, <1>6, <1>7 DEF TypeOK


\* What a step leaves alone keeps its type.
LEMMA Frame ==
  ASSUME TypeOK
  PROVE  /\ UNCHANGED db => DbType'
         /\ UNCHANGED <<regs, reserved, onSale>> => DbType'
         /\ UNCHANGED redis => RedisType'
         /\ UNCHANGED <<remaining, pending, failure>> => RedisType'
         /\ UNCHANGED queue => QueueType'
         /\ UNCHANGED <<job, stalled>> => QueueType'
         /\ UNCHANGED req => ReqType'
         /\ UNCHANGED run => RunType'
         /\ UNCHANGED rec => RecType'
BY DEF TypeOK, db, redis, queue, DbType, RedisType, QueueType, ReqType, RunType, RecType

\* COMPENSATE_PENDING_LUA keeps the types in Redis.
LEMMA CompensateType ==
  ASSUME RedisType, NEW u, NEW t, CompensatePending(u, t) PROVE RedisType'
<1>1. CASE pending[u] = t
  <2>1. remaining' \in [Ticket -> Nat \cup {Missing}]
    BY <1>1 DEF CompensatePending, RedisType, Missing
  <2>2. pending' \in [User -> Ticket \cup {None}] /\ failure' \in [User -> BOOLEAN]
    BY <1>1 DEF CompensatePending, RedisType
  <2> QED
    BY <2>1, <2>2 DEF RedisType
<1>2. CASE pending[u] # t
  BY <1>2 DEF CompensatePending, RedisType, redis
<1> QED
  BY <1>1, <1>2

\* And so does COMPLETE_PENDING_LUA.
LEMMA CompleteType ==
  ASSUME RedisType, NEW u, NEW t, CompletePending(u, t) PROVE RedisType'
<1>1. CASE pending[u] = t
  BY <1>1 DEF CompletePending, RedisType
<1>2. CASE pending[u] # t
  BY <1>2 DEF CompletePending, RedisType, redis
<1> QED
  BY <1>1, <1>2

\* A handler's record may be replaced by another of its type.
LEMMA ReqUpdate ==
  ASSUME ReqType, NEW q \in Req, NEW r \in ReqRecord, req' = [req EXCEPT ![q] = r]
  PROVE  ReqType'
BY DEF ReqType

\* So may its program counter.
LEMMA ReqGo ==
  ASSUME ReqType, NEW q \in Req, NEW pc \in ReqPc, GoReq(q, pc) PROVE ReqType'
BY DEF ReqType, ReqRecord, GoReq

\* A handler that leaves is idle.
LEMMA ReqLeave ==
  ASSUME ReqType, NEW q \in Req, LeaveReq(q) PROVE ReqType'
BY DEF ReqType, ReqRecord, ReqPc, LeaveReq, IdleReq

\* Every step of an API handler keeps the types.
LEMMA TypeRequest ==
  ASSUME TypeOK, UNCHANGED faults, NEW q \in Req, RequestStep(q) PROVE TypeOK'
<1>a. /\ DbType /\ RedisType /\ QueueType /\ ReqType
      /\ release \subseteq RegId
  BY DEF TypeOK
<1>f. DbType' /\ RunType' /\ RecType' /\ release' \subseteq RegId
  <2>1. UNCHANGED db /\ UNCHANGED run /\ UNCHANGED rec /\ UNCHANGED release
    BY DEF RequestStep, GrabReadTicket, GrabAssertNotRegistered, EnsureExists, EnsureScan,
           EnsureMGet, EnsureSetNX, Reserve, Enqueue, EnqueueFails, CompensateRequest,
           RequestDies
  <2> QED
    BY <1>a, <2>1, Frame
<1> SUFFICES RedisType' /\ QueueType' /\ ReqType'
  BY <1>f DEF TypeOK
<1>1. ASSUME NEW u \in User, NEW t \in Ticket, GrabReadTicket(q, u, t)
      PROVE  RedisType' /\ QueueType' /\ ReqType'
  <2>1. NonNegative(Stock[t] - reserved[t]) \in Nat
    BY <1>a, GrabAssumption, NonNegativeType DEF DbType
  <2>2. ReqType'
    BY <1>1, <1>a, <2>1 DEF GrabReadTicket, ReqType, ReqRecord, ReqPc, IdleReq
  <2> QED
    BY <1>1, <2>2, Frame DEF GrabReadTicket
<1>2. CASE GrabAssertNotRegistered(q)
  <2>1. ReqType'
    BY <1>2, <1>a, ReqGo, ReqLeave DEF GrabAssertNotRegistered, ReqPc
  <2> QED
    BY <1>2, <2>1, Frame DEF GrabAssertNotRegistered
<1>3. CASE EnsureExists(q)
  <2>1. ReqType'
    BY <1>3, <1>a, ReqGo DEF EnsureExists, ReqPc
  <2> QED
    BY <1>3, <2>1, Frame DEF EnsureExists
<1>4. CASE EnsureScan(q)
  <2>1. ReqType'
    BY <1>4, <1>a DEF EnsureScan, ReqType, ReqRecord, ReqPc
  <2> QED
    BY <1>4, <2>1, Frame DEF EnsureScan
<1>5. CASE EnsureMGet(q)
  <2>1. req[q].snap \in Nat /\ CountClaims(req[q].keys, req[q].ticket) \in Nat
    BY <1>a, CountClaimsType DEF ReqType, ReqRecord
  <2>2. NonNegative(req[q].snap - CountClaims(req[q].keys, req[q].ticket)) \in Nat
    BY <2>1, NonNegativeType
  <2>3. ReqType'
    BY <1>5, <1>a, <2>2 DEF EnsureMGet, ReqType, ReqRecord, ReqPc
  <2> QED
    BY <1>5, <2>3, Frame DEF EnsureMGet
<1>6. CASE EnsureSetNX(q)
  <2>1. ReqType'
    BY <1>6, <1>a DEF EnsureSetNX, ReqType, ReqRecord, ReqPc
  <2>2. req[q].value \in Nat
    BY <1>a DEF ReqType, ReqRecord
  <2>3. RedisType'
    BY <1>6, <1>a, <2>2 DEF EnsureSetNX, RedisType
  <2> QED
    BY <1>6, <2>1, <2>3, Frame DEF EnsureSetNX
<1>7. CASE Reserve(q)
  <2> DEFINE u == req[q].user
             t == req[q].ticket
  <2>0. QueueType'
    BY <1>7, Frame DEF Reserve
  <2>1. CASE (pending[u] # None \/ remaining[t] = 0) /\ LeaveReq(q) /\ UNCHANGED redis
    BY <1>a, <2>0, <2>1, ReqLeave, Frame
  <2>2. CASE /\ UNCHANGED redis
             /\ IF req[q].retried
                THEN LeaveReq(q)
                ELSE req' = [req EXCEPT ![q] =
                                [@ EXCEPT !.pc = "exists", !.retried = TRUE]]
    <3>1. ReqType'
      <4>1. [req[q] EXCEPT !.pc = "exists", !.retried = TRUE] \in ReqRecord
        BY <1>a DEF ReqType, ReqRecord, ReqPc
      <4> QED
        BY <1>a, <2>2, <4>1, ReqLeave, ReqUpdate
    <3> QED
      BY <2>0, <2>2, <3>1, Frame
  <2>3. CASE /\ remaining[t] > 0
             /\ remaining' = [remaining EXCEPT ![t] = @ - 1]
             /\ pending' = [pending EXCEPT ![u] = t]
             /\ failure' = [failure EXCEPT ![u] = FALSE]
             /\ pending[u] = None
             /\ GoReq(q, "enqueue")
    <3>1. u \in User \cup {None} /\ t \in Ticket \cup {None}
      BY <1>a DEF ReqType, ReqRecord
    <3>2. remaining' \in [Ticket -> Nat \cup {Missing}]
      <4>1. CASE t \in Ticket
        BY <1>a, <2>3, <4>1 DEF RedisType, Missing
      <4>2. CASE t \notin Ticket
        BY <1>a, <2>3, <4>2 DEF RedisType
      <4> QED
        BY <4>1, <4>2
    <3>3. pending' \in [User -> Ticket \cup {None}] /\ failure' \in [User -> BOOLEAN]
      BY <1>a, <2>3, <3>1 DEF RedisType
    <3>4. ReqType'
      BY <1>a, <2>3, ReqGo DEF ReqPc
    <3> QED
      BY <2>0, <3>2, <3>3, <3>4 DEF RedisType
  <2> QED
    BY <1>7, <2>1, <2>2, <2>3 DEF Reserve, HasStock
<1>8. CASE Enqueue(q)
  <2>1. ReqType'
    BY <1>8, <1>a, ReqLeave DEF Enqueue
  <2>2. QueueType'
    BY <1>8, <1>a DEF Enqueue, QueueType
  <2> QED
    BY <1>8, <2>1, <2>2, Frame DEF Enqueue
<1>9. CASE EnqueueFails(q)
  <2>1. ReqType'
    BY <1>9, <1>a, ReqGo DEF EnqueueFails, ReqPc
  <2> QED
    BY <1>9, <2>1, Frame DEF EnqueueFails
<1>10. CASE CompensateRequest(q)
  <2>1. RedisType'
    BY <1>10, <1>a, CompensateType DEF CompensateRequest
  <2>2. ReqType'
    BY <1>10, <1>a, ReqLeave DEF CompensateRequest
  <2> QED
    BY <1>10, <2>1, <2>2, Frame DEF CompensateRequest
<1>11. CASE RequestDies(q)
  <2>1. ReqType'
    BY <1>11, <1>a, ReqLeave DEF RequestDies
  <2> QED
    BY <1>11, <2>1, Frame DEF RequestDies
<1> QED
  BY <1>1, <1>2, <1>3, <1>4, <1>5, <1>6, <1>7, <1>8, <1>9, <1>10, <1>11
  DEF RequestStep

\* A slot's record may be replaced by another of its type.
LEMMA RunGo ==
  ASSUME RunType, NEW w \in Slot, run[w].pc # "idle", NEW pc \in RunPc \ {"idle"},
         GoRun(w, pc)
  PROVE  RunType'
<1>1. run[w] \in [pc : RunPc \ {"idle"}, user : User, ticket : Ticket, lost : BOOLEAN]
  BY DEF RunType, RunRecord, IdleRun
<1>2. [run[w] EXCEPT !.pc = pc] \in RunRecord
  BY <1>1 DEF RunRecord
<1> QED
  BY <1>2 DEF RunType, GoRun

\* A slot that leaves its job is idle.
LEMMA RunLeave ==
  ASSUME RunType, NEW w \in Slot, run' = [run EXCEPT ![w] = IdleRun] PROVE RunType'
BY DEF RunType, RunRecord

\* A slot at work works for a user and a ticket.
LEMMA RunAtWork ==
  ASSUME RunType, NEW w \in Slot, run[w].pc # "idle"
  PROVE  /\ run[w].user \in User /\ run[w].ticket \in Ticket
         /\ JobOf(w) \in User \X Ticket
BY DEF RunType, RunRecord, IdleRun, JobOf

\* Completing a run keeps the types of the slot and of the queue.
LEMMA FinishType ==
  ASSUME RunType, QueueType, NEW w \in Slot, FinishRun(w), UNCHANGED stalled
  PROVE  RunType' /\ QueueType'
BY RunLeave DEF FinishRun, QueueType

\* A new registration identifier is one.
LEMMA FreeRegIsFree ==
  ASSUME NEW r \in FreeReg PROVE r \in RegId /\ regs[r] = NoReg
BY DEF FreeReg

\* The worker's transaction keeps the types.
LEMMA TypeBookTx ==
  ASSUME TypeOK, NEW w \in Slot, BookTx(w) PROVE DbType' /\ RunType'
<1> DEFINE u == run[w].user
           t == run[w].ticket
<1>a. DbType /\ RunType /\ run[w].pc # "idle"
  BY DEF TypeOK, BookTx
<1>1. CASE GoRun(w, "compensate") /\ UNCHANGED db
  BY <1>1, <1>a, RunGo, Frame DEF RunPc
<1>2. CASE GoRun(w, "duplicate") /\ UNCHANGED db
  BY <1>2, <1>a, RunGo, Frame DEF RunPc
<1>3. CASE /\ \E r \in FreeReg :
                regs' = [regs EXCEPT ![r] =
                    [user |-> u, ticket |-> t,
                     status |-> IF t \in Paid THEN "PENDING_CONFIRMATION"
                                              ELSE "CONFIRMED"]]
           /\ reserved' = [reserved EXCEPT ![t] = @ + 1]
           /\ onSale' = onSale
           /\ GoRun(w, IF t \in Paid THEN "schedule" ELSE "complete")
  <2>1. u \in User /\ t \in Ticket
    BY <1>a, RunAtWork
  <2>2. regs' \in [RegId -> RegRecord]
    <3>1. [user |-> u, ticket |-> t,
           status |-> IF t \in Paid THEN "PENDING_CONFIRMATION" ELSE "CONFIRMED"]
             \in RegRecord
      BY <2>1 DEF RegRecord, ActiveStatus
    <3> HIDE DEF u, t
    <3> QED
      BY <1>3, <1>a, <3>1 DEF DbType
  <2>3. reserved' \in [Ticket -> Nat]
    BY <1>3, <1>a, <2>1 DEF DbType
  <2>4. RunType'
    BY <1>3, <1>a, RunGo DEF RunPc
  <2> QED
    BY <1>3, <1>a, <2>2, <2>3, <2>4 DEF DbType
<1> QED
  BY <1>1, <1>2, <1>3 DEF BookTx

\* Every step of the worker keeps the types.
LEMMA TypeWorker ==
  ASSUME TypeOK, UNCHANGED faults, NEW w \in Slot, WorkerStep(w) PROVE TypeOK'
<1>a. DbType /\ RedisType /\ QueueType /\ RunType /\ release \subseteq RegId
  BY DEF TypeOK
<1>f. ReqType' /\ RecType' /\ release' \subseteq RegId
  <2>1. UNCHANGED req /\ UNCHANGED rec /\ UNCHANGED release
    BY DEF WorkerStep, TakeJob, LookupExisting, ReadTicket, BookTx, BookTxFails, ScheduleExpiration,
           CompleteRun, CompensateRun, ReadDuplicated, CompleteThenCompensate,
           JobStalls, WorkerDies, CompleteFails, RunFails
  <2> QED
    BY <1>a, <2>1, Frame
<1> SUFFICES DbType' /\ RedisType' /\ QueueType' /\ RunType'
  BY <1>f DEF TypeOK
<1>1. ASSUME NEW u \in User, NEW t \in Ticket, TakeJob(w, u, t)
      PROVE  DbType' /\ RedisType' /\ QueueType' /\ RunType'
  <2>1. RunType'
    BY <1>1, <1>a DEF TakeJob, RunType, RunRecord, RunPc
  <2>2. QueueType'
    BY <1>1, <1>a DEF TakeJob, QueueType
  <2> QED
    BY <1>1, <2>1, <2>2, Frame DEF TakeJob
<1>2. CASE LookupExisting(w)
  BY <1>2, <1>a, RunGo, Frame DEF LookupExisting, RunPc
<1>14. CASE ReadTicket(w)
  BY <1>14, <1>a, RunGo, Frame DEF ReadTicket, RunPc
<1>3. CASE BookTx(w)
  BY <1>3, TypeBookTx, Frame DEF BookTx
<1>4. CASE BookTxFails(w)
  BY <1>4, <1>a, RunGo, Frame DEF BookTxFails, RunPc
<1>5. CASE ScheduleExpiration(w)
  BY <1>5, <1>a, RunGo, Frame DEF ScheduleExpiration, RunPc
<1>6. CASE CompleteRun(w)
  BY <1>6, <1>a, CompleteType, FinishType, Frame DEF CompleteRun
<1>7. CASE CompensateRun(w)
  BY <1>7, <1>a, CompensateType, FinishType, Frame DEF CompensateRun
<1>8. CASE ReadDuplicated(w)
  BY <1>8, <1>a, RunGo, Frame DEF ReadDuplicated, RunPc
<1>9. CASE CompleteThenCompensate(w)
  BY <1>9, <1>a, CompleteType, RunGo, Frame DEF CompleteThenCompensate, RunPc
<1>10. CASE JobStalls(w)
  <2>1. run[w].pc # "idle" /\ JobOf(w) \in User \X Ticket
    BY <1>10, <1>a, RunAtWork DEF JobStalls
  <2>2. RunType'
    <3>1. run[w] \in [pc : RunPc \ {"idle"}, user : User, ticket : Ticket, lost : BOOLEAN]
      BY <1>a, <2>1 DEF RunType, RunRecord, IdleRun
    <3>2. [run[w] EXCEPT !.lost = TRUE] \in RunRecord
      BY <3>1 DEF RunRecord
    <3> QED
      BY <1>10, <1>a, <3>2 DEF JobStalls, RunType
  <2>3. QueueType'
    BY <1>10, <1>a, <2>1 DEF JobStalls, QueueType
  <2> QED
    BY <1>10, <2>2, <2>3, Frame DEF JobStalls
<1>11. CASE WorkerDies(w)
  BY <1>11, <1>a, RunLeave, Frame DEF WorkerDies
<1>12. CASE CompleteFails(w)
  BY <1>12, <1>a, RunGo, Frame DEF CompleteFails, RunPc
<1>13. CASE RunFails(w)
  BY <1>13, <1>a, FinishType, Frame DEF RunFails
<1> QED
  BY <1>1, <1>2, <1>3, <1>4, <1>5, <1>6, <1>7, <1>8, <1>9, <1>10, <1>11, <1>12, <1>13,
     <1>14
  DEF WorkerStep

\* A registration that exists is a user's, for a ticket.
LEMMA RegExists ==
  ASSUME DbType, NEW r \in RegId, regs[r].status # "none"
  PROVE  /\ regs[r] \in [user : User, ticket : Ticket,
                         status : ActiveStatus \cup {"CANCELLED"}]
         /\ regs[r].user \in User /\ regs[r].ticket \in Ticket
BY DEF DbType, RegRecord, NoReg

\* Changing the status of a registration that exists keeps the type of the rows.
LEMMA StatusUpdateType ==
  ASSUME DbType, NEW r \in RegId, regs[r].status # "none",
         NEW s \in ActiveStatus \cup {"CANCELLED"},
         regs' = [regs EXCEPT ![r].status = s]
  PROVE  regs' \in [RegId -> RegRecord]
<1>1. [regs[r] EXCEPT !.status = s] \in RegRecord
  BY RegExists DEF RegRecord
<1> QED
  BY <1>1 DEF DbType

\* Every step of an order keeps the types.
LEMMA TypeOrder ==
  ASSUME TypeOK, UNCHANGED faults, NEW r \in RegId, OrderStep(r) PROVE TypeOK'
<1>a. DbType /\ RedisType /\ release \subseteq RegId
  BY DEF TypeOK
<1>f. QueueType' /\ ReqType' /\ RunType' /\ RecType'
  <2>1. UNCHANGED queue /\ UNCHANGED req /\ UNCHANGED run /\ UNCHANGED rec
    BY DEF OrderStep, ConfirmOrder, MarkNoShow, CancelOrder, ReleaseConfirmed, ReleaseLost
  <2> QED
    BY <2>1, Frame
<1> SUFFICES DbType' /\ RedisType' /\ release' \subseteq RegId
  BY <1>f DEF TypeOK
<1>1. CASE ConfirmOrder(r)
  <2>1. regs' \in [RegId -> RegRecord]
    BY <1>1, <1>a, StatusUpdateType DEF ConfirmOrder, ActiveStatus
  <2> QED
    BY <1>1, <1>a, <2>1, Frame DEF ConfirmOrder, DbType
<1>2. CASE MarkNoShow(r)
  <2>1. regs' \in [RegId -> RegRecord]
    BY <1>2, <1>a, StatusUpdateType DEF MarkNoShow, ActiveStatus
  <2> QED
    BY <1>2, <1>a, <2>1, Frame DEF MarkNoShow, DbType
<1>3. CASE CancelOrder(r)
  <2>1. regs' \in [RegId -> RegRecord]
    BY <1>3, <1>a, StatusUpdateType DEF CancelOrder
  <2>2. reserved' \in [Ticket -> Nat]
    BY <1>3, <1>a, RegExists DEF CancelOrder, DbType
  <2> QED
    BY <1>3, <1>a, <2>1, <2>2, Frame DEF CancelOrder, DbType
<1>4. CASE ReleaseConfirmed(r)
  <2>1. remaining' \in [Ticket -> Nat \cup {Missing}]
    <3>1. CASE regs[r].ticket \in Ticket
      BY <1>4, <1>a, <3>1 DEF ReleaseConfirmed, RedisType, Missing
    <3>2. CASE regs[r].ticket \notin Ticket
      BY <1>4, <1>a, <3>2 DEF ReleaseConfirmed, RedisType
    <3> QED
      BY <3>1, <3>2
  <2>2. RedisType'
    BY <1>4, <1>a, <2>1 DEF ReleaseConfirmed, RedisType
  <2> QED
    BY <1>4, <1>a, <2>2, Frame DEF ReleaseConfirmed
<1>5. CASE ReleaseLost(r)
  BY <1>5, <1>a, Frame DEF ReleaseLost
<1> QED
  BY <1>1, <1>2, <1>3, <1>4, <1>5 DEF OrderStep

\* Every step of the recovery service keeps the types.
LEMMA TypeRecovery ==
  ASSUME TypeOK, UNCHANGED faults, RecoveryStep PROVE TypeOK'
<1>a. DbType /\ RedisType /\ RecType /\ release \subseteq RegId
  BY DEF TypeOK
<1>f. DbType' /\ QueueType' /\ ReqType' /\ RunType' /\ release' \subseteq RegId
  <2>1. UNCHANGED db /\ UNCHANGED queue /\ UNCHANGED req /\ UNCHANGED run
        /\ UNCHANGED release
    BY DEF RecoveryStep, RehydrateSnapshot, ReconcileScan, ReconcileMGet, ReconcileSet
  <2> QED
    BY <1>a, <2>1, Frame
<1> SUFFICES RedisType' /\ RecType'
  BY <1>f DEF TypeOK
<1>1. CASE RehydrateSnapshot
  <2>1. ASSUME NEW t \in Ticket PROVE NonNegative(Stock[t] - reserved[t]) \in Nat
    BY <1>a, GrabAssumption, NonNegativeType DEF DbType
  <2>2. RecType'
    BY <1>1, <2>1 DEF RehydrateSnapshot, RecType, RecPc, IdleRec
  <2> QED
    BY <1>1, <2>2, Frame DEF RehydrateSnapshot
<1>2. ASSUME NEW t \in Ticket, ReconcileScan(t) PROVE RedisType' /\ RecType'
  BY <1>2, <1>a, Frame DEF ReconcileScan, RecType, RecPc
<1>3. CASE ReconcileMGet
  <2>1. rec.ticket \in Ticket /\ rec.keys \in SUBSET User
    BY <1>3, <1>a DEF ReconcileMGet, RecType
  <2>2. NonNegative(rec.snap[rec.ticket] - CountClaims(rec.keys, rec.ticket)) \in Nat
    BY <1>a, <2>1, CountClaimsType, NonNegativeType DEF RecType
  <2> QED
    BY <1>3, <1>a, <2>1, <2>2, Frame DEF ReconcileMGet, RecType, RecPc
<1>4. CASE ReconcileSet
  <2>1. RecType'
    BY <1>4, <1>a DEF ReconcileSet, RecType, RecPc, IdleRec
  <2>2. RedisType'
    BY <1>4, <1>a DEF ReconcileSet, RedisType, RecType
  <2> QED
    BY <2>1, <2>2
<1> QED
  BY <1>1, <1>2, <1>3, <1>4 DEF RecoveryStep

\* Expiries, lost keys, evicted jobs and the end of the sale keep the types.
LEMMA TypeEnv ==
  ASSUME TypeOK, UNCHANGED faults, EnvStep PROVE TypeOK'
<1>a. DbType /\ RedisType /\ QueueType /\ release \subseteq RegId
  BY DEF TypeOK
<1>1. ASSUME NEW u \in User, PendingExpires(u) \/ FailureExpires(u) PROVE TypeOK'
  <2>1. RedisType'
    BY <1>1, <1>a DEF PendingExpires, FailureExpires, RedisType
  <2> QED
    BY <1>1, <1>a, <2>1, Frame DEF PendingExpires, FailureExpires, TypeOK
<1>2. ASSUME NEW t \in Ticket, StockKeyLost(t) PROVE TypeOK'
  <2>1. RedisType'
    BY <1>2, <1>a DEF StockKeyLost, RedisType
  <2> QED
    BY <1>2, <1>a, <2>1, Frame DEF StockKeyLost, TypeOK
<1>3. ASSUME NEW u \in User, NEW t \in Ticket, JobEvicted(u, t) PROVE TypeOK'
  <2>1. QueueType'
    BY <1>3, <1>a DEF JobEvicted, QueueType
  <2> QED
    BY <1>3, <1>a, <2>1, Frame DEF JobEvicted, TypeOK
<1>4. CASE SaleSwitches
  <2>1. DbType'
    BY <1>4, <1>a DEF SaleSwitches, DbType
  <2> QED
    BY <1>4, <1>a, <2>1, Frame DEF SaleSwitches, TypeOK
<1> QED
  BY <1>1, <1>2, <1>3, <1>4 DEF EnvStep

\* Every state of ActivityGrab is well typed.
THEOREM TypeCorrect == Spec => []TypeOK
<1>1. TypeOK /\ [Next]_vars => TypeOK'
  <2> SUFFICES ASSUME TypeOK, [Next]_vars PROVE TypeOK'
    OBVIOUS
  <2>1. CASE UNCHANGED vars
    <3>1. release' \subseteq RegId /\ faults' \in FaultSets
      BY <2>1 DEF vars, TypeOK
    <3> QED
      BY <2>1, <3>1, Frame DEF vars, TypeOK
  <2> QED
    BY <2>1, TypeRequest, TypeWorker, TypeOrder, TypeRecovery, TypeEnv DEF Next, Step
<1> QED
  BY <1>1, TypeInit, PTL DEF Spec

-----------------------------------------------------------------------------
(* No oversell, and one active registration per user *)

SaleInv == TypeOK /\ ReservedIsExact /\ OneActivePerUser

\* Creating an active registration of u and t adds it to the holders of t and to
\* the active registrations of u, and to no other.
LEMMA BookedSets ==
  ASSUME DbType, NEW r \in RegId, regs[r] = NoReg,
         NEW u \in User, NEW t \in Ticket, NEW s \in ActiveStatus,
         regs' = [regs EXCEPT ![r] = [user |-> u, ticket |-> t, status |-> s]]
  PROVE  /\ r \notin HoldersOf(t) /\ r \notin ActiveOf(u)
         /\ HoldersOf(t)' = HoldersOf(t) \cup {r}
         /\ ActiveOf(u)' = ActiveOf(u) \cup {r}
         /\ \A x \in Ticket \ {t} : HoldersOf(x)' = HoldersOf(x)
         /\ \A v \in User \ {u} : ActiveOf(v)' = ActiveOf(v)
<1>1. /\ regs'[r] = [user |-> u, ticket |-> t, status |-> s]
      /\ \A q \in RegId \ {r} : regs'[q] = regs[q]
      /\ regs[r].status \notin ActiveStatus
  BY DEF DbType, NoReg, ActiveStatus
<1> QED
  BY <1>1 DEF HoldersOf, ActiveOf

\* A change of status between active ones changes neither set.
LEMMA ActiveToActive ==
  ASSUME DbType, NEW r \in RegId, regs[r].status \in ActiveStatus,
         NEW s \in ActiveStatus, regs' = [regs EXCEPT ![r].status = s]
  PROVE  /\ \A x : HoldersOf(x)' = HoldersOf(x)
         /\ \A v : ActiveOf(v)' = ActiveOf(v)
<1>1. /\ regs'[r].status = s /\ regs'[r].user = regs[r].user
      /\ regs'[r].ticket = regs[r].ticket
      /\ \A q \in RegId \ {r} : regs'[q] = regs[q]
  BY RegExists DEF DbType, ActiveStatus
<1> QED
  BY <1>1 DEF HoldersOf, ActiveOf

\* Cancelling takes the registration out of the sets of its ticket and user.
LEMMA CancelledSets ==
  ASSUME DbType, NEW r \in RegId, regs[r].status \in ActiveStatus,
         regs' = [regs EXCEPT ![r].status = "CANCELLED"]
  PROVE  /\ r \in HoldersOf(regs[r].ticket) /\ r \in ActiveOf(regs[r].user)
         /\ \A x : HoldersOf(x)' = HoldersOf(x) \ {r}
         /\ \A v : ActiveOf(v)' = ActiveOf(v) \ {r}
         /\ \A x \in Ticket \ {regs[r].ticket} : r \notin HoldersOf(x)
<1>1. /\ regs'[r].status = "CANCELLED"
      /\ \A q \in RegId \ {r} : regs'[q] = regs[q]
  BY RegExists DEF DbType, ActiveStatus
<1>2. "CANCELLED" \notin ActiveStatus
  BY DEF ActiveStatus
<1> QED
  BY <1>1, <1>2 DEF HoldersOf, ActiveOf

\* Only these steps change the database.
LEMMA DbSteps ==
  ASSUME [Next]_vars
  PROVE  \/ UNCHANGED db
         \/ SaleSwitches
         \/ \E w \in Slot : BookTx(w)
         \/ \E r \in RegId : ConfirmOrder(r) \/ MarkNoShow(r) \/ CancelOrder(r)
<1> USE DEF db
<1>1. ASSUME NEW q \in Req, RequestStep(q) PROVE UNCHANGED db
  BY <1>1 DEF RequestStep, GrabReadTicket, GrabAssertNotRegistered, EnsureExists,
         EnsureScan, EnsureMGet, EnsureSetNX, Reserve, Enqueue, EnqueueFails,
         CompensateRequest, RequestDies
<1>2. ASSUME NEW w \in Slot, WorkerStep(w)
      PROVE  BookTx(w) \/ UNCHANGED db
  BY <1>2 DEF WorkerStep, TakeJob, LookupExisting, ReadTicket, BookTxFails, ScheduleExpiration,
         CompleteRun, CompensateRun, ReadDuplicated, CompleteThenCompensate,
         JobStalls, WorkerDies, CompleteFails, RunFails
<1>3. ASSUME NEW r \in RegId, OrderStep(r)
      PROVE  ConfirmOrder(r) \/ MarkNoShow(r) \/ CancelOrder(r)
                \/ UNCHANGED db
  BY <1>3 DEF OrderStep, ReleaseConfirmed, ReleaseLost
<1>4. ASSUME RecoveryStep \/ EnvStep PROVE UNCHANGED db \/ SaleSwitches
  BY <1>4 DEF RecoveryStep, RehydrateSnapshot, ReconcileScan, ReconcileMGet,
         ReconcileSet, EnvStep, PendingExpires, FailureExpires, StockKeyLost,
         JobEvicted
<1>5. UNCHANGED vars => UNCHANGED db
  BY DEF vars
<1> QED
  BY <1>1, <1>2, <1>3, <1>4, <1>5 DEF Next, Step

\* The successful branch of the worker's transaction.
Booked(w) ==
    /\ run[w].pc = "book"
    /\ StockLeft(run[w].ticket)
    /\ ~ViolatesUniqueIndex(run[w].user)
    /\ \E r \in FreeReg, s \in ActiveStatus \ {"NO_SHOW"} :
         regs' = [regs EXCEPT ![r] =
             [user |-> run[w].user, ticket |-> run[w].ticket, status |-> s]]
    /\ reserved' = [reserved EXCEPT ![run[w].ticket] = @ + 1]
    /\ onSale' = onSale

\* The transaction either books or changes nothing in the database.
LEMMA BookTxOutcome ==
  ASSUME NEW w \in Slot, BookTx(w)
  PROVE  run[w].pc = "book" /\ (UNCHANGED db \/ Booked(w))
BY DEF BookTx, Booked, ActiveStatus, db

\* The booking transaction preserves the count and the uniqueness: stock is left
\* when reserved grows, and the user had no active registration.
LEMMA BookedKeepsSale ==
  ASSUME SaleInv, TypeOK', NEW w \in Slot, Booked(w)
  PROVE  ReservedIsExact' /\ OneActivePerUser'
<1>0. run[w].user \in User /\ run[w].ticket \in Ticket /\ DbType
  BY RunAtWork DEF Booked, SaleInv, TypeOK
<1>u. PICK u \in User : u = run[w].user
  BY <1>0
<1>t. PICK t \in Ticket : t = run[w].ticket
  BY <1>0
<1>1. /\ DbType
      /\ StockLeft(t) /\ ~ViolatesUniqueIndex(u)
      /\ reserved' = [reserved EXCEPT ![t] = @ + 1]
  BY <1>0, <1>u, <1>t DEF Booked
<1>2. PICK r \in FreeReg, s \in ActiveStatus :
        regs' = [regs EXCEPT ![r] = [user |-> u, ticket |-> t, status |-> s]]
  BY <1>u, <1>t DEF Booked
<1>3. r \in RegId /\ regs[r] = NoReg
  BY FreeRegIsFree
<1>4. /\ r \notin HoldersOf(t) /\ HoldersOf(t)' = HoldersOf(t) \cup {r}
      /\ ActiveOf(u)' = ActiveOf(u) \cup {r}
      /\ \A x \in Ticket \ {t} : HoldersOf(x)' = HoldersOf(x)
      /\ \A v \in User \ {u} : ActiveOf(v)' = ActiveOf(v)
  BY <1>1, <1>2, <1>3, BookedSets
<1>5. ASSUME NEW x \in Ticket
      PROVE  reserved'[x] = Cardinality(HoldersOf(x)') /\ reserved'[x] <= Stock[x]
  <2>1. CASE x = t
    <3>1. Cardinality(HoldersOf(t)') = Cardinality(HoldersOf(t)) + 1
      BY <1>4, HoldersFinite, FS_AddElement
    <3>2. reserved'[t] = reserved[t] + 1 /\ reserved[t] < Stock[t]
      BY <1>1 DEF DbType, StockLeft
    <3>3. reserved[t] = Cardinality(HoldersOf(t)) /\ reserved[t] \in Nat /\ Stock[t] \in Nat
      BY <1>1, GrabAssumption DEF SaleInv, ReservedIsExact, DbType
    <3> QED
      BY <2>1, <3>1, <3>2, <3>3
  <2>2. CASE x # t
    BY <1>1, <1>4, <2>2 DEF DbType, SaleInv, ReservedIsExact
  <2> QED
    BY <2>1, <2>2
<1>6. ASSUME NEW v \in User PROVE Cardinality(ActiveOf(v)') <= 1
  <2>1. CASE v = u
    <3>1. ActiveOf(u)' = {r}
      BY <1>1, <1>4 DEF ViolatesUniqueIndex
    <3>2. Cardinality({r}) = 1
      BY FS_Singleton
    <3> QED
      BY <2>1, <3>1, <3>2
  <2>2. CASE v # u
    BY <1>4, <2>2 DEF SaleInv, OneActivePerUser
  <2> QED
    BY <2>1, <2>2
<1> QED
  BY <1>5, <1>6 DEF ReservedIsExact, OneActivePerUser

\* So does the cancelling transaction, which gives back one place it counted.
LEMMA CancelledKeepsSale ==
  ASSUME SaleInv, TypeOK', NEW r \in RegId, CancelOrder(r)
  PROVE  ReservedIsExact' /\ OneActivePerUser'
<1> DEFINE t == regs[r].ticket
<1>1. DbType /\ t \in Ticket /\ regs[r].status \in ActiveStatus
  BY RegExists DEF CancelOrder, SaleInv, TypeOK, ActiveStatus
<1>2. /\ r \in HoldersOf(t)
      /\ \A x : HoldersOf(x)' = HoldersOf(x) \ {r}
      /\ \A v : ActiveOf(v)' = ActiveOf(v) \ {r}
      /\ \A x \in Ticket \ {t} : r \notin HoldersOf(x)
  BY <1>1, CancelledSets DEF CancelOrder
<1>3. ASSUME NEW x \in Ticket
      PROVE  reserved'[x] = Cardinality(HoldersOf(x)') /\ reserved'[x] <= Stock[x]
  <2>a. /\ reserved[x] = Cardinality(HoldersOf(x)) /\ reserved[x] <= Stock[x]
        /\ reserved[x] \in Nat /\ Stock[x] \in Nat
    BY <1>1, GrabAssumption DEF SaleInv, ReservedIsExact, DbType
  <2>1. CASE x = t
    <3>1. Cardinality(HoldersOf(x)') = Cardinality(HoldersOf(x)) - 1
      BY <1>2, <2>1, HoldersFinite, FS_RemoveElement
    <3>2. reserved'[x] = reserved[x] - 1
      BY <1>1, <2>1 DEF CancelOrder, DbType
    <3> QED
      BY <2>a, <3>1, <3>2
  <2>2. CASE x # t
    <3>1. HoldersOf(x)' = HoldersOf(x)
      BY <1>2, <2>2
    <3>2. reserved'[x] = reserved[x]
      BY <1>1, <2>2 DEF CancelOrder, DbType
    <3> QED
      BY <2>a, <3>1, <3>2
  <2> QED
    BY <2>1, <2>2
<1>4. ASSUME NEW v \in User PROVE Cardinality(ActiveOf(v)') <= 1
  <2>1. ActiveOf(v) \in SUBSET RegId /\ Cardinality(ActiveOf(v)) <= 1
    BY DEF ActiveOf, SaleInv, OneActivePerUser
  <2>2. IsFiniteSet(ActiveOf(v)) /\ Cardinality(ActiveOf(v)) \in Nat
    BY <2>1, RegIdFinite, FS_Subset, FS_CardinalityType
  <2>3. Cardinality(ActiveOf(v) \ {r}) <= Cardinality(ActiveOf(v))
    BY <2>2, FS_RemoveElement
  <2>4. Cardinality(ActiveOf(v) \ {r}) \in Nat
    BY <2>2, FS_RemoveElement, FS_CardinalityType
  <2>5. Cardinality(ActiveOf(v) \ {r}) <= 1
    BY <2>1, <2>2, <2>3, <2>4
  <2>6. ActiveOf(v)' = ActiveOf(v) \ {r}
    BY <1>2
  <2> QED
    BY <2>5, <2>6
<1> QED
  BY <1>3, <1>4 DEF ReservedIsExact, OneActivePerUser

\* reserved counts the registrations that hold a place and never exceeds the
\* stock, and no user holds two, in every state of ActivityGrab: SaleInv is
\* inductive given the types.
THEOREM SaleSafe == Spec => [](ReservedIsExact /\ OneActivePerUser)
<1>1. Init => SaleInv
  <2> SUFFICES ASSUME Init PROVE SaleInv
    OBVIOUS
  <2>1. /\ \A t : HoldersOf(t) = {}
        /\ \A u : ActiveOf(u) = {}
    BY DEF Init, HoldersOf, ActiveOf, NoReg, ActiveStatus
  <2>2. Cardinality({}) = 0
    BY FS_EmptySet
  <2>3. ReservedIsExact
    <3>1. ASSUME NEW t \in Ticket
          PROVE  reserved[t] = Cardinality(HoldersOf(t)) /\ reserved[t] <= Stock[t]
      <4>1. Cardinality(HoldersOf(t)) = 0
        BY <2>1, <2>2
      <4>2. reserved[t] = 0 /\ Stock[t] \in Nat
        BY GrabAssumption DEF Init
      <4> QED
        BY <4>1, <4>2
    <3> QED
      BY <3>1 DEF ReservedIsExact
  <2>4. OneActivePerUser
    BY <2>1, <2>2 DEF OneActivePerUser
  <2> QED
    BY <2>3, <2>4, TypeInit DEF SaleInv
<1>2. SaleInv /\ TypeOK' /\ [Next]_vars => SaleInv'
  <2> SUFFICES ASSUME SaleInv, TypeOK', [Next]_vars
               PROVE  ReservedIsExact' /\ OneActivePerUser'
    BY DEF SaleInv
  <2>1. CASE UNCHANGED db \/ SaleSwitches
    <3>1. UNCHANGED <<regs, reserved>>
      BY <2>1 DEF db, SaleSwitches
    <3> QED
      BY <3>1 DEF SaleInv, ReservedIsExact, OneActivePerUser, HoldersOf, ActiveOf
  <2>2. ASSUME NEW w \in Slot, BookTx(w) PROVE ReservedIsExact' /\ OneActivePerUser'
    BY <2>1, <2>2, BookTxOutcome, BookedKeepsSale
  <2>3. ASSUME NEW r \in RegId, ConfirmOrder(r) \/ MarkNoShow(r)
        PROVE  ReservedIsExact' /\ OneActivePerUser'
    <3>1. /\ \A x : HoldersOf(x)' = HoldersOf(x)
          /\ \A v : ActiveOf(v)' = ActiveOf(v)
      <4>1. DbType
        BY DEF SaleInv, TypeOK
      <4>2. PICK s \in ActiveStatus : regs' = [regs EXCEPT ![r].status = s]
        BY <2>3 DEF ConfirmOrder, MarkNoShow, ActiveStatus
      <4>3. regs[r].status \in ActiveStatus
        BY <2>3 DEF ConfirmOrder, MarkNoShow, ActiveStatus
      <4> QED
        BY <4>1, <4>2, <4>3, ActiveToActive
    <3>2. reserved' = reserved
      BY <2>3 DEF ConfirmOrder, MarkNoShow
    <3> QED
      BY <3>1, <3>2 DEF SaleInv, ReservedIsExact, OneActivePerUser
  <2>4. ASSUME NEW r \in RegId, CancelOrder(r) PROVE ReservedIsExact' /\ OneActivePerUser'
    BY <2>4, CancelledKeepsSale
  <2> QED
    BY <2>1, <2>2, <2>3, <2>4, DbSteps
<1> QED
  BY <1>1, <1>2, TypeCorrect, PTL DEF Spec, SaleInv

-----------------------------------------------------------------------------
(* ActivityGrab implements the abstract sale *)

\* A user's active registration is the only one.
LEMMA ActiveIsUnique ==
  ASSUME SaleInv, NEW u \in User, NEW r \in ActiveOf(u)
  PROVE  ActiveOf(u) = {r}
<1>1. IsFiniteSet(ActiveOf(u)) /\ Cardinality(ActiveOf(u)) \in Nat
  <2>1. ActiveOf(u) \in SUBSET RegId
    BY DEF ActiveOf
  <2> QED
    BY <2>1, RegIdFinite, FS_Subset, FS_CardinalityType
<1>2. Cardinality(ActiveOf(u)) <= 1
  BY DEF SaleInv, OneActivePerUser
<1>3. Cardinality(ActiveOf(u)) # 0
  BY <1>1, FS_EmptySet
<1>4. Cardinality(ActiveOf(u)) = 1
  BY <1>1, <1>2, <1>3
<1>5. PICK x : ActiveOf(u) = {x}
  BY <1>1, <1>4, FS_Singleton
<1> QED
  BY <1>5

\* What a user holds, and whether it is written off, in terms of the rows.
HeldByRows ==
    \A u \in User :
        /\ ActiveOf(u) = {} => Held(u) = None /\ u \notin NoShowUsers
        /\ \A r \in ActiveOf(u) :
             /\ Held(u) = regs[r].ticket /\ Held(u) \in Ticket
             /\ u \in NoShowUsers <=> regs[r].status = "NO_SHOW"

\* A user holds the ticket of the one active registration, if there is one.
LEMMA HeldIs == SaleInv => HeldByRows
<1> SUFFICES ASSUME SaleInv, NEW u \in User
             PROVE  /\ ActiveOf(u) = {} => Held(u) = None /\ u \notin NoShowUsers
                    /\ \A r \in ActiveOf(u) :
                         /\ Held(u) = regs[r].ticket /\ Held(u) \in Ticket
                         /\ u \in NoShowUsers <=> regs[r].status = "NO_SHOW"
  BY DEF HeldByRows
<1>1. ActiveOf(u) = {} => Held(u) = None /\ u \notin NoShowUsers
  BY DEF Held, NoShowUsers
<1>2. ASSUME NEW r \in ActiveOf(u)
      PROVE  /\ Held(u) = regs[r].ticket /\ Held(u) \in Ticket
             /\ u \in NoShowUsers <=> regs[r].status = "NO_SHOW"
  <2>1. ActiveOf(u) = {r}
    BY ActiveIsUnique
  <2>2. (CHOOSE x \in ActiveOf(u) : TRUE) = r
    BY <2>1
  <2>3. r \in RegId /\ regs[r].status # "none" /\ DbType
    BY DEF ActiveOf, ActiveStatus, SaleInv, TypeOK
  <2>4. regs[r].ticket \in Ticket
    BY <2>3, RegExists
  <2> QED
    BY <2>1, <2>2, <2>4 DEF Held, NoShowUsers
<1> QED
  BY <1>1, <1>2

\* No more users hold a ticket than registrations do.
LEMMA SoldAtMostHolders ==
  ASSUME SaleInv, NEW t \in Ticket
  PROVE  /\ Cardinality(Sale!Sold(t)) \in Nat
         /\ Cardinality(Sale!Sold(t)) <= Cardinality(HoldersOf(t))
<1> DEFINE S == Sale!Sold(t)
           f == [u \in S |-> CHOOSE r \in ActiveOf(u) : TRUE]
<1>0. None \notin Ticket
  BY GrabAssumption
<1>1. ASSUME NEW u \in S
      PROVE  /\ u \in User /\ f[u] \in ActiveOf(u)
             /\ f[u] \in HoldersOf(t) /\ regs[f[u]].user = u
  <2>1. u \in User /\ Held(u) = t
    BY DEF Sale!Sold
  <2>2. ActiveOf(u) # {}
    BY <1>0, <2>1 DEF Held
  <2>3. f[u] \in ActiveOf(u)
    BY <2>2
  <2>4. regs[f[u]].ticket = t
    BY <2>1, <2>3, HeldIs DEF HeldByRows
  <2> QED
    BY <2>1, <2>3, <2>4 DEF ActiveOf, HoldersOf
<1>2. f \in Injection(S, HoldersOf(t))
  <2>1. f \in [S -> HoldersOf(t)]
    BY <1>1
  <2>2. \A u, v \in S : f[u] = f[v] => u = v
    BY <1>1
  <2> HIDE DEF f, S
  <2> QED
    BY <2>1, <2>2 DEF Injection, IsInjective
<1> HIDE DEF f, S
<1>3. IsFiniteSet(S) /\ Cardinality(S) <= Cardinality(HoldersOf(t))
  BY <1>2, HoldersFinite, FS_Injection
<1> QED
  BY <1>3, FS_CardinalityType DEF S

\* A user whose active registrations, and their tickets, stay the same holds
\* the same ticket.
LEMMA SameHeld ==
  ASSUME HeldByRows, HeldByRows', NEW v \in User, ActiveOf(v)' = ActiveOf(v),
         \A x \in ActiveOf(v) : regs'[x].ticket = regs[x].ticket
  PROVE  Held(v)' = Held(v)
<1>1. CASE ActiveOf(v) = {}
  BY <1>1 DEF HeldByRows
<1>2. CASE ActiveOf(v) # {}
  <2>1. PICK x : x \in ActiveOf(v)
    BY <1>2
  <2> QED
    BY <2>1 DEF HeldByRows
<1> QED
  BY <1>1, <1>2

\* And if their statuses stay the same too, the user is as written off as before.
LEMMA SameWriteOff ==
  ASSUME HeldByRows, HeldByRows', NEW v \in User, ActiveOf(v)' = ActiveOf(v),
         \A x \in ActiveOf(v) : regs'[x].status = regs[x].status
  PROVE  v \in NoShowUsers' <=> v \in NoShowUsers
<1>1. CASE ActiveOf(v) = {}
  BY <1>1 DEF HeldByRows
<1>2. CASE ActiveOf(v) # {}
  <2>1. PICK x : x \in ActiveOf(v)
    BY <1>2
  <2> QED
    BY <2>1 DEF HeldByRows
<1> QED
  BY <1>1, <1>2

\* The worker's booking is a sale.
LEMMA BookedIsSell ==
  ASSUME SaleInv, HeldByRows, HeldByRows', NEW w \in Slot, Booked(w)
  PROVE  \E u \in User, t \in Ticket : Sale!Sell(u, t)
<1>0. run[w].user \in User /\ run[w].ticket \in Ticket
  BY RunAtWork DEF Booked, SaleInv, TypeOK
<1>u. PICK u \in User : u = run[w].user
  BY <1>0
<1>t. PICK t \in Ticket : t = run[w].ticket
  BY <1>0
<1>1. /\ DbType
      /\ StockLeft(t) /\ ~ViolatesUniqueIndex(u)
  BY <1>u, <1>t DEF Booked, SaleInv, TypeOK
<1>2. PICK r \in FreeReg, s \in ActiveStatus \ {"NO_SHOW"} :
        regs' = [regs EXCEPT ![r] = [user |-> u, ticket |-> t, status |-> s]]
  BY <1>u, <1>t DEF Booked
<1>3. r \in RegId /\ regs[r] = NoReg
  BY FreeRegIsFree
<1>4. /\ ActiveOf(u)' = ActiveOf(u) \cup {r}
      /\ \A v \in User \ {u} : ActiveOf(v)' = ActiveOf(v)
  BY <1>1, <1>2, <1>3, BookedSets
<1>5. /\ regs'[r] = [user |-> u, ticket |-> t, status |-> s]
      /\ \A x \in RegId \ {r} : regs'[x] = regs[x]
  BY <1>1, <1>2, <1>3 DEF DbType
<1>6. Held(u) = None /\ u \notin NoShowUsers
  BY <1>1 DEF ViolatesUniqueIndex, HeldByRows
<1>7. Held(u)' = t /\ u \notin NoShowUsers'
  <2>1. r \in ActiveOf(u)'
    BY <1>4
  <2>2. regs'[r].ticket = t /\ regs'[r].status # "NO_SHOW"
    BY <1>5
  <2> QED
    BY <2>1, <2>2 DEF HeldByRows
<1>8. ASSUME NEW v \in User \ {u}
      PROVE  Held(v)' = Held(v) /\ (v \in NoShowUsers' <=> v \in NoShowUsers)
  <2>1. ActiveOf(v)' = ActiveOf(v)
    BY <1>4
  <2>2. \A x \in ActiveOf(v) : regs'[x] = regs[x]
    BY <1>3, <1>5 DEF ActiveOf, NoReg, ActiveStatus
  <2> QED
    BY <2>1, <2>2, SameHeld, SameWriteOff
<1>9. NoShowUsers' = NoShowUsers
  <2>1. NoShowUsers \subseteq User /\ NoShowUsers' \subseteq User
    BY DEF NoShowUsers
  <2> QED
    BY <2>1, <1>6, <1>7, <1>8
<1>10. [x \in User |-> Held(x)]' = [[x \in User |-> Held(x)] EXCEPT ![u] = t]
  BY <1>7, <1>8
<1>11. Sale!Cardinality(Sale!Sold(t)) < Stock[t]
  <2>0. Sale!Cardinality(Sale!Sold(t)) = Cardinality(Sale!Sold(t))
    BY DEF Sale!Cardinality, Cardinality
  <2>1. Cardinality(Sale!Sold(t)) <= Cardinality(HoldersOf(t))
    BY SoldAtMostHolders
  <2>2. reserved[t] = Cardinality(HoldersOf(t)) /\ reserved[t] < Stock[t]
    BY <1>1 DEF StockLeft, SaleInv, ReservedIsExact
  <2>3. /\ Cardinality(Sale!Sold(t)) \in Nat
        /\ reserved[t] \in Nat /\ Stock[t] \in Nat
    BY <1>1, SoldAtMostHolders, GrabAssumption DEF DbType
  <2> QED
    BY <2>0, <2>1, <2>2, <2>3
<1>12. Sale!Sell(u, t)
  BY <1>1, <1>6, <1>9, <1>10, <1>11 DEF Sale!Sell
<1> QED
  BY <1>12

\* Cancelling or expiring an order returns the place of its user.
LEMMA CancelledIsReturn ==
  ASSUME SaleInv, HeldByRows, HeldByRows', NEW r \in RegId, CancelOrder(r)
  PROVE  \E u \in User : Sale!Return(u)
<1>1. DbType /\ regs[r].status \in ActiveStatus \ {"NO_SHOW"}
  BY DEF CancelOrder, SaleInv, TypeOK, ActiveStatus
<1>u. PICK u \in User : u = regs[r].user
  BY <1>1, RegExists DEF ActiveStatus
<1>2. /\ regs' = [regs EXCEPT ![r].status = "CANCELLED"]
      /\ r \in ActiveOf(u)
      /\ \A v : ActiveOf(v)' = ActiveOf(v) \ {r}
  BY <1>1, <1>u, CancelledSets DEF CancelOrder
<1>3. ActiveOf(u) = {r}
  BY <1>2, ActiveIsUnique
<1>4. Held(u) # None /\ u \notin NoShowUsers
  <2>1. Held(u) \in Ticket /\ u \notin NoShowUsers
    BY <1>1, <1>2 DEF HeldByRows
  <2> QED
    BY <2>1, GrabAssumption
<1>5. Held(u)' = None /\ u \notin NoShowUsers'
  <2>1. ActiveOf(u)' = {}
    BY <1>2, <1>3
  <2> QED
    BY <2>1 DEF HeldByRows
<1>6. ASSUME NEW v \in User \ {u}
      PROVE  Held(v)' = Held(v) /\ (v \in NoShowUsers' <=> v \in NoShowUsers)
  <2>1. r \notin ActiveOf(v)
    BY <1>u DEF ActiveOf
  <2>2. ActiveOf(v)' = ActiveOf(v)
    BY <1>2, <2>1
  <2>3. \A x \in ActiveOf(v) : regs'[x] = regs[x]
    BY <1>1, <1>2, <2>1 DEF ActiveOf, DbType
  <2> QED
    BY <2>2, <2>3, SameHeld, SameWriteOff
<1>7. NoShowUsers' = NoShowUsers
  <2>1. NoShowUsers \subseteq User /\ NoShowUsers' \subseteq User
    BY DEF NoShowUsers
  <2> QED
    BY <2>1, <1>4, <1>5, <1>6
<1>8. [x \in User |-> Held(x)]' = [[x \in User |-> Held(x)] EXCEPT ![u] = None]
  BY <1>5, <1>6
<1> QED
  BY <1>2, <1>4, <1>7, <1>8 DEF Sale!Return

\* Confirming an order changes nothing of the sale.
LEMMA ConfirmedIsStutter ==
  ASSUME SaleInv, HeldByRows, HeldByRows', NEW r \in RegId, ConfirmOrder(r)
  PROVE  UNCHANGED <<[x \in User |-> Held(x)], NoShowUsers>>
<1>1. /\ DbType /\ regs[r].status = "PENDING_CONFIRMATION"
      /\ regs' = [regs EXCEPT ![r].status = "CONFIRMED"]
  BY DEF ConfirmOrder, SaleInv, TypeOK
<1>2. \A v : ActiveOf(v)' = ActiveOf(v)
  BY <1>1, ActiveToActive DEF ActiveStatus
<1>3. /\ \A x \in RegId : regs'[x].ticket = regs[x].ticket
      /\ \A x \in RegId \ {r} : regs'[x] = regs[x]
      /\ regs'[r].status = "CONFIRMED"
  BY <1>1, RegExists DEF DbType
<1>4. ASSUME NEW v \in User PROVE Held(v)' = Held(v)
  BY <1>2, <1>3, SameHeld DEF ActiveOf
<1>5. NoShowUsers' = NoShowUsers
  <2>1. NoShowUsers \subseteq User /\ NoShowUsers' \subseteq User
    BY DEF NoShowUsers
  <2>2. ASSUME NEW v \in User PROVE v \in NoShowUsers' <=> v \in NoShowUsers
    <3>1. \A x \in ActiveOf(v) : regs'[x].status = "NO_SHOW" <=> regs[x].status = "NO_SHOW"
      BY <1>1, <1>3 DEF ActiveOf
    <3> QED
      BY <1>2, <3>1 DEF NoShowUsers
  <2> QED
    BY <2>1, <2>2
<1> QED
  BY <1>1, <1>4, <1>5

\* Marking a no-show writes its user off.
LEMMA MarkedIsWriteOff ==
  ASSUME SaleInv, HeldByRows, HeldByRows', NEW r \in RegId, MarkNoShow(r)
  PROVE  \E u \in User : Sale!WriteOff(u)
<1>1. /\ DbType /\ regs[r].status = "CONFIRMED"
      /\ regs' = [regs EXCEPT ![r].status = "NO_SHOW"]
  BY DEF MarkNoShow, SaleInv, TypeOK
<1>u. PICK u \in User : u = regs[r].user
  BY <1>1, RegExists
<1>2. /\ \A v : ActiveOf(v)' = ActiveOf(v)
      /\ r \in ActiveOf(u)
  BY <1>1, <1>u, ActiveToActive DEF ActiveStatus, ActiveOf
<1>3. /\ \A x \in RegId : regs'[x].ticket = regs[x].ticket
      /\ \A x \in RegId \ {r} : regs'[x] = regs[x]
      /\ regs'[r].status = "NO_SHOW"
  BY <1>1, RegExists DEF DbType
<1>4. ASSUME NEW v \in User PROVE Held(v)' = Held(v)
  BY <1>2, <1>3, SameHeld DEF ActiveOf
<1>5. Held(u) # None /\ u \notin NoShowUsers
  <2>1. Held(u) \in Ticket /\ u \notin NoShowUsers
    BY <1>1, <1>2 DEF HeldByRows
  <2> QED
    BY <2>1, GrabAssumption
<1>6. NoShowUsers' = NoShowUsers \cup {u}
  <2>1. NoShowUsers \subseteq User /\ NoShowUsers' \subseteq User
    BY DEF NoShowUsers
  <2>2. u \in NoShowUsers'
    BY <1>2, <1>3 DEF HeldByRows
  <2>3. ASSUME NEW v \in User \ {u} PROVE v \in NoShowUsers' <=> v \in NoShowUsers
    <3>1. r \notin ActiveOf(v)
      BY <1>u DEF ActiveOf
    <3>2. \A x \in ActiveOf(v) : regs'[x] = regs[x]
      BY <1>3, <3>1 DEF ActiveOf
    <3> QED
      BY <1>2, <3>2, SameWriteOff
  <2> QED
    BY <2>1, <2>2, <2>3
<1>7. [x \in User |-> Held(x)]' = [x \in User |-> Held(x)]
  BY <1>4
<1> QED
  BY <1>1, <1>5, <1>6, <1>7 DEF Sale!WriteOff

\* ActivityGrab implements TicketSale: through cache, queue, retries and faults,
\* the users' tickets change only by a sale within the stock to a user who holds
\* none, by a return, or by a write-off.
THEOREM Implements == Spec => ImplementsSale
<1>1. Init => Sale!Init
  <2> SUFFICES ASSUME Init PROVE Sale!Init
    OBVIOUS
  <2>1. \A u : ActiveOf(u) = {}
    BY DEF Init, ActiveOf, NoReg, ActiveStatus
  <2>2. /\ [u \in User |-> Held(u)] = [u \in User |-> None]
        /\ NoShowUsers = {}
    BY <2>1 DEF Held, NoShowUsers
  <2> QED
    BY <2>2 DEF Init, Sale!Init
<1>2. SaleInv /\ HeldByRows /\ HeldByRows' /\ [Next]_vars
        => [Sale!Next]_<<[u \in User |-> Held(u)], NoShowUsers>>
  <2> SUFFICES ASSUME SaleInv, HeldByRows, HeldByRows', [Next]_vars
               PROVE  Sale!Next \/ UNCHANGED <<[u \in User |-> Held(u)], NoShowUsers>>
    OBVIOUS
  <2>1. CASE UNCHANGED db
    BY <2>1 DEF db, Held, NoShowUsers, ActiveOf
  <2>2. CASE SaleSwitches
    BY <2>2 DEF SaleSwitches, Held, NoShowUsers, ActiveOf
  <2>3. ASSUME NEW w \in Slot, BookTx(w)
        PROVE  Sale!Next \/ UNCHANGED <<[u \in User |-> Held(u)], NoShowUsers>>
    <3>1. CASE Booked(w)
      BY <3>1, BookedIsSell DEF Sale!Next
    <3> QED
      BY <2>1, <2>3, <3>1, BookTxOutcome
  <2>4. ASSUME NEW r \in RegId, CancelOrder(r) PROVE Sale!Next
    BY <2>4, CancelledIsReturn DEF Sale!Next
  <2>5. ASSUME NEW r \in RegId, MarkNoShow(r) PROVE Sale!Next
    BY <2>5, MarkedIsWriteOff DEF Sale!Next
  <2> QED
    BY <2>1, <2>2, <2>3, <2>4, <2>5, ConfirmedIsStutter, DbSteps
<1>3. Spec => []SaleInv
  BY TypeCorrect, SaleSafe, PTL DEF SaleInv
<1> QED
  BY <1>1, <1>2, <1>3, HeldIs, PTL DEF Spec, ImplementsSale, Sale!Spec

\* A user never has two active registrations for one activity, whichever copies of a
\* job and fallback transactions book at once (the check under the row lock,
\* activity-registration-transaction.service.ts).
THEOREM OneActive == Spec => []OneActivePerUser
BY SaleSafe, PTL

-----------------------------------------------------------------------------
(* The places of a ticket: cached, booked and under way                     *)

\* The handlers that took a place of t and have neither left a job nor given it back.
Handing(t) == {q \in Req : req[q].ticket = t /\ req[q].pc \in {"enqueue", "compensate"}}

\* The users whose job for t may still book, or give a place back.
Undecided == RunPc \ {"idle", "schedule", "complete"}
Working(t) ==
    {u \in User : \/ job[<<u, t>>] = "waiting"
                  \/ \E w \in Slot : /\ run[w].user = u /\ run[w].ticket = t
                                     /\ run[w].pc \in Undecided}

\* The users whose claim is open while neither a handler nor a job is at work on it.
Abandoned(t) ==
    {u \in User : /\ pending[u] = t /\ ~Covered(u, t) /\ u \notin Working(t)
                  /\ \A q \in Handing(t) : req[q].user # u}

Releasing(t) == {r \in release : regs[r].ticket = t}

\* The places of t that are neither cached nor booked.
Underway(t) == Cardinality(Handing(t)) + Cardinality(Working(t))
                 + Cardinality(Abandoned(t)) + Cardinality(Releasing(t))

\* Before the cache is first filled no place is taken; afterwards the cached, the booked
\* and the other places never exceed the stock.
PlacesKept ==
    \A t \in Ticket :
      IF remaining[t] = Missing THEN Underway(t) = 0 /\ reserved[t] = 0
      ELSE remaining[t] + Underway(t) + reserved[t] <= Stock[t]

\* A job at work is worked on by one slot, which has not lost it.
OneRunPerJob ==
    \A w \in Slot : run[w].pc # "idle" =>
        /\ job[JobOf(w)] = "active" /\ ~run[w].lost
        /\ \A v \in Slot : run[v].pc # "idle" /\ JobOf(v) = JobOf(w) => v = w

\* A handler at work serves a user and a ticket.
HandlersServe ==
    \A q \in Req : req[q].pc # "idle" => req[q].user \in User /\ req[q].ticket \in Ticket

\* What a handler fills a missing stock with is within the stock.
WithinStock ==
    \A q \in Req : req[q].pc # "idle" =>
        /\ req[q].snap <= Stock[req[q].ticket]
        /\ req[q].value <= Stock[req[q].ticket]

ReleasedAreCancelled == \A r \in release : regs[r].status = "CANCELLED"

CacheInv ==
    /\ TypeOK /\ HandlersServe
    /\ PlacesKept /\ OneRunPerJob /\ WithinStock /\ ReleasedAreCancelled
    /\ rec.pc = "idle"

\* What CacheLetsNoMoreThrough takes for granted.
CacheKept == faults \cap {"stall", "key", "redis"} = {} /\ ~RecoveryOn

-----------------------------------------------------------------------------
\* The four kinds of places under way are counted by natural numbers.
LEMMA UnderwayFinite ==
  ASSUME TypeOK, NEW t
  PROVE  /\ IsFiniteSet(Handing(t)) /\ IsFiniteSet(Working(t))
         /\ IsFiniteSet(Abandoned(t)) /\ IsFiniteSet(Releasing(t))
         /\ Cardinality(Handing(t)) \in Nat /\ Cardinality(Working(t)) \in Nat
         /\ Cardinality(Abandoned(t)) \in Nat /\ Cardinality(Releasing(t)) \in Nat
         /\ Underway(t) \in Nat
<1>1. /\ Handing(t) \in SUBSET Req /\ Working(t) \in SUBSET User
      /\ Abandoned(t) \in SUBSET User /\ Releasing(t) \in SUBSET RegId
  BY DEF Handing, Working, Abandoned, Releasing, TypeOK
<1>2. /\ IsFiniteSet(Handing(t)) /\ IsFiniteSet(Working(t))
      /\ IsFiniteSet(Abandoned(t)) /\ IsFiniteSet(Releasing(t))
  BY <1>1, GrabAssumption, RegIdFinite, FS_Subset
<1>3. /\ Cardinality(Handing(t)) \in Nat /\ Cardinality(Working(t)) \in Nat
      /\ Cardinality(Abandoned(t)) \in Nat /\ Cardinality(Releasing(t)) \in Nat
  BY <1>2, FS_CardinalityType
<1> QED
  BY <1>2, <1>3 DEF Underway

\* And so they are after a step.
LEMMA UnderwayFiniteNext ==
  ASSUME TypeOK', NEW t
  PROVE  /\ IsFiniteSet(Handing(t)') /\ IsFiniteSet(Working(t)')
         /\ IsFiniteSet(Abandoned(t)') /\ IsFiniteSet(Releasing(t)')
         /\ Cardinality(Handing(t)') \in Nat /\ Cardinality(Working(t)') \in Nat
         /\ Cardinality(Abandoned(t)') \in Nat /\ Cardinality(Releasing(t)') \in Nat
         /\ Underway(t)' \in Nat
<1>1. /\ Handing(t)' \in SUBSET Req /\ Working(t)' \in SUBSET User
      /\ Abandoned(t)' \in SUBSET User /\ Releasing(t)' \in SUBSET RegId
  BY DEF Handing, Working, Abandoned, Releasing, TypeOK
<1>2. /\ IsFiniteSet(Handing(t)') /\ IsFiniteSet(Working(t)')
      /\ IsFiniteSet(Abandoned(t)') /\ IsFiniteSet(Releasing(t)')
  BY <1>1, GrabAssumption, RegIdFinite, FS_Subset
<1>3. /\ Cardinality(Handing(t)') \in Nat /\ Cardinality(Working(t)') \in Nat
      /\ Cardinality(Abandoned(t)') \in Nat /\ Cardinality(Releasing(t)') \in Nat
  BY <1>2, FS_CardinalityType
<1> QED
  BY <1>2, <1>3 DEF Underway

\* A set that loses or gains at most one element.
LEMMA OneMore ==
  ASSUME NEW S, IsFiniteSet(S), NEW x, NEW T \in SUBSET (S \cup {x})
  PROVE  IsFiniteSet(T) /\ Cardinality(T) \in Nat /\ Cardinality(S) \in Nat
         /\ Cardinality(T) <= Cardinality(S) + 1
<1>1. IsFiniteSet(S \cup {x}) /\ Cardinality(S \cup {x}) <= Cardinality(S) + 1
      /\ Cardinality(S) \in Nat
  BY FS_AddElement, FS_CardinalityType
<1>2. IsFiniteSet(T) /\ Cardinality(T) <= Cardinality(S \cup {x})
  BY <1>1, FS_Subset
<1> QED
  BY <1>1, <1>2, FS_CardinalityType

\* A set without one of the members of a finite set is smaller than that.
LEMMA OneLess ==
  ASSUME NEW S, IsFiniteSet(S), NEW x \in S, NEW T \in SUBSET (S \ {x})
  PROVE  IsFiniteSet(T) /\ Cardinality(T) \in Nat /\ Cardinality(S) \in Nat
         /\ Cardinality(T) <= Cardinality(S) - 1
<1>1. IsFiniteSet(S \ {x}) /\ Cardinality(S \ {x}) = Cardinality(S) - 1
      /\ Cardinality(S) \in Nat
  BY FS_RemoveElement, FS_CardinalityType
<1>2. IsFiniteSet(T) /\ Cardinality(T) <= Cardinality(S \ {x})
  BY <1>1, FS_Subset
<1> QED
  BY <1>1, <1>2, FS_CardinalityType

\* What a step does to the places of x: nothing is created, or a place moves between
\* the cache, the database and what is under way, or a missing stock is filled.
Balanced(x) ==
    \/ remaining'[x] = remaining[x] /\ Underway(x)' + reserved'[x] <= Underway(x) + reserved[x]
    \/ /\ remaining[x] # Missing /\ remaining'[x] # Missing
       /\ remaining'[x] + Underway(x)' + reserved'[x]
            <= remaining[x] + Underway(x) + reserved[x]
    \/ /\ remaining[x] = Missing /\ remaining'[x] <= Stock[x]
       /\ Underway(x)' = Underway(x) /\ reserved'[x] = reserved[x]

\* Balanced steps keep the places.
LEMMA BalancedKeeps ==
  ASSUME TypeOK, TypeOK', PlacesKept, \A x \in Ticket : Balanced(x)
  PROVE  PlacesKept'
<1> SUFFICES ASSUME NEW t \in Ticket
             PROVE  IF remaining'[t] = Missing THEN Underway(t)' = 0 /\ reserved'[t] = 0
                    ELSE remaining'[t] + Underway(t)' + reserved'[t] <= Stock[t]
  BY DEF PlacesKept
<1>1. Underway(t) \in Nat /\ Underway(t)' \in Nat
  BY UnderwayFinite, UnderwayFiniteNext
<1>2. /\ remaining[t] \in Nat \cup {Missing} /\ remaining'[t] \in Nat \cup {Missing}
      /\ reserved[t] \in Nat /\ reserved'[t] \in Nat /\ Stock[t] \in Nat
  BY GrabAssumption DEF TypeOK, RedisType, DbType
<1>3. IF remaining[t] = Missing THEN Underway(t) = 0 /\ reserved[t] = 0
      ELSE remaining[t] + Underway(t) + reserved[t] <= Stock[t]
  BY DEF PlacesKept
<1>4. Balanced(t)
  OBVIOUS
<1>5. CASE remaining[t] = Missing
  BY <1>1, <1>2, <1>3, <1>4, <1>5 DEF Balanced, Missing
<1>6. CASE remaining[t] # Missing
  BY <1>1, <1>2, <1>3, <1>4, <1>6 DEF Balanced, Missing
<1> QED
  BY <1>5, <1>6

\* A step of the handler q that neither takes a place nor leaves one: nothing under
\* way changes.
LEMMA HandlerElsewhere ==
  ASSUME TypeOK, NEW q \in Req, NEW e,
         req' = [req EXCEPT ![q] = e],
         req[q].pc \in {"enqueue", "compensate"} =>
            e.pc \in {"enqueue", "compensate"} /\ e.user = req[q].user
                                               /\ e.ticket = req[q].ticket,
         req[q].pc \notin {"enqueue", "compensate"} =>
            e.pc \notin {"enqueue", "compensate"},
         UNCHANGED <<pending, job, run, release, regs>>
  PROVE  \A x : Underway(x)' = Underway(x)
<1> SUFFICES ASSUME NEW x PROVE Underway(x)' = Underway(x)
  OBVIOUS
<1>1. \A p \in Req : req'[p] = IF p = q THEN e ELSE req[p]
  BY DEF TypeOK, ReqType
<1>2. Handing(x)' = Handing(x)
  BY <1>1 DEF Handing
<1>3. \A p \in Handing(x) : req'[p].user = req[p].user
  BY <1>1 DEF Handing
<1>4. Working(x)' = Working(x) /\ \A u : Covered(u, x)' = Covered(u, x)
  BY DEF Working, Covered
<1>5. Abandoned(x)' = Abandoned(x)
  BY <1>2, <1>3, <1>4 DEF Abandoned
<1>6. Releasing(x)' = Releasing(x)
  BY DEF Releasing
<1> QED
  BY <1>2, <1>4, <1>5, <1>6 DEF Underway

\* A handler that takes a place of its ticket t has it under way.
LEMMA PlaceTaken ==
  ASSUME TypeOK, TypeOK', NEW q \in Req, NEW u \in User, NEW t \in Ticket,
         req[q].pc = "reserve", req[q].user = u, req[q].ticket = t,
         GoReq(q, "enqueue"),
         pending' = [pending EXCEPT ![u] = t],
         UNCHANGED <<job, run, release, regs>>
  PROVE  /\ Underway(t)' <= Underway(t) + 1
         /\ \A x \in Ticket \ {t} : Underway(x)' <= Underway(x)
<1>1. \A p \in Req : req'[p] = IF p = q THEN [req[q] EXCEPT !.pc = "enqueue"] ELSE req[p]
  BY DEF TypeOK, ReqType, GoReq
<1>2. /\ req'[q].pc = "enqueue" /\ req'[q].user = u /\ req'[q].ticket = t
  BY <1>1 DEF TypeOK, ReqType, ReqRecord
<1>3. /\ Handing(t)' = Handing(t) \cup {q}
      /\ \A x \in Ticket \ {t} : Handing(x)' = Handing(x)
  BY <1>1, <1>2 DEF Handing
<1>4. \A x : /\ Working(x)' = Working(x) /\ Releasing(x)' = Releasing(x)
             /\ \A v : Covered(v, x)' = Covered(v, x)
  BY DEF Working, Covered, Releasing
<1>5. \A v \in User : pending'[v] = IF v = u THEN t ELSE pending[v]
  BY DEF TypeOK, RedisType
<1>6. \A x \in Ticket : \A p \in Handing(x) : p \in Handing(x)' /\ req'[p].user = req[p].user
  BY <1>1, <1>3 DEF Handing
<1>7. ASSUME NEW x \in Ticket PROVE Abandoned(x)' \subseteq Abandoned(x)
  <2> SUFFICES ASSUME NEW v \in Abandoned(x)' PROVE v \in Abandoned(x)
    OBVIOUS
  <2>1. /\ v \in User /\ pending'[v] = x /\ ~Covered(v, x)' /\ v \notin Working(x)'
        /\ \A p \in Handing(x)' : req'[p].user # v
    BY DEF Abandoned
  <2>2. v # u
    BY <1>2, <1>3, <1>5, <2>1
  <2> QED
    BY <1>4, <1>5, <1>6, <2>1, <2>2 DEF Abandoned
<1>8. ASSUME NEW x \in Ticket
      PROVE  Cardinality(Abandoned(x)') <= Cardinality(Abandoned(x))
             /\ Cardinality(Abandoned(x)') \in Nat
  BY <1>7, UnderwayFinite, UnderwayFiniteNext, FS_Subset
<1>9. Cardinality(Handing(t)') <= Cardinality(Handing(t)) + 1
      /\ Cardinality(Handing(t)') \in Nat
  BY <1>3, UnderwayFinite, OneMore
<1>10. Underway(t)' <= Underway(t) + 1
  BY <1>4, <1>8, <1>9, UnderwayFinite DEF Underway
<1>11. ASSUME NEW x \in Ticket \ {t} PROVE Underway(x)' <= Underway(x)
  BY <1>3, <1>4, <1>8, UnderwayFinite DEF Underway
<1> QED
  BY <1>10, <1>11

\* The handlers that have a place when q gives up its own.
GaveUp(q, u, t) ==
    /\ q \in Handing(t) /\ Handing(t)' = Handing(t) \ {q}
    /\ \A x : x # t => Handing(x)' = Handing(x)
    /\ \A x, v : (v # u \/ x # t) /\ (\A p \in Handing(x)' : req'[p].user # v)
                 => \A p \in Handing(x) : req[p].user # v

\* A handler that leaves has given up its claim.
LEMMA HandlerGone ==
  ASSUME TypeOK, NEW q \in Req, NEW u, NEW t,
         req[q].pc \in {"enqueue", "compensate"}, req[q].user = u, req[q].ticket = t,
         LeaveReq(q)
  PROVE  GaveUp(q, u, t)
<1>1. \A p \in Req : req'[p] = IF p = q THEN IdleReq ELSE req[p]
  BY DEF TypeOK, ReqType, LeaveReq
<1>2. IdleReq.pc = "idle"
  BY DEF IdleReq
<1>3. /\ q \in Handing(t) /\ Handing(t)' = Handing(t) \ {q}
      /\ \A x : x # t => Handing(x)' = Handing(x)
  BY <1>1, <1>2 DEF Handing
<1>4. ASSUME NEW x, NEW v, v # u \/ x # t, \A p \in Handing(x)' : req'[p].user # v,
             NEW p \in Handing(x)
      PROVE  req[p].user # v
  <2>1. CASE p = q
    BY <1>4, <2>1 DEF Handing
  <2>2. CASE p # q
    <3>1. p \in Handing(x)' /\ req'[p] = req[p]
      BY <1>1, <2>2 DEF Handing
    <3> QED
      BY <1>4, <3>1
  <2> QED
    BY <2>1, <2>2
<1> QED
  BY <1>3, <1>4 DEF GaveUp

\* A handler that leaves a job, or nothing, behind: its place is the job's or, while
\* the claim stays, an abandoned one.
LEMMA PlaceLeft ==
  ASSUME TypeOK, TypeOK', NEW q \in Req, NEW u \in User, NEW t \in Ticket,
         req[q].pc \in {"enqueue", "compensate"}, req[q].user = u, req[q].ticket = t,
         LeaveReq(q),
         \/ UNCHANGED job
         \/ job[<<u, t>>] = "absent" /\ job' = [job EXCEPT ![<<u, t>>] = "waiting"],
         UNCHANGED <<pending, run, release, regs>>
  PROVE  \A x \in Ticket : Underway(x)' <= Underway(x)
<1>0. GaveUp(q, u, t)
  BY HandlerGone
<1>1. /\ q \in Handing(t) /\ Handing(t)' = Handing(t) \ {q}
      /\ \A x : x # t => Handing(x)' = Handing(x)
      /\ \A x, v : (v # u \/ x # t) /\ (\A p \in Handing(x)' : req'[p].user # v)
                   => \A p \in Handing(x) : req[p].user # v
  BY <1>0 DEF GaveUp
<1>2. \A x : Releasing(x)' = Releasing(x) /\ \A v : Covered(v, x)' = Covered(v, x)
  BY DEF Covered, Releasing
<1>3. Cardinality(Handing(t)') <= Cardinality(Handing(t)) - 1
  BY <1>1, UnderwayFinite, OneLess
<1>5. CASE UNCHANGED job
  <2>1. \A x : Working(x)' = Working(x)
    BY <1>5 DEF Working
  <2>2. Abandoned(t)' \subseteq Abandoned(t) \cup {u}
    <3> SUFFICES ASSUME NEW v \in Abandoned(t)', v # u PROVE v \in Abandoned(t)
      OBVIOUS
    <3>1. \A p \in Handing(t) : req[p].user # v
      BY <1>1 DEF Abandoned
    <3> QED
      BY <1>2, <2>1, <3>1 DEF Abandoned
  <2>3. \A x \in Ticket \ {t} : Abandoned(x)' \subseteq Abandoned(x)
    BY <1>1, <1>2, <2>1 DEF Abandoned
  <2>4. Cardinality(Abandoned(t)') <= Cardinality(Abandoned(t)) + 1
    BY <2>2, UnderwayFinite, OneMore
  <2>5. Underway(t)' <= Underway(t)
    BY <1>2, <1>3, <2>1, <2>4, UnderwayFinite, UnderwayFiniteNext DEF Underway
  <2>6. ASSUME NEW x \in Ticket \ {t} PROVE Underway(x)' <= Underway(x)
    <3>1. Cardinality(Abandoned(x)') <= Cardinality(Abandoned(x))
      BY <2>3, UnderwayFinite, FS_Subset
    <3> QED
      BY <1>1, <1>2, <2>1, <3>1, UnderwayFinite, UnderwayFiniteNext DEF Underway
  <2> QED
    BY <2>5, <2>6
<1>6. CASE job[<<u, t>>] = "absent" /\ job' = [job EXCEPT ![<<u, t>>] = "waiting"]
  <2>1. \A v \in User, x \in Ticket :
          job'[<<v, x>>] = IF v = u /\ x = t THEN "waiting" ELSE job[<<v, x>>]
    BY <1>6 DEF TypeOK, QueueType
  <2>2. Working(t)' = Working(t) \cup {u} /\ u \in Working(t)'
    BY <2>1 DEF Working
  <2>3. \A x \in Ticket \ {t} : Working(x)' = Working(x)
    BY <2>1 DEF Working
  <2>4. Abandoned(t)' \subseteq Abandoned(t)
    <3> SUFFICES ASSUME NEW v \in Abandoned(t)' PROVE v \in Abandoned(t)
      OBVIOUS
    <3>1. v # u
      BY <2>2 DEF Abandoned
    <3>2. \A p \in Handing(t) : req[p].user # v
      BY <1>1, <3>1 DEF Abandoned
    <3> QED
      BY <1>2, <2>2, <3>2 DEF Abandoned
  <2>5. \A x \in Ticket \ {t} : Abandoned(x)' \subseteq Abandoned(x)
    BY <1>1, <1>2, <2>3 DEF Abandoned
  <2>6. Cardinality(Working(t)') <= Cardinality(Working(t)) + 1
    BY <2>2, UnderwayFinite, OneMore
  <2>7. Cardinality(Abandoned(t)') <= Cardinality(Abandoned(t))
    BY <2>4, UnderwayFinite, FS_Subset
  <2>8. Underway(t)' <= Underway(t)
    BY <1>2, <1>3, <2>6, <2>7, UnderwayFinite, UnderwayFiniteNext DEF Underway
  <2>9. ASSUME NEW x \in Ticket \ {t} PROVE Underway(x)' <= Underway(x)
    <3>1. Cardinality(Abandoned(x)') <= Cardinality(Abandoned(x))
      BY <2>5, UnderwayFinite, FS_Subset
    <3> QED
      BY <1>1, <1>2, <2>3, <3>1, UnderwayFinite, UnderwayFiniteNext DEF Underway
  <2> QED
    BY <2>8, <2>9
<1> QED
  BY <1>5, <1>6

\* A handler that gives its claim back has no place under way any more.
LEMMA PlaceGivenBack ==
  ASSUME TypeOK, TypeOK', NEW q \in Req, NEW u \in User, NEW t \in Ticket,
         req[q].pc \in {"enqueue", "compensate"}, req[q].user = u, req[q].ticket = t,
         LeaveReq(q),
         pending' = [pending EXCEPT ![u] = None],
         UNCHANGED <<job, run, release, regs>>
  PROVE  /\ Underway(t)' <= Underway(t) - 1
         /\ \A x \in Ticket \ {t} : Underway(x)' <= Underway(x)
<1>0. GaveUp(q, u, t)
  BY HandlerGone
<1>1. /\ q \in Handing(t) /\ Handing(t)' = Handing(t) \ {q}
      /\ \A x : x # t => Handing(x)' = Handing(x)
      /\ \A x, v : (v # u \/ x # t) /\ (\A p \in Handing(x)' : req'[p].user # v)
                   => \A p \in Handing(x) : req[p].user # v
  BY <1>0 DEF GaveUp
<1>2. \A x : /\ Working(x)' = Working(x) /\ Releasing(x)' = Releasing(x)
             /\ \A v : Covered(v, x)' = Covered(v, x)
  BY DEF Working, Covered, Releasing
<1>3. Cardinality(Handing(t)') <= Cardinality(Handing(t)) - 1
  BY <1>1, UnderwayFinite, OneLess
<1>4. /\ \A v \in User : pending'[v] = IF v = u THEN None ELSE pending[v]
      /\ None \notin Ticket
  BY GrabAssumption DEF TypeOK, RedisType
<1>5. ASSUME NEW x \in Ticket
      PROVE  Cardinality(Abandoned(x)') <= Cardinality(Abandoned(x))
  <2>1. Abandoned(x)' \subseteq Abandoned(x)
    <3> SUFFICES ASSUME NEW v \in Abandoned(x)' PROVE v \in Abandoned(x)
      OBVIOUS
    <3>1. /\ v \in User /\ pending'[v] = x /\ ~Covered(v, x)' /\ v \notin Working(x)'
          /\ \A p \in Handing(x)' : req'[p].user # v
      BY DEF Abandoned
    <3>2. v # u /\ pending[v] = x
      BY <1>4, <3>1
    <3>3. \A p \in Handing(x) : req[p].user # v
      BY <1>1, <3>1, <3>2
    <3> QED
      BY <1>2, <3>1, <3>2, <3>3 DEF Abandoned
  <2> QED
    BY <2>1, UnderwayFinite, FS_Subset
<1>6. Underway(t)' <= Underway(t) - 1
  BY <1>2, <1>3, <1>5, UnderwayFinite, UnderwayFiniteNext DEF Underway
<1>7. ASSUME NEW x \in Ticket \ {t} PROVE Underway(x)' <= Underway(x)
  BY <1>1, <1>2, <1>5, UnderwayFinite, UnderwayFiniteNext DEF Underway
<1> QED
  BY <1>6, <1>7

\* Every step of a handler is balanced.
LEMMA RequestBalanced ==
  ASSUME TypeOK, TypeOK', HandlersServe, WithinStock, PlacesKept, NEW q \in Req, RequestStep(q)
  PROVE  \A x \in Ticket : Balanced(x)
<1> DEFINE u == req[q].user
           t == req[q].ticket
<1>a. req[q].pc # "idle" => u \in User /\ t \in Ticket /\ req[q].value <= Stock[t]
  BY DEF HandlersServe, WithinStock
<1>b. req[q] \in ReqRecord /\ remaining \in [Ticket -> Nat \cup {Missing}]
      /\ reserved \in [Ticket -> Nat]
  BY DEF TypeOK, ReqType, RedisType, DbType
<1>c. /\ reserved' = reserved
      /\ UNCHANGED <<run, release, regs>>
  BY DEF RequestStep, GrabReadTicket, GrabAssertNotRegistered, EnsureExists, EnsureScan,
         EnsureMGet, EnsureSetNX, Reserve, Enqueue, EnqueueFails, CompensateRequest,
         RequestDies, db
<1>d. ASSUME remaining' = remaining, \A x \in Ticket : Underway(x)' <= Underway(x)
      PROVE  \A x \in Ticket : Balanced(x)
  BY <1>b, <1>c, <1>d, UnderwayFinite, UnderwayFiniteNext DEF Balanced
<1>e. ASSUME remaining' = remaining, \A x : Underway(x)' = Underway(x)
      PROVE  \A x \in Ticket : Balanced(x)
  BY <1>d, <1>e, UnderwayFinite
<1>1. ASSUME NEW v \in User, NEW s \in Ticket, GrabReadTicket(q, v, s)
      PROVE  \A x \in Ticket : Balanced(x)
  <2> DEFINE e == [IdleReq EXCEPT !.pc = "check", !.user = v, !.ticket = s,
                                  !.snap = NonNegative(Stock[s] - reserved[s])]
  <2>1. req' = [req EXCEPT ![q] = e] /\ UNCHANGED <<pending, job, remaining>>
        /\ req[q].pc = "idle"
    BY <1>1 DEF GrabReadTicket, redis, queue
  <2>2. e.pc = "check"
    BY DEF IdleReq
  <2> HIDE DEF e
  <2>3. \A x : Underway(x)' = Underway(x)
    BY <1>c, <2>1, <2>2, HandlerElsewhere
  <2> QED
    BY <1>e, <2>1, <2>3
<1>2. ASSUME NEW e, req' = [req EXCEPT ![q] = e], UNCHANGED <<remaining, pending, job>>,
             req[q].pc \in {"enqueue", "compensate"} =>
                e.pc \in {"enqueue", "compensate"} /\ e.user = u /\ e.ticket = t,
             req[q].pc \notin {"enqueue", "compensate"} =>
                e.pc \notin {"enqueue", "compensate"}
      PROVE  \A x \in Ticket : Balanced(x)
  BY <1>c, <1>e, <1>2, HandlerElsewhere
<1>3. CASE GrabAssertNotRegistered(q) \/ EnsureExists(q)
  <2>1. PICK pc \in {"exists", "scan", "reserve", "idle"} :
            req' = [req EXCEPT ![q] = IF pc = "idle" THEN IdleReq
                                      ELSE [req[q] EXCEPT !.pc = pc]]
    BY <1>3 DEF GrabAssertNotRegistered, EnsureExists, GoReq, LeaveReq
  <2>2. (IF pc = "idle" THEN IdleReq ELSE [req[q] EXCEPT !.pc = pc]).pc = pc
    BY <1>b DEF ReqRecord, IdleReq
  <2>3. UNCHANGED <<remaining, pending, job>> /\ req[q].pc \in {"check", "exists"}
    BY <1>3 DEF GrabAssertNotRegistered, EnsureExists, redis, queue
  <2> QED
    BY <1>2, <2>1, <2>2, <2>3
<1>4. CASE EnsureScan(q)
  <2>1. [req[q] EXCEPT !.pc = "mget", !.keys = {v \in User : pending[v] # None}].pc = "mget"
    BY <1>b DEF ReqRecord
  <2> QED
    BY <1>2, <1>4, <2>1 DEF EnsureScan, redis, queue
<1>5. CASE EnsureMGet(q)
  <2> DEFINE e == [req[q] EXCEPT !.pc = "setnx", !.keys = {},
                     !.value = NonNegative(req[q].snap - CountClaims(req[q].keys, t))]
  <2>1. e.pc = "setnx"
    BY <1>b DEF ReqRecord
  <2>2. req' = [req EXCEPT ![q] = e] /\ req[q].pc = "mget"
        /\ UNCHANGED <<remaining, pending, job>>
    BY <1>5 DEF EnsureMGet, redis, queue
  <2> HIDE DEF e
  <2> QED
    BY <1>2, <2>1, <2>2
<1>6. CASE EnsureSetNX(q)
  <2> DEFINE e == [req[q] EXCEPT !.pc = "reserve", !.value = 0]
  <2>1. e.pc = "reserve"
    BY <1>b DEF ReqRecord
  <2>2. req' = [req EXCEPT ![q] = e] /\ req[q].pc = "setnx" /\ UNCHANGED <<pending, job>>
    BY <1>6 DEF EnsureSetNX, queue
  <2> HIDE DEF e
  <2>3. \A x : Underway(x)' = Underway(x)
    BY <1>c, <2>1, <2>2, HandlerElsewhere
  <2>4. t \in Ticket /\ req[q].value <= Stock[t]
    BY <1>a, <2>2
  <2>5. remaining' = IF remaining[t] = Missing THEN [remaining EXCEPT ![t] = req[q].value]
                                               ELSE remaining
    BY <1>6 DEF EnsureSetNX
  <2>6. CASE remaining[t] = Missing
    <3>1. ASSUME NEW x \in Ticket PROVE Balanced(x)
      <4>1. CASE x = t
        BY <1>b, <1>c, <2>3, <2>4, <2>5, <2>6, <4>1 DEF Balanced
      <4>2. CASE x # t
        BY <1>b, <1>c, <2>3, <2>4, <2>5, <2>6, <4>2, UnderwayFinite DEF Balanced
      <4> QED
        BY <4>1, <4>2
    <3> QED
      BY <3>1
  <2>7. CASE remaining[t] # Missing
    BY <1>e, <2>3, <2>5, <2>7
  <2> QED
    BY <2>6, <2>7
<1>7. CASE Reserve(q)
  <2>0. u \in User /\ t \in Ticket /\ req[q].pc = "reserve" /\ job' = job
    BY <1>7, <1>a DEF Reserve, queue
  <2>1. CASE LeaveReq(q) /\ UNCHANGED redis
    <3>1. IdleReq.pc = "idle"
      BY DEF IdleReq
    <3> QED
      BY <1>2, <2>0, <2>1, <3>1 DEF LeaveReq, redis
  <2>2. CASE req' = [req EXCEPT ![q] = [@ EXCEPT !.pc = "exists", !.retried = TRUE]]
             /\ UNCHANGED redis
    <3>1. [req[q] EXCEPT !.pc = "exists", !.retried = TRUE].pc = "exists"
      BY <1>b DEF ReqRecord
    <3> QED
      BY <1>2, <2>0, <2>2, <3>1 DEF redis
  <2>3. CASE /\ remaining[t] > 0
             /\ remaining' = [remaining EXCEPT ![t] = @ - 1]
             /\ pending' = [pending EXCEPT ![u] = t]
             /\ GoReq(q, "enqueue")
    <3>p. PICK v \in User, s \in Ticket : v = u /\ s = t
      BY <2>0
    <3>q. pending' = [pending EXCEPT ![v] = s] /\ req[q].user = v /\ req[q].ticket = s
      BY <2>3, <3>p
    <3>1. /\ Underway(s)' <= Underway(s) + 1
          /\ \A x \in Ticket \ {s} : Underway(x)' <= Underway(x)
      BY <1>c, <2>0, <2>3, <3>q, PlaceTaken
    <3>2. ASSUME NEW x \in Ticket PROVE Balanced(x)
      <4>1. CASE x = s
        BY <3>p, <1>b, <1>c, <2>0, <2>3, <3>1, <4>1, UnderwayFinite, UnderwayFiniteNext
        DEF Balanced, Missing
      <4>2. CASE x # s
        BY <3>p, <1>b, <1>c, <2>0, <2>3, <3>1, <4>2, UnderwayFinite, UnderwayFiniteNext
        DEF Balanced
      <4> QED
        BY <4>1, <4>2
    <3> QED
      BY <3>2
  <2> QED
    BY <1>7, <2>1, <2>2, <2>3 DEF Reserve, HasStock
<1>8. CASE Enqueue(q)
  <2>1. /\ req[q].pc = "enqueue" /\ LeaveReq(q) /\ UNCHANGED <<remaining, pending>>
        /\ \/ UNCHANGED job
           \/ job[<<u, t>>] = "absent" /\ job' = [job EXCEPT ![<<u, t>>] = "waiting"]
    BY <1>8 DEF Enqueue, redis
  <2> QED
    BY <1>a, <1>c, <1>d, <2>1, PlaceLeft
<1>9. CASE EnqueueFails(q)
  <2>1. /\ [req[q] EXCEPT !.pc = "compensate"].pc = "compensate"
        /\ [req[q] EXCEPT !.pc = "compensate"].user = u
        /\ [req[q] EXCEPT !.pc = "compensate"].ticket = t
    BY <1>b DEF ReqRecord
  <2> QED
    BY <1>2, <1>9, <2>1 DEF EnqueueFails, GoReq, redis, queue
<1>10. CASE CompensateRequest(q)
  <2>0. u \in User /\ t \in Ticket /\ req[q].pc = "compensate" /\ LeaveReq(q)
        /\ UNCHANGED job /\ CompensatePending(u, t)
    BY <1>10, <1>a DEF CompensateRequest, queue
  <2>1. CASE pending[u] # t
    BY <1>c, <1>d, <2>0, <2>1, PlaceLeft DEF CompensatePending, redis
  <2>2. CASE pending[u] = t
    <3>p. PICK v \in User, s \in Ticket : v = u /\ s = t
      BY <2>0
    <3>q. pending' = [pending EXCEPT ![v] = None] /\ req[q].user = v /\ req[q].ticket = s
      BY <2>0, <2>2, <3>p DEF CompensatePending
    <3>1. /\ Underway(s)' <= Underway(s) - 1
          /\ \A x \in Ticket \ {s} : Underway(x)' <= Underway(x)
      BY <1>c, <2>0, <3>q, PlaceGivenBack
    <3>2. remaining[t] # Missing
      BY <3>p, <2>0, <3>1, UnderwayFinite, UnderwayFiniteNext DEF PlacesKept
    <3>3. remaining' = [remaining EXCEPT ![t] = @ + 1]
      BY <2>0, <2>2, <3>2 DEF CompensatePending
    <3>4. ASSUME NEW x \in Ticket PROVE Balanced(x)
      <4>1. CASE x = s
        BY <3>p, <1>b, <1>c, <2>0, <3>1, <3>2, <3>3, <4>1, UnderwayFinite, UnderwayFiniteNext
        DEF Balanced, Missing
      <4>2. CASE x # s
        BY <3>p, <1>b, <1>c, <2>0, <3>1, <3>3, <4>2, UnderwayFinite, UnderwayFiniteNext
        DEF Balanced
      <4> QED
        BY <4>1, <4>2
    <3> QED
      BY <3>4
  <2> QED
    BY <2>1, <2>2
<1>11. CASE RequestDies(q)
  <2>0. req[q].pc # "idle" /\ LeaveReq(q) /\ UNCHANGED <<remaining, pending, job>>
    BY <1>11 DEF RequestDies, redis, queue
  <2>1. CASE req[q].pc \in {"enqueue", "compensate"}
    BY <1>a, <1>c, <1>d, <2>0, <2>1, PlaceLeft
  <2>2. CASE req[q].pc \notin {"enqueue", "compensate"}
    <3>1. IdleReq.pc = "idle"
      BY DEF IdleReq
    <3> QED
      BY <1>2, <2>0, <2>2, <3>1 DEF LeaveReq
  <2> QED
    BY <2>1, <2>2
<1> QED
  BY <1>1, <1>3, <1>4, <1>5, <1>6, <1>7, <1>8, <1>9, <1>10, <1>11 DEF RequestStep

\* Claims are only cleared, for jobs that may still book, or whose user's claim is covered.
LEMMA FewerClaims ==
  ASSUME TypeOK, TypeOK', UNCHANGED <<req, release>>,
         \A r \in release : regs'[r].ticket = regs[r].ticket,
         \A x \in Ticket : Working(x)' = Working(x),
         \A v \in User : pending'[v] \in {pending[v], None},
         \A v \in User, x \in Ticket :
            Covered(v, x) => Covered(v, x)' \/ v \in Working(x) \/ pending'[v] # x
  PROVE  \A x \in Ticket : Underway(x)' <= Underway(x)
<1> SUFFICES ASSUME NEW x \in Ticket PROVE Underway(x)' <= Underway(x)
  OBVIOUS
<1>1. Handing(x)' = Handing(x) /\ Releasing(x)' = Releasing(x)
  BY DEF Handing, Releasing
<1>2. Abandoned(x)' \subseteq Abandoned(x)
  BY <1>1, GrabAssumption DEF Abandoned
<1>3. Cardinality(Abandoned(x)') <= Cardinality(Abandoned(x))
  BY <1>2, UnderwayFinite, FS_Subset
<1> QED
  BY <1>1, <1>3, UnderwayFinite, UnderwayFiniteNext DEF Underway

\* A slot that stays undecided, or decided, keeps the jobs that may still book.
LEMMA SameWork ==
  ASSUME TypeOK, NEW w \in Slot, NEW pc, GoRun(w, pc), UNCHANGED job,
         run[w].pc \in Undecided <=> pc \in Undecided,
         run[w].pc # "idle", pc # "idle"
  PROVE  /\ \A x : Working(x)' = Working(x)
         /\ \A v \in Slot : run'[v] = IF v = w THEN [run[w] EXCEPT !.pc = pc] ELSE run[v]
         /\ run'[w].user = run[w].user /\ run'[w].ticket = run[w].ticket /\ run'[w].pc = pc
<1>1. \A v \in Slot : run'[v] = IF v = w THEN [run[w] EXCEPT !.pc = pc] ELSE run[v]
  BY DEF TypeOK, RunType, GoRun
<1>2. run'[w].user = run[w].user /\ run'[w].ticket = run[w].ticket /\ run'[w].pc = pc
  BY <1>1 DEF TypeOK, RunType, RunRecord, IdleRun
<1> QED
  BY <1>1, <1>2 DEF Working

\* Such a step lets no place out of sight.
LEMMA RunStays ==
  ASSUME TypeOK, TypeOK', NEW w \in Slot, NEW pc, GoRun(w, pc), UNCHANGED <<job, req, release>>,
         \A r \in release : regs'[r].ticket = regs[r].ticket,
         \A v \in User : pending'[v] \in {pending[v], None},
         \/ run[w].pc \in Undecided /\ pc \in Undecided
         \/ run[w].pc = "schedule" /\ pc = "complete"
  PROVE  \A x \in Ticket : Underway(x)' <= Underway(x)
<1>0. run[w].pc # "idle" /\ pc # "idle" /\ (run[w].pc \in Undecided <=> pc \in Undecided)
  BY DEF Undecided
<1>1. /\ \A x : Working(x)' = Working(x)
      /\ \A v \in Slot : run'[v] = IF v = w THEN [run[w] EXCEPT !.pc = pc] ELSE run[v]
      /\ run'[w].user = run[w].user /\ run'[w].ticket = run[w].ticket /\ run'[w].pc = pc
  BY <1>0, SameWork
<1>2. ASSUME NEW v \in User, NEW x \in Ticket, Covered(v, x)
      PROVE  Covered(v, x)' \/ v \in Working(x)
  <2>1. PICK s \in Slot : /\ run[s].user = v /\ run[s].ticket = x
                          /\ run[s].pc \in {"schedule", "complete", "existing"}
    BY <1>2 DEF Covered
  <2>2. CASE s # w
    BY <1>1, <2>1, <2>2 DEF Covered
  <2>3. CASE s = w /\ run[w].pc \in Undecided
    BY <2>1, <2>3 DEF Working
  <2>4. CASE s = w /\ pc = "complete"
    BY <1>1, <2>1, <2>4 DEF Covered
  <2> QED
    BY <2>2, <2>3, <2>4
<1> QED
  BY <1>1, <1>2, FewerClaims

\* A job that is taken may book as it might before.
LEMMA RunTaken ==
  ASSUME TypeOK, TypeOK', NEW w \in Slot, NEW u \in User, NEW t \in Ticket, TakeJob(w, u, t)
  PROVE  \A x \in Ticket : Underway(x)' <= Underway(x)
<1>1. /\ \A v \in Slot : run'[v] = IF v = w THEN [pc |-> "lookup", user |-> u, ticket |-> t,
                                                  lost |-> FALSE]
                                            ELSE run[v]
      /\ run[w].pc = "idle" /\ job[<<u, t>>] = "waiting"
      /\ UNCHANGED <<regs, pending, req, release>>
  BY DEF TypeOK, RunType, TakeJob, db, redis
<1>2. \A v \in User, x \in Ticket :
        job'[<<v, x>>] = IF v = u /\ x = t THEN "active" ELSE job[<<v, x>>]
  BY DEF TypeOK, QueueType, TakeJob
<1>3. "lookup" \in Undecided /\ "idle" \notin Undecided
  BY DEF Undecided, RunPc
<1>4. ASSUME NEW x \in Ticket PROVE Working(x)' = Working(x)
  <2>1. Working(x) \subseteq Working(x)'
    BY <1>1, <1>2, <1>3 DEF Working
  <2>2. Working(x)' \subseteq Working(x)
    BY <1>1, <1>2, <1>3 DEF Working
  <2> QED
    BY <2>1, <2>2
<1>5. \A v \in User, x \in Ticket : Covered(v, x) => Covered(v, x)'
  BY <1>1 DEF Covered
<1> QED
  BY <1>1, <1>4, <1>5, FewerClaims

\* A job whose run has booked has its place no more.
LEMMA RunBooks ==
  ASSUME TypeOK, TypeOK', OneRunPerJob, NEW w \in Slot, NEW u \in User, NEW t \in Ticket,
         run[w].pc = "book", run[w].user = u, run[w].ticket = t,
         NEW pc \in {"schedule", "complete"}, GoRun(w, pc),
         UNCHANGED <<job, pending, req, release>>,
         \A r \in release : regs'[r].ticket = regs[r].ticket
  PROVE  /\ Underway(t)' <= Underway(t) - 1
         /\ \A x \in Ticket \ {t} : Underway(x)' <= Underway(x)
<1>1. \A v \in Slot : run'[v] = IF v = w THEN [run[w] EXCEPT !.pc = pc] ELSE run[v]
  BY DEF TypeOK, RunType, GoRun
<1>2. run'[w].user = u /\ run'[w].ticket = t /\ run'[w].pc = pc
  BY <1>1 DEF TypeOK, RunType, RunRecord, IdleRun
<1>3. "book" \in Undecided /\ pc \notin Undecided /\ "idle" \notin Undecided
  BY DEF Undecided, RunPc
<1>4. \A x : Handing(x)' = Handing(x) /\ Releasing(x)' = Releasing(x)
  BY DEF Handing, Releasing
<1>5. job[<<u, t>>] = "active"
      /\ \A v \in Slot : run[v].pc \in Undecided /\ run[v].user = u /\ run[v].ticket = t => v = w
  BY <1>3 DEF OneRunPerJob, JobOf
<1>6. u \in Working(t) /\ Working(t)' \subseteq Working(t) \ {u}
  BY <1>1, <1>2, <1>3, <1>5 DEF Working
<1>7. \A x \in Ticket \ {t} : Working(x)' = Working(x)
  BY <1>1, <1>2, <1>3 DEF Working
<1>8. /\ Covered(u, t)'
      /\ \A v \in User, x \in Ticket : Covered(v, x) => Covered(v, x)'
      /\ \A v \in User \ {u} : v \in Working(t) => v \in Working(t)'
  BY <1>1, <1>2 DEF Covered, Working
<1>9. ASSUME NEW x \in Ticket
      PROVE  Cardinality(Abandoned(x)') <= Cardinality(Abandoned(x))
  <2>1. Abandoned(x)' \subseteq Abandoned(x)
    BY <1>4, <1>7, <1>8 DEF Abandoned
  <2> QED
    BY <2>1, UnderwayFinite, FS_Subset
<1>10. Cardinality(Working(t)') <= Cardinality(Working(t)) - 1
  BY <1>6, UnderwayFinite, OneLess
<1>11. Underway(t)' <= Underway(t) - 1
  BY <1>4, <1>9, <1>10, UnderwayFinite, UnderwayFiniteNext DEF Underway
<1>12. ASSUME NEW x \in Ticket \ {t} PROVE Underway(x)' <= Underway(x)
  BY <1>4, <1>7, <1>9, UnderwayFinite, UnderwayFiniteNext DEF Underway
<1> QED
  BY <1>11, <1>12

\* A run that ends leaves no place behind, except that of a claim that it leaves open.
LEMMA RunEnds ==
  ASSUME TypeOK, TypeOK', OneRunPerJob, NEW w \in Slot, NEW u \in User, NEW t \in Ticket,
         run[w].pc # "idle", run[w].user = u, run[w].ticket = t, FinishRun(w),
         UNCHANGED <<req, release, regs>>,
         \A v \in User : pending'[v] \in {pending[v], None}
  PROVE  /\ run[w].pc \in Undecided \/ pending'[u] # t => Underway(t)' <= Underway(t)
         /\ run[w].pc \in Undecided /\ pending'[u] # t => Underway(t)' <= Underway(t) - 1
         /\ \A x \in Ticket \ {t} : Underway(x)' <= Underway(x)
<1>1. \A v \in Slot : run'[v] = IF v = w THEN IdleRun ELSE run[v]
  BY DEF TypeOK, RunType, FinishRun
<1>2. /\ job[<<u, t>>] = "active" /\ ~run[w].lost
      /\ \A v \in Slot : run[v].pc # "idle" /\ run[v].user = u /\ run[v].ticket = t => v = w
  BY DEF OneRunPerJob, JobOf
<1>3. \A v \in User, x \in Ticket :
        job'[<<v, x>>] = IF v = u /\ x = t THEN "retained" ELSE job[<<v, x>>]
  BY <1>2 DEF TypeOK, QueueType, FinishRun, JobOf
<1>4. IdleRun.pc = "idle" /\ "idle" \notin Undecided
  BY DEF IdleRun, Undecided
<1>5. \A x : Handing(x)' = Handing(x) /\ Releasing(x)' = Releasing(x)
  BY DEF Handing, Releasing
<1>6. Working(t)' \subseteq Working(t) \ {u}
  BY <1>1, <1>2, <1>3, <1>4 DEF Working
<1>7. \A v \in User, x \in Ticket :
        v # u \/ x # t => /\ v \in Working(x) => v \in Working(x)'
                          /\ v \in Working(x)' => v \in Working(x)
                          /\ Covered(v, x) => Covered(v, x)'
  BY <1>1, <1>3, <1>4 DEF Working, Covered
<1>8. None \notin Ticket
  BY GrabAssumption
<1>9. ASSUME NEW x \in Ticket, NEW v \in Abandoned(x)', v # u \/ x # t
      PROVE  v \in Abandoned(x)
  BY <1>5, <1>7, <1>8, <1>9 DEF Abandoned
<1>10. ASSUME NEW x \in Ticket \ {t} PROVE Underway(x)' <= Underway(x)
  <2>1. Working(x)' = Working(x)
    BY <1>7 DEF Working
  <2>2. Cardinality(Abandoned(x)') <= Cardinality(Abandoned(x))
    BY <1>9, UnderwayFinite, FS_Subset
  <2> QED
    BY <1>5, <2>1, <2>2, UnderwayFinite, UnderwayFiniteNext DEF Underway
<1>11. Cardinality(Working(t)') <= Cardinality(Working(t))
  BY <1>6, UnderwayFinite, FS_Subset
<1>12. run[w].pc \in Undecided => Cardinality(Working(t)') <= Cardinality(Working(t)) - 1
  <2>1. run[w].pc \in Undecided => u \in Working(t)
    BY DEF Working
  <2> QED
    BY <1>6, <2>1, UnderwayFinite, OneLess
<1>13. Cardinality(Abandoned(t)') <= Cardinality(Abandoned(t)) + 1
  <2>1. Abandoned(t)' \subseteq Abandoned(t) \cup {u}
    BY <1>9
  <2> QED
    BY <2>1, UnderwayFinite, OneMore
<1>14. pending'[u] # t => Cardinality(Abandoned(t)') <= Cardinality(Abandoned(t))
  <2>1. pending'[u] # t => Abandoned(t)' \subseteq Abandoned(t)
    <3>1. pending'[u] # t => u \notin Abandoned(t)'
      BY DEF Abandoned
    <3> QED
      BY <1>9, <3>1
  <2> QED
    BY <2>1, UnderwayFinite, FS_Subset
<1>15. /\ run[w].pc \in Undecided \/ pending'[u] # t => Underway(t)' <= Underway(t)
       /\ run[w].pc \in Undecided /\ pending'[u] # t => Underway(t)' <= Underway(t) - 1
  BY <1>5, <1>11, <1>12, <1>13, <1>14, UnderwayFinite, UnderwayFiniteNext DEF Underway
<1> QED
  BY <1>10, <1>15

\* Every step of the worker is balanced.
LEMMA WorkerBalanced ==
  ASSUME CacheKept, CacheInv, TypeOK', NEW w \in Slot, WorkerStep(w)
  PROVE  \A x \in Ticket : Balanced(x)
<1> DEFINE u == run[w].user
           t == run[w].ticket
<1>a. TypeOK /\ PlacesKept /\ OneRunPerJob /\ ReleasedAreCancelled
  BY DEF CacheInv
<1>b. /\ remaining \in [Ticket -> Nat \cup {Missing}] /\ reserved \in [Ticket -> Nat]
      /\ pending \in [User -> Ticket \cup {None}] /\ None \notin Ticket
      /\ release \subseteq RegId /\ regs \in [RegId -> RegRecord]
  BY <1>a, GrabAssumption DEF TypeOK, RedisType, DbType
<1>c. run[w].pc # "idle" => u \in User /\ t \in Ticket /\ ~run[w].lost
  BY <1>a, RunAtWork DEF OneRunPerJob, TypeOK
<1>d. ASSUME remaining' = remaining, reserved' = reserved,
             \A x \in Ticket : Underway(x)' <= Underway(x)
      PROVE  \A x \in Ticket : Balanced(x)
  BY <1>a, <1>b, <1>d, UnderwayFinite, UnderwayFiniteNext DEF Balanced
<1>e. "stall" \notin faults /\ "key" \notin faults /\ "redis" \notin faults
  BY DEF CacheKept
<1>1. ASSUME NEW v \in User, NEW s \in Ticket, TakeJob(w, v, s)
      PROVE  \A x \in Ticket : Balanced(x)
  <2>1. \A x \in Ticket : Underway(x)' <= Underway(x)
    BY <1>1, <1>a, RunTaken
  <2> QED
    BY <1>1, <1>d, <2>1 DEF TakeJob, db, redis
<1>2. ASSUME NEW pc, GoRun(w, pc), UNCHANGED <<remaining, reserved, regs, job, req, release>>,
             \A v \in User : pending'[v] \in {pending[v], None},
             \/ run[w].pc \in Undecided /\ pc \in Undecided
             \/ run[w].pc = "schedule" /\ pc = "complete"
      PROVE  \A x \in Ticket : Balanced(x)
  <2>1. \A x \in Ticket : Underway(x)' <= Underway(x)
    BY <1>2, <1>a, RunStays
  <2> QED
    BY <1>2, <1>d, <2>1
<1>3. CASE LookupExisting(w) \/ ReadTicket(w) \/ ReadDuplicated(w) \/ BookTxFails(w)
  <2>1. PICK pc \in {"tx", "book", "existing", "compensate", "completeThenCompensate"} :
            GoRun(w, pc)
    BY <1>3 DEF LookupExisting, ReadTicket, ReadDuplicated, BookTxFails
  <2>2. UNCHANGED <<db, redis, queue, req, release>>
        /\ run[w].pc \in {"lookup", "tx", "book", "duplicate"}
    BY <1>3 DEF LookupExisting, ReadTicket, ReadDuplicated, BookTxFails
  <2> QED
    BY <1>2, <2>1, <2>2 DEF db, redis, queue, Undecided, RunPc
<1>4. CASE BookTx(w)
  <2>0. run[w].pc = "book" /\ UNCHANGED <<redis, queue, req, release>>
    BY <1>4 DEF BookTx
  <2>1. ASSUME NEW pc \in {"compensate", "duplicate"}, GoRun(w, pc), UNCHANGED db
        PROVE  \A x \in Ticket : Balanced(x)
    BY <1>2, <2>0, <2>1 DEF db, redis, queue, Undecided, RunPc
  <2>2. ASSUME NEW r \in FreeReg,
               regs' = [regs EXCEPT ![r] =
                   [user |-> u, ticket |-> t,
                    status |-> IF t \in Paid THEN "PENDING_CONFIRMATION" ELSE "CONFIRMED"]],
               reserved' = [reserved EXCEPT ![t] = @ + 1],
               GoRun(w, IF t \in Paid THEN "schedule" ELSE "complete")
        PROVE  \A x \in Ticket : Balanced(x)
    <3>p. PICK v \in User, s \in Ticket : v = u /\ s = t
      BY <1>c, <2>0
    <3>q. PICK pc \in {"schedule", "complete"} : GoRun(w, pc)
      BY <2>2
    <3>1. r \in RegId /\ regs[r] = NoReg
      BY FreeRegIsFree
    <3>2. r \notin release
      BY <3>1, <1>a DEF ReleasedAreCancelled, NoReg
    <3>3. \A c \in release : regs'[c].ticket = regs[c].ticket
      BY <1>b, <2>2, <3>2
    <3>4. UNCHANGED <<job, pending, req, release>> /\ run[w].user = v /\ run[w].ticket = s
      BY <2>0, <3>p DEF redis, queue
    <3>5. /\ Underway(s)' <= Underway(s) - 1
          /\ \A x \in Ticket \ {s} : Underway(x)' <= Underway(x)
      BY <1>a, <2>0, <3>q, <3>3, <3>4, RunBooks
    <3>6. \A x \in Ticket : reserved'[x] = IF x = s THEN reserved[s] + 1 ELSE reserved[x]
      BY <1>b, <2>2, <3>p
    <3>7. remaining' = remaining
      BY <2>0 DEF redis
    <3>8. ASSUME NEW x \in Ticket PROVE Balanced(x)
      <4>1. reserved[x] \in Nat /\ Underway(x) \in Nat /\ Underway(x)' \in Nat
        BY <1>a, <1>b, UnderwayFinite, UnderwayFiniteNext
      <4> QED
        BY <3>5, <3>6, <3>7, <4>1 DEF Balanced
    <3> QED
      BY <3>8
  <2> QED
    BY <1>4, <2>1, <2>2 DEF BookTx
<1>5. CASE ScheduleExpiration(w)
  <2>1. GoRun(w, "complete") /\ run[w].pc = "schedule"
        /\ UNCHANGED <<db, redis, queue, req, release>>
    BY <1>5, <1>e DEF ScheduleExpiration
  <2> QED
    BY <1>2, <2>1 DEF db, redis, queue
<1>6. CASE CompleteRun(w)
  <2>p. PICK v \in User, s \in Ticket : v = u /\ s = t
    BY <1>6, <1>c DEF CompleteRun
  <2>1. /\ run[w].pc # "idle" /\ run[w].user = v /\ run[w].ticket = s /\ FinishRun(w)
        /\ CompletePending(v, s) /\ UNCHANGED <<req, release, regs, reserved>>
    BY <1>6, <2>p DEF CompleteRun, db
  <2>2. /\ \A y \in User : pending'[y] \in {pending[y], None}
        /\ pending'[v] # s /\ remaining' = remaining
    BY <1>b, <2>1 DEF CompletePending, redis
  <2>3. /\ pending'[v] # s => Underway(s)' <= Underway(s)
        /\ \A x \in Ticket \ {s} : Underway(x)' <= Underway(x)
    BY <1>a, <2>1, <2>2, RunEnds
  <2> QED
    BY <1>d, <2>1, <2>2, <2>3
<1>7. CASE CompensateRun(w)
  <2>p. PICK v \in User, s \in Ticket : v = u /\ s = t
    BY <1>7, <1>c DEF CompensateRun
  <2>1. /\ run[w].pc = "compensate" /\ run[w].user = v /\ run[w].ticket = s /\ FinishRun(w)
        /\ CompensatePending(v, s) /\ UNCHANGED <<req, release, regs, reserved>>
        /\ run[w].pc \in Undecided
    BY <1>7, <2>p DEF CompensateRun, db, Undecided, RunPc
  <2>2. \A y \in User : pending'[y] \in {pending[y], None}
    BY <1>b, <2>1 DEF CompensatePending, redis
  <2>3. /\ Underway(s)' <= Underway(s)
        /\ pending'[v] # s => Underway(s)' <= Underway(s) - 1
        /\ \A x \in Ticket \ {s} : Underway(x)' <= Underway(x)
    BY <1>a, <2>1, <2>2, RunEnds
  <2>4. CASE pending[v] # s
    BY <1>d, <2>1, <2>3, <2>4 DEF CompensatePending, redis
  <2>5. CASE pending[v] = s
    <3>1. pending'[v] # s
      BY <1>b, <2>1, <2>5 DEF CompensatePending
    <3>2. remaining[s] # Missing
      BY <1>a, <2>3, <3>1, UnderwayFinite, UnderwayFiniteNext DEF PlacesKept
    <3>3. \A x \in Ticket : remaining'[x] = IF x = s THEN remaining[s] + 1 ELSE remaining[x]
      BY <1>b, <2>1, <2>5, <3>2 DEF CompensatePending
    <3>4. ASSUME NEW x \in Ticket PROVE Balanced(x)
      <4>1. reserved[x] \in Nat /\ Underway(x) \in Nat /\ Underway(x)' \in Nat
            /\ remaining[s] \in Nat
        BY <1>a, <1>b, <3>2, UnderwayFinite, UnderwayFiniteNext
      <4> QED
        BY <2>1, <2>3, <3>1, <3>3, <4>1 DEF Balanced, Missing
    <3> QED
      BY <3>4
  <2> QED
    BY <2>4, <2>5
<1>8. CASE RunFails(w)
  <2>p. PICK v \in User, s \in Ticket : v = u /\ s = t
    BY <1>8, <1>c, <1>e DEF RunFails
  <2>1. /\ run[w].pc \in {"lookup", "duplicate"} /\ run[w].user = v /\ run[w].ticket = s
        /\ FinishRun(w) /\ UNCHANGED <<remaining, pending, req, release, regs, reserved>>
    BY <1>8, <1>e, <2>p DEF RunFails, db, redis
  <2>2. run[w].pc # "idle" /\ run[w].pc \in Undecided
        /\ \A y \in User : pending'[y] \in {pending[y], None}
    BY <2>1 DEF Undecided, RunPc
  <2>3. /\ Underway(s)' <= Underway(s)
        /\ \A x \in Ticket \ {s} : Underway(x)' <= Underway(x)
    BY <1>a, <2>1, <2>2, RunEnds
  <2> QED
    BY <1>d, <2>1, <2>3
<1>9. CASE CompleteThenCompensate(w)
  <2>1. /\ run[w].pc \in Undecided /\ "compensate" \in Undecided /\ GoRun(w, "compensate")
        /\ CompletePending(u, t) /\ UNCHANGED <<reserved, regs, job, req, release>>
    BY <1>9 DEF CompleteThenCompensate, Undecided, RunPc, db, queue
  <2>2. /\ \A y \in User : pending'[y] \in {pending[y], None}
        /\ remaining' = remaining
    BY <1>b, <2>1 DEF CompletePending, redis
  <2> QED
    BY <1>2, <2>1, <2>2
<1>10. CASE JobStalls(w) \/ WorkerDies(w) \/ CompleteFails(w)
  <2>1. CASE run[w].pc # "idle"
    BY <1>10, <1>c, <1>e, <2>1 DEF JobStalls, WorkerDies, CompleteFails
  <2>2. CASE run[w].pc = "idle"
    <3>1. run[w].lost = FALSE
      BY <1>a, <2>2 DEF TypeOK, RunType, RunRecord, IdleRun
    <3> QED
      BY <1>10, <1>e, <3>1 DEF JobStalls, WorkerDies, CompleteFails
  <2> QED
    BY <2>1, <2>2
<1> QED
  BY <1>1, <1>3, <1>4, <1>5, <1>6, <1>7, <1>8, <1>9, <1>10 DEF WorkerStep

\* A step that leaves handlers, slots, jobs and claims alone moves only released places.
LEMMA OnlyReleases ==
  ASSUME TypeOK, TypeOK', UNCHANGED <<req, run, job, pending>>, NEW r \in RegId,
         \A s \in RegId : regs'[s].ticket = regs[s].ticket
  PROVE  /\ release' = release => \A x \in Ticket : Underway(x)' = Underway(x)
         /\ release' = release \cup {r} =>
              \A x \in Ticket : /\ x = regs[r].ticket => Underway(x)' <= Underway(x) + 1
                                /\ x # regs[r].ticket => Underway(x)' = Underway(x)
         /\ r \in release /\ release' = release \ {r} =>
              \A x \in Ticket : /\ x = regs[r].ticket => Underway(x)' <= Underway(x) - 1
                                /\ x # regs[r].ticket => Underway(x)' = Underway(x)
<1>1. \A x \in Ticket : /\ Handing(x)' = Handing(x) /\ Working(x)' = Working(x)
                        /\ \A v : Covered(v, x)' = Covered(v, x)
  BY DEF Handing, Working, Covered
<1>2. \A x \in Ticket : Abandoned(x)' = Abandoned(x)
  BY <1>1 DEF Abandoned, Handing
<1>3. release \subseteq RegId /\ release' \subseteq RegId
  BY DEF TypeOK
<1>4. CASE release' = release
  <2>1. \A x \in Ticket : Releasing(x)' = Releasing(x)
    BY <1>3, <1>4 DEF Releasing
  <2>2. \A x \in Ticket : Underway(x)' = Underway(x)
    BY <1>1, <1>2, <2>1 DEF Underway
  <2>3. release' = release \cup {r} => r \in release
    BY <1>4
  <2>4. ~(r \in release /\ release' = release \ {r})
    BY <1>4
  <2>5. \A x \in Ticket : Underway(x) \in Nat
    BY UnderwayFinite
  <2> QED
    BY <2>2, <2>4, <2>5
<1>5. ASSUME NEW x \in Ticket, release' = release \cup {r}
      PROVE  /\ x = regs[r].ticket => Underway(x)' <= Underway(x) + 1
             /\ x # regs[r].ticket => Underway(x)' = Underway(x)
  <2>1. Releasing(x)' \subseteq Releasing(x) \cup {r}
    BY <1>3, <1>5 DEF Releasing
  <2>2. x # regs[r].ticket => Releasing(x)' = Releasing(x)
    BY <1>3, <1>5 DEF Releasing
  <2>3. Cardinality(Releasing(x)') <= Cardinality(Releasing(x)) + 1
    BY <2>1, UnderwayFinite, OneMore
  <2>4. x # regs[r].ticket => Underway(x)' = Underway(x)
    BY <1>1, <1>2, <2>2 DEF Underway
  <2>5. Underway(x)' <= Underway(x) + 1
    BY <1>1, <1>2, <2>3, UnderwayFinite, UnderwayFiniteNext DEF Underway
  <2> QED
    BY <2>4, <2>5
<1>6. ASSUME NEW x \in Ticket, r \in release, release' = release \ {r}
      PROVE  /\ x = regs[r].ticket => Underway(x)' <= Underway(x) - 1
             /\ x # regs[r].ticket => Underway(x)' = Underway(x)
  <2>1. Releasing(x)' \subseteq Releasing(x) \ {r}
    BY <1>3, <1>6 DEF Releasing
  <2>2. x # regs[r].ticket => Releasing(x)' = Releasing(x)
    BY <1>3, <1>6 DEF Releasing
  <2>3. x = regs[r].ticket => r \in Releasing(x)
    BY <1>6 DEF Releasing
  <2>4. x = regs[r].ticket => Cardinality(Releasing(x)') <= Cardinality(Releasing(x)) - 1
    BY <2>1, <2>3, UnderwayFinite, OneLess
  <2>5. x # regs[r].ticket => Underway(x)' = Underway(x)
    BY <1>1, <1>2, <2>2 DEF Underway
  <2>6. x = regs[r].ticket => Underway(x)' <= Underway(x) - 1
    BY <1>1, <1>2, <2>4, UnderwayFinite, UnderwayFiniteNext DEF Underway
  <2> QED
    BY <2>5, <2>6
<1> QED
  BY <1>4, <1>5, <1>6

\* Every step of an order is balanced.
LEMMA OrderBalanced ==
  ASSUME TypeOK, TypeOK', PlacesKept, NEW r \in RegId, OrderStep(r)
  PROVE  \A x \in Ticket : Balanced(x)
<1>a. /\ remaining \in [Ticket -> Nat \cup {Missing}] /\ reserved \in [Ticket -> Nat]
      /\ regs \in [RegId -> RegRecord]
  BY DEF TypeOK, RedisType, DbType
<1>b. \A x \in Ticket : /\ remaining[x] \in Nat \cup {Missing} /\ reserved[x] \in Nat
                        /\ Underway(x) \in Nat /\ Underway(x)' \in Nat
  BY <1>a, UnderwayFinite, UnderwayFiniteNext
<1>c. UNCHANGED <<req, run, job, pending>>
  BY DEF OrderStep, ConfirmOrder, MarkNoShow, CancelOrder, ReleaseConfirmed, ReleaseLost,
         redis, queue
<1>d. ASSUME NEW c, regs' = [regs EXCEPT ![r].status = c]
      PROVE  \A s \in RegId : regs'[s].ticket = regs[s].ticket
  BY <1>a, <1>d DEF RegRecord, NoReg
<1>1. CASE ConfirmOrder(r) \/ MarkNoShow(r)
  <2>1. \A s \in RegId : regs'[s].ticket = regs[s].ticket
    BY <1>1, <1>d DEF ConfirmOrder, MarkNoShow
  <2>2. UNCHANGED <<release, remaining, reserved>>
    BY <1>1 DEF ConfirmOrder, MarkNoShow, redis
  <2>3. \A x \in Ticket : Underway(x)' = Underway(x)
    BY <1>c, <2>1, <2>2, OnlyReleases
  <2> QED
    BY <1>b, <2>2, <2>3 DEF Balanced
<1>2. CASE CancelOrder(r)
  <2> DEFINE t == regs[r].ticket
  <2>1. \A s \in RegId : regs'[s].ticket = regs[s].ticket
    BY <1>2, <1>d DEF CancelOrder
  <2>2. /\ release' = release \cup {r} /\ remaining' = remaining /\ reserved[t] > 0
        /\ reserved' = [reserved EXCEPT ![t] = @ - 1]
    BY <1>2 DEF CancelOrder, redis
  <2>3. \A x \in Ticket : /\ x = t => Underway(x)' <= Underway(x) + 1
                          /\ x # t => Underway(x)' = Underway(x)
    BY <1>c, <2>1, <2>2, OnlyReleases
  <2>4. \A x \in Ticket : reserved'[x] = IF x = t THEN reserved[x] - 1 ELSE reserved[x]
    BY <1>a, <2>2
  <2> QED
    BY <1>b, <2>2, <2>3, <2>4 DEF Balanced
<1>3. CASE ReleaseConfirmed(r)
  <2> DEFINE t == regs[r].ticket
  <2>1. regs' = regs /\ reserved' = reserved
    BY <1>3 DEF ReleaseConfirmed, db
  <2>2. r \in release /\ release' = release \ {r}
        /\ remaining' = IF remaining[t] = Missing
                        THEN remaining
                        ELSE [remaining EXCEPT ![t] = @ + 1]
    BY <1>3 DEF ReleaseConfirmed
  <2>3. \A x \in Ticket : /\ x = t => Underway(x)' <= Underway(x) - 1
                          /\ x # t => Underway(x)' = Underway(x)
    BY <1>c, <2>1, <2>2, OnlyReleases
  <2>4. \A x \in Ticket : x = t => remaining[x] # Missing /\ remaining'[x] = remaining[x] + 1
    BY <1>a, <1>b, <2>2, <2>3 DEF PlacesKept
  <2>5. \A x \in Ticket : x # t => remaining'[x] = remaining[x]
    BY <1>a, <2>2
  <2> HIDE DEF t
  <2>6. ASSUME NEW x \in Ticket PROVE Balanced(x)
    <3>1. CASE x = t
      BY <1>b, <2>1, <2>3, <2>4, <3>1 DEF Balanced, Missing
    <3>2. CASE x # t
      BY <1>b, <2>1, <2>3, <2>5, <3>2 DEF Balanced
    <3> QED
      BY <3>1, <3>2
  <2> QED
    BY <2>6
<1>4. CASE ReleaseLost(r)
  <2>1. UNCHANGED <<regs, reserved, remaining>> /\ r \in release /\ release' = release \ {r}
    BY <1>4 DEF ReleaseLost, db, redis
  <2>2. \A x \in Ticket : /\ x = regs[r].ticket => Underway(x)' <= Underway(x) - 1
                          /\ x # regs[r].ticket => Underway(x)' = Underway(x)
    BY <1>c, <2>1, OnlyReleases
  <2> QED
    BY <1>b, <2>1, <2>2 DEF Balanced
<1> QED
  BY <1>1, <1>2, <1>3, <1>4 DEF OrderStep

\* Every step of the environment is balanced.
LEMMA EnvBalanced ==
  ASSUME CacheKept, TypeOK, TypeOK', EnvStep
  PROVE  \A x \in Ticket : Balanced(x)
<1>a. UNCHANGED <<req, run, release, regs, reserved>>
  BY DEF EnvStep, PendingExpires, FailureExpires, StockKeyLost, JobEvicted, SaleSwitches, db
<1>b. remaining' = remaining
  BY DEF EnvStep, PendingExpires, FailureExpires, StockKeyLost, JobEvicted, SaleSwitches,
         CacheKept, redis
<1>c. \A v \in User, x \in Ticket : job'[<<v, x>>] = "waiting" <=> job[<<v, x>>] = "waiting"
  BY DEF EnvStep, PendingExpires, FailureExpires, StockKeyLost, JobEvicted, SaleSwitches,
         queue, TypeOK, QueueType
<1>d. \A v \in User : pending'[v] \in {pending[v], None}
  BY DEF EnvStep, PendingExpires, FailureExpires, StockKeyLost, JobEvicted, SaleSwitches,
         redis, TypeOK, RedisType
<1>1. \A x \in Ticket : Working(x)' = Working(x)
  BY <1>a, <1>c DEF Working
<1>2. \A v, x : Covered(v, x)' = Covered(v, x)
  BY <1>a DEF Covered
<1>3. \A x \in Ticket : Underway(x)' <= Underway(x)
  BY <1>a, <1>d, <1>1, <1>2, FewerClaims
<1> QED
  BY <1>a, <1>b, <1>3, UnderwayFinite, UnderwayFiniteNext DEF Balanced, TypeOK, DbType

\* The rest of the invariant holds at first, too.
LEMMA CacheInit == Init => CacheInv
<1> SUFFICES ASSUME Init PROVE CacheInv
  OBVIOUS
<1>1. TypeOK
  BY TypeInit
<1>2. \A x \in Ticket : /\ remaining[x] = Missing /\ reserved[x] = 0
                        /\ Handing(x) = {} /\ Working(x) = {} /\ Abandoned(x) = {}
                        /\ Releasing(x) = {}
  BY GrabAssumption DEF Init, Handing, Working, Abandoned, Releasing, IdleReq, IdleRun, Undecided
<1>3. PlacesKept
  BY <1>2, FS_EmptySet DEF PlacesKept, Underway
<1>4. HandlersServe /\ WithinStock /\ OneRunPerJob /\ ReleasedAreCancelled /\ rec.pc = "idle"
  BY DEF Init, HandlersServe, WithinStock, OneRunPerJob, ReleasedAreCancelled, IdleReq, IdleRun,
         IdleRec
<1> QED
  BY <1>1, <1>3, <1>4 DEF CacheInv

\* What a handler's step does to its record: it is new, it is gone, or it goes on for
\* the same user and ticket, with a value that leaves something of its snapshot.
LEMMA HandlerSteps ==
  ASSUME TypeOK, NEW q \in Req, RequestStep(q)
  PROVE  /\ \A p \in Req \ {q} : req'[p] = req[p]
         /\ \/ req'[q].pc = "idle"
            \/ \E u \in User, t \in Ticket :
                 /\ req'[q].user = u /\ req'[q].ticket = t
                 /\ req'[q].snap = NonNegative(Stock[t] - reserved[t]) /\ req'[q].value = 0
            \/ /\ req[q].pc # "idle" /\ req'[q].user = req[q].user
               /\ req'[q].ticket = req[q].ticket /\ req'[q].snap = req[q].snap
               /\ req'[q].value \in {0, req[q].value,
                      NonNegative(req[q].snap - CountClaims(req[q].keys, req[q].ticket))}
<1>a. req \in [Req -> ReqRecord]
  BY DEF TypeOK, ReqType
<1>1. \A p \in Req \ {q} : req'[p] = req[p]
  BY <1>a DEF RequestStep, GrabReadTicket, GrabAssertNotRegistered, EnsureExists, EnsureScan,
         EnsureMGet, EnsureSetNX, Reserve, Enqueue, EnqueueFails, CompensateRequest,
         RequestDies, GoReq, LeaveReq
<1>2. LeaveReq(q) => req'[q].pc = "idle"
  BY <1>a DEF LeaveReq, IdleReq
<1>3. \A pc : GoReq(q, pc) => /\ req'[q].user = req[q].user
               /\ req'[q].ticket = req[q].ticket /\ req'[q].snap = req[q].snap
               /\ req'[q].value = req[q].value
  BY <1>a DEF GoReq, ReqRecord
<1> SUFFICES \/ req'[q].pc = "idle"
             \/ \E u \in User, t \in Ticket :
                 /\ req'[q].user = u /\ req'[q].ticket = t
                 /\ req'[q].snap = NonNegative(Stock[t] - reserved[t]) /\ req'[q].value = 0
             \/ /\ req[q].pc # "idle" /\ req'[q].user = req[q].user
                /\ req'[q].ticket = req[q].ticket /\ req'[q].snap = req[q].snap
                /\ req'[q].value \in {0, req[q].value,
                      NonNegative(req[q].snap - CountClaims(req[q].keys, req[q].ticket))}
  BY <1>1
<1>4. CASE \E u \in User, t \in Ticket : GrabReadTicket(q, u, t)
  <2>1. PICK u \in User, t \in Ticket : GrabReadTicket(q, u, t)
    BY <1>4
  <2>2. req'[q] = [IdleReq EXCEPT !.pc = "check", !.user = u, !.ticket = t,
                                  !.snap = NonNegative(Stock[t] - reserved[t])]
    BY <1>a, <2>1 DEF GrabReadTicket
  <2> QED
    BY <2>2 DEF IdleReq
<1>5. CASE GrabAssertNotRegistered(q) \/ EnsureExists(q) \/ Enqueue(q) \/ EnqueueFails(q)
           \/ CompensateRequest(q) \/ RequestDies(q)
  BY <1>2, <1>3, <1>5 DEF GrabAssertNotRegistered, EnsureExists, Enqueue, EnqueueFails,
     CompensateRequest, RequestDies
<1>6. CASE EnsureScan(q) \/ EnsureMGet(q) \/ EnsureSetNX(q)
  <2>0. req[q] \in ReqRecord
    BY <1>a
  <2>1. CASE EnsureScan(q)
    BY <1>a, <2>0, <2>1 DEF EnsureScan, ReqRecord
  <2>2. CASE EnsureMGet(q)
    BY <1>a, <2>0, <2>2 DEF EnsureMGet, ReqRecord
  <2>3. CASE EnsureSetNX(q)
    BY <1>a, <2>0, <2>3 DEF EnsureSetNX, ReqRecord
  <2> QED
    BY <1>6, <2>1, <2>2, <2>3
<1>7. CASE Reserve(q)
  <2>1. req[q].pc # "idle"
    BY <1>7 DEF Reserve
  <2>2. CASE req' = [req EXCEPT ![q] = [@ EXCEPT !.pc = "exists", !.retried = TRUE]]
    BY <1>a, <2>1, <2>2 DEF ReqRecord
  <2> QED
    BY <1>2, <1>3, <1>7, <2>1, <2>2 DEF Reserve
<1> QED
  BY <1>4, <1>5, <1>6, <1>7 DEF RequestStep

\* A step that is not a handler's leaves the handlers alone.
LEMMA OthersKeepReq ==
  ASSUME Step PROVE UNCHANGED req \/ \E q \in Req : RequestStep(q)
BY DEF Step, WorkerStep, TakeJob, LookupExisting, ReadTicket, BookTx, BookTxFails,
   ScheduleExpiration, CompleteRun, CompleteFails, CompensateRun, RunFails, ReadDuplicated,
   CompleteThenCompensate, JobStalls, WorkerDies, OrderStep, ConfirmOrder, MarkNoShow,
   CancelOrder, ReleaseConfirmed, ReleaseLost, RecoveryStep, RehydrateSnapshot, ReconcileScan,
   ReconcileMGet, ReconcileSet, EnvStep, PendingExpires, FailureExpires, StockKeyLost,
   JobEvicted, SaleSwitches

\* A handler never comes to serve nobody.
LEMMA ServeKept == ASSUME TypeOK, HandlersServe, Step PROVE HandlersServe'
<1>1. CASE UNCHANGED req
  BY <1>1 DEF HandlersServe
<1>2. ASSUME NEW q \in Req, RequestStep(q) PROVE HandlersServe'
  BY <1>2, HandlerSteps DEF HandlersServe
<1> QED
  BY <1>1, <1>2, OthersKeepReq

\* What leaves something of a snapshot is within the stock.
LEMMA WithinKept ==
  ASSUME TypeOK, HandlersServe, WithinStock, Step PROVE WithinStock'
<1>1. CASE UNCHANGED req
  BY <1>1 DEF WithinStock
<1>2. ASSUME NEW q \in Req, RequestStep(q), NEW p \in Req, req'[p].pc # "idle"
      PROVE  req'[p].snap <= Stock[req'[p].ticket] /\ req'[p].value <= Stock[req'[p].ticket]
  <2>1. CASE p # q
    BY <1>2, <2>1, HandlerSteps DEF WithinStock
  <2>2. CASE p = q
    <3>1. CASE \E u \in User, t \in Ticket :
                 /\ req'[q].user = u /\ req'[q].ticket = t
                 /\ req'[q].snap = NonNegative(Stock[t] - reserved[t]) /\ req'[q].value = 0
      <4>1. PICK t \in Ticket : /\ req'[q].ticket = t /\ req'[q].value = 0
                                /\ req'[q].snap = NonNegative(Stock[t] - reserved[t])
        BY <3>1
      <4>2. Stock[t] \in Nat /\ reserved[t] \in Nat
        BY GrabAssumption DEF TypeOK, DbType
      <4> QED
        BY <2>2, <4>1, <4>2 DEF NonNegative
    <3>2. CASE /\ req[q].pc # "idle" /\ req'[q].user = req[q].user
               /\ req'[q].ticket = req[q].ticket /\ req'[q].snap = req[q].snap
               /\ req'[q].value \in {0, req[q].value,
                      NonNegative(req[q].snap - CountClaims(req[q].keys, req[q].ticket))}
      <4>1. /\ req[q].ticket \in Ticket /\ req[q].snap <= Stock[req[q].ticket]
            /\ req[q].value <= Stock[req[q].ticket]
        BY <3>2 DEF HandlersServe, WithinStock
      <4>2. /\ Stock[req[q].ticket] \in Nat /\ req[q].snap \in Nat
            /\ req[q].keys \in SUBSET User
        BY <4>1, GrabAssumption DEF TypeOK, ReqType, ReqRecord
      <4>3. CountClaims(req[q].keys, req[q].ticket) \in Nat
        BY <4>2, CountClaimsType
      <4>4. NonNegative(req[q].snap - CountClaims(req[q].keys, req[q].ticket))
              <= Stock[req[q].ticket]
        BY <4>1, <4>2, <4>3 DEF NonNegative
      <4> QED
        BY <2>2, <3>2, <4>1, <4>2, <4>4
    <3> QED
      BY <1>2, <2>2, <3>1, <3>2, HandlerSteps
  <2> QED
    BY <2>1, <2>2
<1> QED
  BY <1>1, <1>2, OthersKeepReq DEF WithinStock

\* Where no job stalls, a job is worked on by the slot that took it, until it is finished.
LEMMA OneRunKept ==
  ASSUME CacheKept, TypeOK, OneRunPerJob, Step PROVE OneRunPerJob'
<1>a. /\ job \in [User \X Ticket -> {"absent", "waiting", "active", "retained"}]
      /\ run \in [Slot -> RunRecord]
  BY DEF TypeOK, QueueType, RunType
<1>b. \A w \in Slot : run[w].pc # "idle" => JobOf(w) \in User \X Ticket
  BY RunAtWork DEF TypeOK
<1>c. "stall" \notin faults
  BY DEF CacheKept
<1>1. ASSUME UNCHANGED run, \A j \in User \X Ticket : job[j] = "active" => job'[j] = "active"
      PROVE  OneRunPerJob'
  BY <1>b, <1>1 DEF OneRunPerJob, JobOf
<1>2. CASE \E q \in Req : RequestStep(q)
  BY <1>1, <1>2, <1>a DEF RequestStep, GrabReadTicket, GrabAssertNotRegistered, EnsureExists,
     EnsureScan, EnsureMGet, EnsureSetNX, Reserve, Enqueue, EnqueueFails, CompensateRequest,
     RequestDies, queue
<1>3. CASE (\E r \in RegId : OrderStep(r)) \/ RecoveryStep
  BY <1>1, <1>3 DEF OrderStep, ConfirmOrder, MarkNoShow, CancelOrder, ReleaseConfirmed,
     ReleaseLost, RecoveryStep, RehydrateSnapshot, ReconcileScan, ReconcileMGet, ReconcileSet,
     queue
<1>4. CASE EnvStep
  BY <1>1, <1>4, <1>a DEF EnvStep, PendingExpires, FailureExpires, StockKeyLost, JobEvicted,
     SaleSwitches, queue
<1>5. ASSUME NEW w \in Slot, WorkerStep(w) PROVE OneRunPerJob'
  <2>1. ASSUME NEW pc, GoRun(w, pc), run[w].pc # "idle", UNCHANGED job PROVE OneRunPerJob'
    <3>1. \A v \in Slot : run'[v] = IF v = w THEN [run[w] EXCEPT !.pc = pc] ELSE run[v]
      BY <1>a, <2>1 DEF GoRun
    <3>2. run'[w].user = run[w].user /\ run'[w].ticket = run[w].ticket
          /\ run'[w].lost = run[w].lost
      BY <1>a, <2>1, <3>1 DEF RunRecord, IdleRun
    <3>3. \A v \in Slot : JobOf(v)' = JobOf(v) /\ run'[v].lost = run[v].lost
                          /\ (run'[v].pc # "idle" => run[v].pc # "idle")
      BY <2>1, <3>1, <3>2 DEF JobOf
    <3> QED
      BY <2>1, <3>3 DEF OneRunPerJob
  <2>2. ASSUME FinishRun(w), run[w].pc # "idle" PROVE OneRunPerJob'
    <3>1. \A v \in Slot : run'[v] = IF v = w THEN IdleRun ELSE run[v]
      BY <1>a, <2>2 DEF FinishRun
    <3>2. job' = [job EXCEPT ![JobOf(w)] = "retained"]
      BY <2>2 DEF FinishRun, OneRunPerJob
    <3>3. \A v \in Slot : run'[v].pc # "idle" => v # w /\ run[v].pc # "idle" /\ JobOf(v)' = JobOf(v)
                                                 /\ run'[v].lost = run[v].lost
      BY <3>1 DEF IdleRun, JobOf
    <3>4. \A v \in Slot : v # w /\ run[v].pc # "idle" => JobOf(v) # JobOf(w)
      BY <2>2 DEF OneRunPerJob
    <3>5. \A v \in Slot : v # w /\ run[v].pc # "idle" => job'[JobOf(v)] = "active"
      BY <1>a, <1>b, <3>2, <3>4 DEF OneRunPerJob
    <3> QED
      BY <3>3, <3>5 DEF OneRunPerJob
  <2>3. ASSUME NEW u \in User, NEW t \in Ticket, TakeJob(w, u, t) PROVE OneRunPerJob'
    <3>1. \A v \in Slot : run'[v] = IF v = w THEN [pc |-> "lookup", user |-> u, ticket |-> t,
                                                   lost |-> FALSE]
                                             ELSE run[v]
      BY <1>a, <2>3 DEF TakeJob
    <3>2. \A v \in Slot : v # w => JobOf(v)' = JobOf(v) /\ run'[v].lost = run[v].lost
                                   /\ run'[v].pc = run[v].pc
      BY <3>1 DEF JobOf
    <3>3. JobOf(w)' = <<u, t>> /\ ~run'[w].lost /\ job[<<u, t>>] = "waiting"
      BY <2>3, <3>1 DEF JobOf, TakeJob
    <3>4. \A v \in Slot : v # w /\ run[v].pc # "idle" => JobOf(v) # <<u, t>>
      BY <3>3 DEF OneRunPerJob
    <3>5. job' = [job EXCEPT ![<<u, t>>] = "active"]
      BY <2>3 DEF TakeJob
    <3>6. job'[<<u, t>>] = "active"
      BY <1>a, <3>5
    <3>7. \A v \in Slot : v # w /\ run[v].pc # "idle" => job'[JobOf(v)] = "active"
      BY <1>a, <1>b, <3>4, <3>5 DEF OneRunPerJob
    <3> QED
      BY <3>2, <3>3, <3>4, <3>6, <3>7 DEF OneRunPerJob
  <2>4. CASE LookupExisting(w) \/ ReadTicket(w) \/ BookTx(w) \/ BookTxFails(w)
             \/ ScheduleExpiration(w) \/ CompleteFails(w) \/ ReadDuplicated(w)
             \/ CompleteThenCompensate(w)
    <3>1. UNCHANGED job /\ run[w].pc # "idle"
      BY <2>4 DEF LookupExisting, ReadTicket, BookTx, BookTxFails, ScheduleExpiration,
         CompleteFails, ReadDuplicated, CompleteThenCompensate, queue
    <3>2. \E pc \in RunPc : GoRun(w, pc)
      BY <2>4 DEF LookupExisting, ReadTicket, BookTx, BookTxFails, ScheduleExpiration,
         CompleteFails, ReadDuplicated, CompleteThenCompensate, RunPc
    <3> QED
      BY <2>1, <3>1, <3>2
  <2>5. CASE CompleteRun(w) \/ CompensateRun(w) \/ RunFails(w)
    <3>1. FinishRun(w) /\ run[w].pc # "idle"
      BY <2>5 DEF CompleteRun, CompensateRun, RunFails
    <3> QED
      BY <2>2, <3>1
  <2>6. CASE JobStalls(w) \/ WorkerDies(w)
    <3>1. ~run[w].lost
      BY <1>a DEF OneRunPerJob, RunRecord, IdleRun
    <3> QED
      BY <1>c, <2>6, <3>1 DEF JobStalls, WorkerDies
  <2> QED
    BY <1>5, <2>3, <2>4, <2>5, <2>6 DEF WorkerStep
<1> QED
  BY <1>2, <1>3, <1>4, <1>5 DEF Step

\* A cancelled registration stays what it is, released or not.
LEMMA ReleasedKept ==
  ASSUME TypeOK, ReleasedAreCancelled, Step PROVE ReleasedAreCancelled'
<1>a. release \subseteq RegId /\ regs \in [RegId -> RegRecord]
  BY DEF TypeOK, DbType
<1>1. CASE UNCHANGED <<regs, release>>
  BY <1>1 DEF ReleasedAreCancelled
<1>2. ASSUME NEW r \in RegId, OrderStep(r) PROVE ReleasedAreCancelled'
  <2>1. CASE ConfirmOrder(r) \/ MarkNoShow(r)
    BY <1>a, <2>1 DEF ConfirmOrder, MarkNoShow, ReleasedAreCancelled
  <2>2. CASE CancelOrder(r)
    <3>1. regs[r] # NoReg /\ regs'[r].status = "CANCELLED"
      BY <1>a, <2>2 DEF CancelOrder, NoReg, RegRecord
    <3>2. \A s \in RegId \ {r} : regs'[s] = regs[s]
      BY <1>a, <2>2 DEF CancelOrder
    <3> QED
      BY <1>a, <2>2, <3>1, <3>2 DEF CancelOrder, ReleasedAreCancelled
  <2>3. CASE ReleaseConfirmed(r) \/ ReleaseLost(r)
    BY <2>3 DEF ReleaseConfirmed, ReleaseLost, ReleasedAreCancelled, db
  <2> QED
    BY <1>2, <2>1, <2>2, <2>3 DEF OrderStep
<1>3. ASSUME NEW w \in Slot, BookTx(w), ~UNCHANGED regs PROVE ReleasedAreCancelled'
  <2>1. PICK r \in FreeReg : \E x : regs' = [regs EXCEPT ![r] = x]
    BY <1>3 DEF BookTx, db
  <2>2. r \notin release
    BY <1>a, FreeRegIsFree DEF ReleasedAreCancelled, NoReg
  <2> QED
    BY <1>a, <1>3, <2>1, <2>2 DEF BookTx, ReleasedAreCancelled
<1>4. \/ UNCHANGED <<regs, release>>
      \/ \E r \in RegId : OrderStep(r)
      \/ \E w \in Slot : BookTx(w) /\ release' = release
  BY DEF Step, RequestStep, GrabReadTicket, GrabAssertNotRegistered, EnsureExists,
     EnsureScan, EnsureMGet, EnsureSetNX, Reserve, Enqueue, EnqueueFails, CompensateRequest,
     RequestDies, WorkerStep, TakeJob, LookupExisting, ReadTicket, BookTx, BookTxFails,
     ScheduleExpiration, CompleteRun, CompleteFails, CompensateRun, RunFails, ReadDuplicated,
     CompleteThenCompensate, JobStalls, WorkerDies, RecoveryStep, RehydrateSnapshot,
     ReconcileScan, ReconcileMGet, ReconcileSet, EnvStep, PendingExpires, FailureExpires,
     StockKeyLost, JobEvicted, SaleSwitches, db
<1> QED
  BY <1>1, <1>2, <1>3, <1>4

\* Where the recovery timer does not run, the recovery service rests.
LEMMA RecoveryRests ==
  ASSUME CacheKept, rec.pc = "idle", Step PROVE rec'.pc = "idle" /\ ~RecoveryStep
<1>1. ~RecoveryStep
  BY DEF RecoveryStep, RehydrateSnapshot, ReconcileScan, ReconcileMGet, ReconcileSet, CacheKept
<1>2. UNCHANGED rec
  BY <1>1 DEF Step, RequestStep, GrabReadTicket, GrabAssertNotRegistered, EnsureExists,
     EnsureScan, EnsureMGet, EnsureSetNX, Reserve, Enqueue, EnqueueFails, CompensateRequest,
     RequestDies, WorkerStep, TakeJob, LookupExisting, ReadTicket, BookTx, BookTxFails,
     ScheduleExpiration, CompleteRun, CompleteFails, CompensateRun, RunFails, ReadDuplicated,
     CompleteThenCompensate, JobStalls, WorkerDies, OrderStep, ConfirmOrder, MarkNoShow,
     CancelOrder, ReleaseConfirmed, ReleaseLost, EnvStep, PendingExpires, FailureExpires,
     StockKeyLost, JobEvicted, SaleSwitches
<1> QED
  BY <1>1, <1>2

\* Every step keeps the invariant, as long as the stock key, the jobs' locks and the
\* worker's calls to Redis hold and the recovery timer does not run.
LEMMA CacheInvKept ==
  ASSUME CacheKept, CacheInv, TypeOK', Step PROVE CacheInv'
<1>a. TypeOK /\ HandlersServe /\ PlacesKept /\ OneRunPerJob /\ WithinStock
      /\ ReleasedAreCancelled /\ rec.pc = "idle"
  BY DEF CacheInv
<1>1. HandlersServe' /\ WithinStock' /\ OneRunPerJob' /\ ReleasedAreCancelled'
      /\ rec'.pc = "idle"
  BY <1>a, ServeKept, WithinKept, OneRunKept, ReleasedKept, RecoveryRests
<1>2. \A x \in Ticket : Balanced(x)
  <2>1. CASE \E q \in Req : RequestStep(q)
    BY <1>a, <2>1, RequestBalanced
  <2>2. CASE \E w \in Slot : WorkerStep(w)
    BY <2>2, WorkerBalanced
  <2>3. CASE \E r \in RegId : OrderStep(r)
    BY <1>a, <2>3, OrderBalanced
  <2>4. CASE EnvStep
    BY <1>a, <2>4, EnvBalanced
  <2> QED
    BY <1>a, <2>1, <2>2, <2>3, <2>4, RecoveryRests DEF Step
<1>3. PlacesKept'
  BY <1>a, <1>2, BalancedKeeps
<1> QED
  BY <1>1, <1>3 DEF CacheInv

\* The union of two finite sets is no larger than both together.
LEMMA UnionBound ==
  ASSUME NEW S, NEW T, IsFiniteSet(S), IsFiniteSet(T)
  PROVE  /\ IsFiniteSet(S \cup T) /\ Cardinality(S \cup T) \in Nat
         /\ Cardinality(S \cup T) <= Cardinality(S) + Cardinality(T)
<1>1. /\ IsFiniteSet(S \cup T)
      /\ Cardinality(S \cup T) = Cardinality(S) + Cardinality(T) - Cardinality(S \cap T)
  BY FS_Union
<1>2. IsFiniteSet(S \cap T)
  BY FS_Intersection
<1>3. /\ Cardinality(S) \in Nat /\ Cardinality(T) \in Nat /\ Cardinality(S \cap T) \in Nat
      /\ Cardinality(S \cup T) \in Nat
  BY <1>1, <1>2, FS_CardinalityType
<1> QED
  BY <1>1, <1>3

\* The open claims are the handlers', the jobs' and the abandoned ones.
LEMMA OpenClaimsUnderway ==
  ASSUME TypeOK, HandlersServe, NEW t \in Ticket
  PROVE  /\ Cardinality(OpenClaimsOn(t)) \in Nat
         /\ Cardinality(OpenClaimsOn(t)) + Cardinality(Releasing(t)) <= Underway(t)
<1> DEFINE Handed == {req[q].user : q \in Handing(t)}
<1>1. OpenClaimsOn(t) \subseteq (Handed \cup Working(t)) \cup Abandoned(t)
  BY DEF OpenClaimsOn, ClaimsOn, Abandoned
<1>2. IsFiniteSet(Handed) /\ Cardinality(Handed) <= Cardinality(Handing(t))
      /\ Cardinality(Handed) \in Nat
  <2>1. [q \in Handing(t) |-> req[q].user] \in Surjection(Handing(t), Handed)
    BY DEF Surjection
  <2>2. IsFiniteSet(Handed) /\ Cardinality(Handed) <= Cardinality(Handing(t))
    BY <2>1, UnderwayFinite, FS_Surjection
  <2> QED
    BY <2>2, FS_CardinalityType
<1> HIDE DEF Handed
<1>3. /\ IsFiniteSet(Handed \cup Working(t)) /\ Cardinality(Handed \cup Working(t)) \in Nat
      /\ Cardinality(Handed \cup Working(t)) <= Cardinality(Handed) + Cardinality(Working(t))
  BY <1>2, UnderwayFinite, UnionBound
<1>4. /\ IsFiniteSet((Handed \cup Working(t)) \cup Abandoned(t))
      /\ Cardinality((Handed \cup Working(t)) \cup Abandoned(t)) \in Nat
      /\ Cardinality((Handed \cup Working(t)) \cup Abandoned(t))
           <= Cardinality(Handed \cup Working(t)) + Cardinality(Abandoned(t))
  BY <1>3, UnderwayFinite, UnionBound
<1>5. /\ Cardinality(OpenClaimsOn(t)) \in Nat
      /\ Cardinality(OpenClaimsOn(t))
           <= Cardinality((Handed \cup Working(t)) \cup Abandoned(t))
  BY <1>1, <1>4, FS_Subset, FS_CardinalityType
<1> QED
  BY <1>2, <1>3, <1>4, <1>5, UnderwayFinite DEF Underway

\* The invariant says at least what the cache promises.
LEMMA PlacesBound == ASSUME CacheInv PROVE CacheNeverOverAdmits
<1> SUFFICES ASSUME NEW t \in Ticket, remaining[t] # Missing
             PROVE  remaining[t] + Cardinality(OpenClaimsOn(t)) + reserved[t]
                      + Cardinality(Releasing(t)) <= Stock[t]
  BY DEF CacheNeverOverAdmits, Releasing
<1>1. remaining[t] + Underway(t) + reserved[t] <= Stock[t]
  BY DEF CacheInv, PlacesKept
<1>2. remaining[t] \in Nat /\ reserved[t] \in Nat /\ Stock[t] \in Nat
      /\ Underway(t) \in Nat /\ Cardinality(Releasing(t)) \in Nat
  BY GrabAssumption, UnderwayFinite DEF CacheInv, TypeOK, RedisType, DbType
<1>3. /\ Cardinality(OpenClaimsOn(t)) \in Nat
      /\ Cardinality(OpenClaimsOn(t)) + Cardinality(Releasing(t)) <= Underway(t)
  BY OpenClaimsUnderway DEF CacheInv
<1> QED
  BY <1>1, <1>2, <1>3

\* As long as the stock key, the jobs' locks and the worker's calls to Redis hold and
\* nothing is rewritten by the recovery timer, the cache lets no more through than there
\* is: whatever handlers die, jobs are evicted, keys expire, transactions fail or
\* requests are repeated, and for any users, tickets, stocks, handlers and slots.
THEOREM CacheSafe == Spec => []CacheLetsNoMoreThrough
<1> DEFINE Inv == TypeOK /\ (CacheKept => CacheInv)
<1>1. Init => Inv
  BY CacheInit DEF CacheInv
<1>2. Inv /\ TypeOK' /\ [Next]_vars => Inv'
  <2> SUFFICES ASSUME Inv, TypeOK', [Next]_vars, CacheKept' PROVE CacheInv'
    OBVIOUS
  <2>1. CacheKept
    BY DEF CacheKept, Next, vars
  <2>2. CASE Next
    BY <2>1, <2>2, CacheInvKept DEF Next
  <2>3. CASE UNCHANGED vars
    <3>1. CacheInv
      BY <2>1
    <3>2. \A x \in Ticket : Underway(x)' = Underway(x)
      BY <2>3 DEF vars, Underway, Handing, Working, Abandoned, Releasing, Covered
    <3>3. PlacesKept'
      BY <2>3, <3>1, <3>2 DEF vars, CacheInv, PlacesKept
    <3>4. HandlersServe' /\ WithinStock'
      BY <2>3, <3>1 DEF vars, CacheInv, HandlersServe, WithinStock
    <3>5. OneRunPerJob' /\ ReleasedAreCancelled' /\ rec'.pc = "idle"
      BY <2>3, <3>1 DEF vars, CacheInv, OneRunPerJob, JobOf, ReleasedAreCancelled
    <3> QED
      BY <3>3, <3>4, <3>5 DEF CacheInv
  <2> QED
    BY <2>2, <2>3
<1>3. Inv => CacheLetsNoMoreThrough
  BY PlacesBound DEF CacheLetsNoMoreThrough, CacheKept
<1> QED
  BY <1>1, <1>2, <1>3, TypeCorrect, PTL DEF Spec

-----------------------------------------------------------------------------
(* Every claim is somebody's work                                           *)

\* A claim is made by the handler that goes on to leave its job.
LEMMA ClaimSteps ==
  ASSUME TypeOK, Step, NEW u \in User, NEW t \in Ticket, pending'[u] = t
  PROVE  \/ pending[u] = t
         \/ \E q \in Req : /\ req'[q].user = u /\ req'[q].ticket = t
                           /\ req'[q].pc = "enqueue"
<1>a. pending \in [User -> Ticket \cup {None}] /\ None \notin Ticket
      /\ req \in [Req -> ReqRecord]
  BY GrabAssumption DEF TypeOK, RedisType, ReqType
<1>1. ASSUME NEW q \in Req, Reserve(q), ~UNCHANGED redis, pending[u] # t
      PROVE  req'[q].user = u /\ req'[q].ticket = t /\ req'[q].pc = "enqueue"
  <2>1. pending' = [pending EXCEPT ![req[q].user] = req[q].ticket] /\ GoReq(q, "enqueue")
    BY <1>1 DEF Reserve
  <2>2. req[q].user = u /\ req[q].ticket = t
    BY <1>a, <1>1, <2>1
  <2> QED
    BY <1>a, <2>1, <2>2 DEF GoReq, ReqRecord
<1>2. CASE UNCHANGED pending
  BY <1>2
<1>3. CASE \E v : pending' = [pending EXCEPT ![v] = None]
  BY <1>a, <1>3
<1>4. ASSUME ~UNCHANGED pending, ~\E v : pending' = [pending EXCEPT ![v] = None]
      PROVE  \E q \in Req : Reserve(q) /\ ~UNCHANGED redis
  BY <1>4 DEF Step, RequestStep, GrabReadTicket, GrabAssertNotRegistered, EnsureExists,
     EnsureScan, EnsureMGet, EnsureSetNX, Enqueue, EnqueueFails, CompensateRequest,
     RequestDies, WorkerStep, TakeJob, LookupExisting, ReadTicket, BookTx, BookTxFails,
     ScheduleExpiration, CompleteRun, CompleteFails, CompensateRun, RunFails, ReadDuplicated,
     CompleteThenCompensate, JobStalls, WorkerDies, OrderStep, ConfirmOrder, MarkNoShow,
     CancelOrder, ReleaseConfirmed, ReleaseLost, RecoveryStep, RehydrateSnapshot,
     ReconcileScan, ReconcileMGet, ReconcileSet, EnvStep, PendingExpires, FailureExpires,
     StockKeyLost, JobEvicted, SaleSwitches, CompensatePending, CompletePending, redis
<1> QED
  BY <1>1, <1>2, <1>3, <1>4

\* What a handler leaves of a claim it serves: its service, or a job under the claim's id.
LEMMA HandlerLeavesWork ==
  ASSUME TypeOK, Step, NEW u \in User, NEW t \in Ticket, Serving(u, t) # {},
         pending'[u] = t
  PROVE  WorkedOn(u, t)' \/ MeetsRetainedJob(u, t) \/ BreaksOff(u, t)
<1>a. /\ pending \in [User -> Ticket \cup {None}] /\ None \notin Ticket
      /\ req \in [Req -> ReqRecord]
      /\ job \in [User \X Ticket -> {"absent", "waiting", "active", "retained"}]
  BY GrabAssumption DEF TypeOK, RedisType, ReqType, QueueType
<1>b. PICK q \in Req : /\ req[q].user = u /\ req[q].ticket = t
                       /\ req[q].pc \in {"enqueue", "compensate"}
  BY DEF Serving
<1> SUFFICES \/ /\ req'[q].user = u /\ req'[q].ticket = t
                /\ req'[q].pc \in {"enqueue", "compensate"}
             \/ job'[<<u, t>>] \in {"waiting", "active"}
             \/ MeetsRetainedJob(u, t) \/ BreaksOff(u, t)
  BY DEF WorkedOn, Serving
<1>1. CASE UNCHANGED req
  BY <1>b, <1>1
<1>2. ASSUME NEW p \in Req, RequestStep(p), p # q
      PROVE  /\ req'[q].user = u /\ req'[q].ticket = t
             /\ req'[q].pc \in {"enqueue", "compensate"}
  BY <1>b, <1>2, HandlerSteps
<1>3. CASE Enqueue(q)
  <2>1. CASE job[<<u, t>>] = "absent"
    BY <1>a, <1>b, <1>3, <2>1 DEF Enqueue
  <2>2. CASE job[<<u, t>>] \in {"waiting", "active"}
    BY <1>b, <1>3, <2>2 DEF Enqueue
  <2>3. CASE job[<<u, t>>] = "retained"
    BY <1>b, <1>3, <2>3 DEF Enqueue, MeetsRetainedJob, Serving
  <2> QED
    BY <1>a, <2>1, <2>2, <2>3
<1>4. CASE EnqueueFails(q)
  BY <1>a, <1>b, <1>4 DEF EnqueueFails, GoReq, ReqRecord
<1>5. CASE CompensateRequest(q)
  <2>1. pending[u] # t => pending' = pending
    BY <1>b, <1>5 DEF CompensateRequest, CompensatePending, redis
  <2>2. pending[u] = t => pending' = [pending EXCEPT ![u] = None]
    BY <1>b, <1>5 DEF CompensateRequest, CompensatePending
  <2> QED
    BY <1>a, <2>1, <2>2
<1>6. CASE RequestDies(q)
  BY <1>a, <1>b, <1>6 DEF RequestDies, LeaveReq, IdleReq, BreaksOff, Serving
<1>7. \/ \E v \in User, x \in Ticket : GrabReadTicket(q, v, x)
      \/ GrabAssertNotRegistered(q) \/ EnsureExists(q) \/ EnsureScan(q) \/ EnsureMGet(q)
      \/ EnsureSetNX(q) \/ Reserve(q)
      => req[q].pc \notin {"enqueue", "compensate"}
  <2>1. \A v \in User, x \in Ticket : GrabReadTicket(q, v, x) => req[q].pc = "idle"
    BY DEF GrabReadTicket
  <2>2. GrabAssertNotRegistered(q) => req[q].pc = "check"
    BY DEF GrabAssertNotRegistered
  <2>3. EnsureExists(q) \/ EnsureScan(q) \/ EnsureMGet(q) \/ EnsureSetNX(q)
        => req[q].pc \in {"exists", "scan", "mget", "setnx"}
    BY DEF EnsureExists, EnsureScan, EnsureMGet, EnsureSetNX
  <2>4. Reserve(q) => req[q].pc = "reserve"
    BY DEF Reserve
  <2> QED
    BY <2>1, <2>2, <2>3, <2>4
<1>8. RequestStep(q) =>
        Enqueue(q) \/ EnqueueFails(q) \/ CompensateRequest(q) \/ RequestDies(q)
  BY <1>b, <1>7 DEF RequestStep
<1> QED
  BY <1>1, <1>2, <1>3, <1>4, <1>5, <1>6, <1>8, OthersKeepReq

\* A slot loses the lock of its job only as BullMQ takes the job for stalled.
LostIsStalled == \A w \in Slot : run[w].lost => "stall" \in faults

\* What a step does to the slots: none changes, or one goes on with its job, finishes it,
\* takes one, loses its lock, or dies.
LEMMA RunSteps ==
  ASSUME TypeOK, Step
  PROVE  \/ UNCHANGED run
         \/ \E w \in Slot :
              /\ \A v \in Slot \ {w} : run'[v] = run[v]
              /\ \/ /\ run[w].pc # "idle"
                    /\ run'[w].user = run[w].user /\ run'[w].ticket = run[w].ticket
                    /\ run'[w].lost = run[w].lost \/ "stall" \in faults
                 \/ run'[w] = IdleRun /\ (CompleteRun(w) \/ CompensateRun(w))
                 \/ run'[w] = IdleRun /\ (RunFails(w) \/ WorkerDies(w))
                 \/ run[w].pc = "idle" /\ ~run'[w].lost
<1>a. run \in [Slot -> RunRecord]
  BY DEF TypeOK, RunType
<1>1. CASE (\E q \in Req : RequestStep(q)) \/ (\E r \in RegId : OrderStep(r))
           \/ RecoveryStep \/ EnvStep
  BY <1>1 DEF RequestStep, GrabReadTicket, GrabAssertNotRegistered, EnsureExists, EnsureScan,
     EnsureMGet, EnsureSetNX, Reserve, Enqueue, EnqueueFails, CompensateRequest, RequestDies,
     OrderStep, ConfirmOrder, MarkNoShow, CancelOrder, ReleaseConfirmed, ReleaseLost,
     RecoveryStep, RehydrateSnapshot, ReconcileScan, ReconcileMGet, ReconcileSet, EnvStep,
     PendingExpires, FailureExpires, StockKeyLost, JobEvicted, SaleSwitches
<1>2. ASSUME NEW w \in Slot, WorkerStep(w)
      PROVE  /\ \A v \in Slot \ {w} : run'[v] = run[v]
             /\ \/ /\ run[w].pc # "idle"
                   /\ run'[w].user = run[w].user /\ run'[w].ticket = run[w].ticket
                   /\ run'[w].lost = run[w].lost \/ "stall" \in faults
                \/ run'[w] = IdleRun /\ (CompleteRun(w) \/ CompensateRun(w))
                \/ run'[w] = IdleRun /\ (RunFails(w) \/ WorkerDies(w))
                \/ run[w].pc = "idle" /\ ~run'[w].lost
  <2>1. CASE \E u \in User, t \in Ticket : TakeJob(w, u, t)
    BY <1>a, <2>1 DEF TakeJob
  <2>2. CASE LookupExisting(w) \/ ReadTicket(w) \/ BookTx(w) \/ BookTxFails(w)
             \/ ScheduleExpiration(w) \/ CompleteFails(w) \/ ReadDuplicated(w)
             \/ CompleteThenCompensate(w)
    <3>1. run[w].pc # "idle"
      BY <2>2 DEF LookupExisting, ReadTicket, BookTx, BookTxFails, ScheduleExpiration,
         CompleteFails, ReadDuplicated, CompleteThenCompensate
    <3>2. PICK pc \in RunPc : GoRun(w, pc)
      BY <2>2 DEF LookupExisting, ReadTicket, BookTx, BookTxFails, ScheduleExpiration,
         CompleteFails, ReadDuplicated, CompleteThenCompensate, RunPc
    <3>3. \A v \in Slot : run'[v] = IF v = w THEN [run[w] EXCEPT !.pc = pc] ELSE run[v]
      BY <1>a, <3>2 DEF GoRun
    <3>4. run'[w].user = run[w].user /\ run'[w].ticket = run[w].ticket
          /\ run'[w].lost = run[w].lost
      BY <1>a, <3>1, <3>3 DEF RunRecord, IdleRun
    <3> QED
      BY <3>1, <3>3, <3>4
  <2>3. CASE CompleteRun(w) \/ CompensateRun(w)
    BY <1>a, <2>3 DEF CompleteRun, CompensateRun, FinishRun
  <2>4. CASE RunFails(w)
    BY <1>a, <2>4 DEF RunFails, FinishRun
  <2>5. CASE WorkerDies(w)
    BY <1>a, <2>5 DEF WorkerDies
  <2>6. CASE JobStalls(w)
    <3>1. run[w].pc # "idle" /\ "stall" \in faults
      BY <2>6 DEF JobStalls
    <3>2. \A v \in Slot : run'[v] = IF v = w THEN [run[w] EXCEPT !.lost = TRUE] ELSE run[v]
      BY <1>a, <2>6 DEF JobStalls
    <3>3. run'[w].user = run[w].user /\ run'[w].ticket = run[w].ticket
      BY <1>a, <3>1, <3>2 DEF RunRecord, IdleRun
    <3> QED
      BY <3>1, <3>2, <3>3
  <2> QED
    BY <1>2, <2>1, <2>2, <2>3, <2>4, <2>5, <2>6 DEF WorkerStep
<1> QED
  BY <1>1, <1>2 DEF Step

\* A run that ends with an outcome has cleared the claim of its job.
LEMMA OutcomeClears ==
  ASSUME TypeOK, NEW w \in Slot, run[w].user \in User, run[w].ticket \in Ticket,
         CompleteRun(w) \/ CompensateRun(w)
  PROVE  pending'[run[w].user] # run[w].ticket
<1> DEFINE u == run[w].user
           t == run[w].ticket
<1>a. pending \in [User -> Ticket \cup {None}] /\ None \notin Ticket
  BY GrabAssumption DEF TypeOK, RedisType
<1>1. pending[u] # t => pending' = pending
  BY DEF CompleteRun, CompensateRun, CompletePending, CompensatePending, redis
<1>2. pending[u] = t => pending' = [pending EXCEPT ![u] = None]
  BY DEF CompleteRun, CompensateRun, CompletePending, CompensatePending
<1> QED
  BY <1>a, <1>1, <1>2

\* What a slot leaves of a claim whose job it runs.
LEMMA RunLeavesWork ==
  ASSUME TypeOK, LostIsStalled, Step, NEW u \in User, NEW t \in Ticket, Running(u, t) # {},
         pending'[u] = t
  PROVE  WorkedOn(u, t)' \/ BreaksOff(u, t)
<1>1. PICK v \in Slot : run[v].user = u /\ run[v].ticket = t
  BY DEF Running
<1>2. run[v].pc # "idle"
  BY <1>1, GrabAssumption DEF TypeOK, RunType, RunRecord, IdleRun
<1>3. CASE run'[v].user = u /\ run'[v].ticket = t
  BY <1>3 DEF WorkedOn, Running
<1>4. ASSUME NEW w \in Slot, w = v, CompleteRun(w) \/ CompensateRun(w) PROVE FALSE
  BY <1>1, <1>4, OutcomeClears
<1>5. ASSUME NEW w \in Slot, w = v, run'[w] = IdleRun, RunFails(w) \/ WorkerDies(w)
      PROVE  BreaksOff(u, t)
  <2>1. faults \cap {"tx", "redis", "stall"} # {}
    BY <1>5 DEF RunFails, WorkerDies, LostIsStalled
  <2> QED
    BY <1>1, <1>5, <2>1 DEF BreaksOff, Running, IdleRun
<1> QED
  BY <1>1, <1>2, <1>3, <1>4, <1>5, RunSteps

\* The steps that change the state of a job.
LEMMA JobSteps ==
  ASSUME Step
  PROVE  \/ UNCHANGED job
         \/ \E q \in Req : Enqueue(q)
         \/ \E w \in Slot :
              \/ \E x \in User, y \in Ticket : TakeJob(w, x, y)
              \/ CompleteRun(w) \/ CompensateRun(w) \/ RunFails(w) \/ JobStalls(w)
         \/ \E x \in User, y \in Ticket : JobEvicted(x, y)
<1>1. ASSUME NEW q \in Req, RequestStep(q) PROVE UNCHANGED job \/ Enqueue(q)
  <2>1. \A u \in User, t \in Ticket : GrabReadTicket(q, u, t) => UNCHANGED queue
    BY DEF GrabReadTicket
  <2>2. Reserve(q) => UNCHANGED queue
    BY DEF Reserve
  <2>3. GrabAssertNotRegistered(q) \/ EnsureExists(q) \/ EnsureScan(q) \/ EnsureSetNX(q)
        => UNCHANGED queue
    BY DEF GrabAssertNotRegistered, EnsureExists, EnsureScan, EnsureSetNX
  <2>4. EnsureMGet(q) \/ EnqueueFails(q) \/ CompensateRequest(q) \/ RequestDies(q)
        => UNCHANGED queue
    BY DEF EnsureMGet, EnqueueFails, CompensateRequest, RequestDies
  <2> QED
    BY <1>1, <2>1, <2>2, <2>3, <2>4 DEF RequestStep, queue
<1>2. ASSUME NEW w \in Slot, WorkerStep(w)
      PROVE  \/ UNCHANGED job
             \/ \E x \in User, y \in Ticket : TakeJob(w, x, y)
             \/ CompleteRun(w) \/ CompensateRun(w) \/ RunFails(w) \/ JobStalls(w)
  BY <1>2 DEF WorkerStep, LookupExisting, ReadTicket, BookTx, BookTxFails,
     ScheduleExpiration, CompleteFails, ReadDuplicated, CompleteThenCompensate, WorkerDies,
     queue
<1>3. ASSUME NEW r \in RegId, OrderStep(r) PROVE UNCHANGED job
  BY <1>3 DEF OrderStep, ConfirmOrder, MarkNoShow, CancelOrder, ReleaseConfirmed,
     ReleaseLost, queue
<1>4. RecoveryStep => UNCHANGED job
  <2>1. RehydrateSnapshot \/ ReconcileMGet \/ ReconcileSet => UNCHANGED queue
    BY DEF RehydrateSnapshot, ReconcileMGet, ReconcileSet
  <2>2. \A t \in Ticket : ReconcileScan(t) => UNCHANGED queue
    BY DEF ReconcileScan
  <2> QED
    BY <2>1, <2>2 DEF RecoveryStep, queue
<1>5. EnvStep => UNCHANGED job \/ \E x \in User, y \in Ticket : JobEvicted(x, y)
  BY DEF EnvStep, PendingExpires, FailureExpires, StockKeyLost, SaleSwitches, queue
<1> QED
  BY <1>1, <1>2, <1>3, <1>4, <1>5 DEF Step

\* A job that waits or is active does so after the step, or its slot has lost it or ended
\* it without an outcome; an outcome clears the claim.
LEMMA JobLeavesWork ==
  ASSUME TypeOK, Step, NEW u \in User, NEW t \in Ticket,
         job[<<u, t>>] \in {"waiting", "active"}, pending'[u] = t
  PROVE  WorkedOn(u, t)' \/ BreaksOff(u, t)
<1>a. /\ job \in [User \X Ticket -> {"absent", "waiting", "active", "retained"}]
      /\ run \in [Slot -> RunRecord]
  BY DEF TypeOK, QueueType, RunType
<1> SUFFICES \/ job'[<<u, t>>] \in {"waiting", "active"}
             \/ \E w \in Slot : run'[w].user = u /\ run'[w].ticket = t
             \/ BreaksOff(u, t)
  BY DEF WorkedOn, Running
<1>1. CASE UNCHANGED job
  BY <1>1
<1>2. CASE \E q \in Req : Enqueue(q)
  BY <1>a, <1>2 DEF Enqueue
<1>3. CASE \E x \in User, y \in Ticket : JobEvicted(x, y)
  BY <1>a, <1>3 DEF JobEvicted
<1>4. CASE \E w \in Slot, x \in User, y \in Ticket : TakeJob(w, x, y)
  BY <1>a, <1>4 DEF TakeJob
<1>5. ASSUME NEW w \in Slot, JobOf(w) # <<u, t>>,
             CompleteRun(w) \/ CompensateRun(w) \/ RunFails(w) \/ JobStalls(w)
      PROVE  job'[<<u, t>>] = job[<<u, t>>]
  BY <1>a, <1>5 DEF CompleteRun, CompensateRun, RunFails, FinishRun, JobStalls
<1>6. ASSUME NEW w \in Slot, JobOf(w) = <<u, t>>,
             CompleteRun(w) \/ CompensateRun(w) \/ RunFails(w) \/ JobStalls(w)
      PROVE  (run'[w].user = u /\ run'[w].ticket = t) \/ BreaksOff(u, t)
  <2>1. run[w].user = u /\ run[w].ticket = t
    BY <1>6 DEF JobOf
  <2>2. ~(CompleteRun(w) \/ CompensateRun(w))
    BY <2>1, OutcomeClears
  <2>3. CASE RunFails(w)
    <3>1. run'[w].pc = "idle" /\ faults \cap {"tx", "redis", "stall"} # {}
      BY <1>a, <2>3 DEF RunFails, FinishRun, IdleRun
    <3> QED
      BY <2>1, <3>1 DEF BreaksOff, Running
  <2>4. CASE JobStalls(w)
    BY <1>a, <2>1, <2>4, GrabAssumption DEF JobStalls, RunRecord, IdleRun
  <2> QED
    BY <1>6, <2>2, <2>3, <2>4
<1> QED
  BY <1>1, <1>2, <1>3, <1>4, <1>5, <1>6, JobSteps

\* A claim that stands in Redis is left without a job that waits or runs, a slot at work
\* and a handler only by a handler or a run of its own that breaks off, or by a job added
\* under a retained id: for any users, tickets, stocks, handlers and slots, and any faults.
THEOREM ClaimSafe == Spec => ClaimKeepsItsWork
<1>1. Init => LostIsStalled
  BY DEF Init, LostIsStalled, IdleRun
<1>2. TypeOK /\ LostIsStalled /\ [Next]_vars => LostIsStalled'
  <2> SUFFICES ASSUME TypeOK, LostIsStalled, [Next]_vars PROVE LostIsStalled'
    OBVIOUS
  <2>1. CASE UNCHANGED vars
    BY <2>1 DEF vars, LostIsStalled
  <2>2. CASE Next
    <3>1. Step /\ faults' = faults
      BY <2>2 DEF Next
    <3>2. ~IdleRun.lost
      BY DEF IdleRun
    <3> QED
      BY <3>1, <3>2, RunSteps DEF LostIsStalled
  <2> QED
    BY <2>1, <2>2
<1> DEFINE Keeps ==
      \A u \in User, t \in Ticket :
          /\ pending'[u] = t
          /\ pending[u] = t => WorkedOn(u, t)
          => WorkedOn(u, t)' \/ MeetsRetainedJob(u, t) \/ BreaksOff(u, t)
<1>3. TypeOK /\ LostIsStalled /\ [Next]_vars => [Keeps]_vars
  <2> SUFFICES ASSUME TypeOK, LostIsStalled, Step,
                      NEW u \in User, NEW t \in Ticket, pending'[u] = t,
                      pending[u] = t => WorkedOn(u, t)
               PROVE  WorkedOn(u, t)' \/ MeetsRetainedJob(u, t) \/ BreaksOff(u, t)
    BY DEF Next
  <2>1. CASE pending[u] # t
    BY <2>1, ClaimSteps DEF WorkedOn, Serving
  <2>2. CASE pending[u] = t
    BY <2>2, HandlerLeavesWork, RunLeavesWork, JobLeavesWork DEF WorkedOn
  <2> QED
    BY <2>1, <2>2
<1> QED
  BY <1>1, <1>2, <1>3, TypeCorrect, PTL DEF Spec, ClaimKeepsItsWork

-----------------------------------------------------------------------------
(* A grab that was accepted is seen by a poll                                *)

\* A set of natural numbers that is not empty has a least element.
LEMMA LeastNat ==
  ASSUME NEW T \in SUBSET Nat, T # {} PROVE \E m \in T : \A n \in T : m <= n
<1>1. PICK top \in T : TRUE
  OBVIOUS
<1> DEFINE Below(n) == 0..n
           Family == {Below(n) : n \in {k \in T : k <= top}}
<1>2. IsFiniteSet(Below(top)) /\ top \in Nat
  BY FS_Interval
<1>3. IsWellFoundedOn(StrictSubsetOrdering(Below(top)), SUBSET Below(top))
  BY <1>2, FS_StrictSubsetOrderingWellFounded, FS_FiniteSubsetsOfFinite
<1>4. Family \subseteq SUBSET Below(top) /\ Family # {}
  <2>1. \A n \in Nat : n <= top => Below(n) \subseteq Below(top)
    BY <1>2
  <2>2. Below(top) \in Family
    BY <1>2
  <2> QED
    BY <2>1, <2>2
<1>5. PICK least \in Family : \A other \in Family :
          ~(<<other, least>> \in StrictSubsetOrdering(Below(top)))
  <2> HIDE DEF Below, Family
  <2> QED
    BY <1>3, <1>4, WFMin
<1>6. PICK m \in T : m <= top /\ least = Below(m)
  BY <1>5
<1>7. ASSUME NEW n \in T, n < m PROVE FALSE
  <2>1. n \in Nat /\ m \in Nat /\ n <= top
    <3>1. n \in Nat /\ m \in Nat /\ top \in Nat /\ m <= top
      BY <1>6
    <3> QED
      BY <1>7, <3>1
  <2>2. Below(n) \in Family /\ Below(n) \subseteq Below(m)
    BY <1>7, <2>1
  <2>3. m \in Below(m) /\ m \notin Below(n)
    BY <1>7, <2>1
  <2>4. Below(n) # Below(m)
    BY <2>3
  <2> HIDE DEF Below, Family
  <2>5. <<Below(n), least>> \in StrictSubsetOrdering(Below(top))
    BY <1>4, <1>5, <1>6, <2>2, <2>4 DEF StrictSubsetOrdering
  <2> QED
    BY <1>5, <2>2, <2>5
<1>8. \A n \in T : m <= n
  BY <1>7
<1> QED
  BY <1>8

\* The user has a registration, whatever became of it.
HasRow(u) == \E r \in RegId : regs[r].user = u

\* One of the three places that a poll reads knows of the user.
Seen(u) == HasRow(u) \/ pending[u] # None \/ failure[u]

\* A user who has a registration has a latest one.
LEMMA LatestExists == ASSUME NEW u, HasRow(u) PROVE LatestOf(u) # {}
<1> DEFINE Bound == {n \in Nat : \A r \in RegId : regs[r].user = u => r <= n}
<1>1. PICK first \in RegId : regs[first].user = u
  BY DEF HasRow
<1>2. Cardinality(User) + MaxCancels \in Nat /\ RegId = 1..(Cardinality(User) + MaxCancels)
  BY GrabAssumption, FS_CardinalityType DEF RegId
<1>3. Cardinality(User) + MaxCancels \in Bound
  BY <1>2
<1>4. PICK m \in Bound : \A n \in Bound : m <= n
  BY <1>3, LeastNat
<1>5. m \in Nat /\ \A r \in RegId : regs[r].user = u => r <= m
  BY <1>4
<1>6. PICK r \in RegId : regs[r].user = u /\ r = m
  <2> SUFFICES ASSUME \A r \in RegId : regs[r].user = u => r # m PROVE FALSE
    OBVIOUS
  <2>1. first <= m /\ first >= 1 /\ first \in Nat
    BY <1>1, <1>2, <1>5
  <2>2. m - 1 \in Nat
    BY <1>5, <2>1
  <2>3. \A r \in RegId : regs[r].user = u => r <= m - 1
    BY <1>2, <1>5
  <2>4. m <= m - 1
    BY <1>4, <2>2, <2>3
  <2> QED
    BY <1>5, <2>4
<1>7. r \in LatestOf(u)
  BY <1>5, <1>6 DEF LatestOf
<1> QED
  BY <1>7

\* A poll knows of a user whom one of its three reads knows.
LEMMA SeenIsPolled ==
  ASSUME TypeOK, NEW u \in User, Seen(u) PROVE Poll(u) # "not_found"
<1>1. CASE LatestOf(u) # {}
  <2>1. (CHOOSE r \in LatestOf(u) : TRUE) \in RegId
    BY <1>1 DEF LatestOf
  <2>2. \A r \in RegId : regs[r].status # "not_found"
    BY DEF TypeOK, DbType, RegRecord, NoReg, ActiveStatus
  <2> QED
    BY <1>1, <2>1, <2>2 DEF Poll
<1>2. CASE LatestOf(u) = {}
  <2>1. pending[u] # None \/ failure[u]
    BY <1>2, LatestExists DEF Seen
  <2> QED
    BY <1>2, <2>1 DEF Poll
<1> QED
  BY <1>1, <1>2

\* The runs that found a registration of their user, or made one.
Registered == {"existing", "schedule", "complete", "duplicate", "completeThenCompensate"}

\* Who is under way is seen, and who is to be cleared has a registration.
VisInv ==
    /\ TypeOK /\ HandlersServe
    /\ \A q \in Req : req[q].pc = "enqueue" => Seen(req[q].user)
    /\ \A u \in User, t \in Ticket : job[<<u, t>>] \in {"waiting", "active"} => Seen(u)
    /\ \A w \in Slot : /\ run[w].pc # "idle" => Seen(run[w].user)
                       /\ run[w].pc \in Registered => HasRow(run[w].user)

\* A registration is never taken from its user, nor deleted.
LEMMA RowsStay ==
  ASSUME TypeOK, Step, NEW u \in User, HasRow(u) PROVE HasRow(u)'
<1>a. regs \in [RegId -> RegRecord] /\ u # None
  BY GrabAssumption DEF TypeOK, DbType
<1>1. PICK r \in RegId : regs[r].user = u
  BY DEF HasRow
<1>2. CASE UNCHANGED regs
  BY <1>1, <1>2 DEF HasRow
<1>3. ASSUME NEW s \in RegId, NEW c, regs' = [regs EXCEPT ![s].status = c] PROVE HasRow(u)'
  <2>1. regs'[r].user = u
    BY <1>a, <1>1, <1>3 DEF RegRecord, NoReg
  <2> QED
    BY <2>1 DEF HasRow
<1>4. ASSUME NEW s \in FreeReg, NEW c, regs' = [regs EXCEPT ![s] = c] PROVE HasRow(u)'
  <2>1. regs[s].user = None
    BY FreeRegIsFree DEF NoReg
  <2>2. regs'[r].user = u
    BY <1>a, <1>1, <1>4, <2>1
  <2> QED
    BY <2>2 DEF HasRow
<1>5. ASSUME NEW w \in Slot, BookTx(w)
      PROVE  UNCHANGED regs \/ \E s \in FreeReg : \E c : regs' = [regs EXCEPT ![s] = c]
  BY <1>5 DEF BookTx, db
<1>6. ASSUME NEW s \in RegId, OrderStep(s)
      PROVE  UNCHANGED regs \/ \E c : regs' = [regs EXCEPT ![s].status = c]
  BY <1>6 DEF OrderStep, ConfirmOrder, MarkNoShow, CancelOrder, ReleaseConfirmed,
     ReleaseLost, db
<1>7. \/ UNCHANGED regs
      \/ \E w \in Slot : BookTx(w)
      \/ \E s \in RegId : OrderStep(s)
  BY DEF Step, RequestStep, GrabReadTicket, GrabAssertNotRegistered, EnsureExists,
     EnsureScan, EnsureMGet, EnsureSetNX, Reserve, Enqueue, EnqueueFails, CompensateRequest,
     RequestDies, WorkerStep, TakeJob, LookupExisting, ReadTicket, BookTxFails,
     ScheduleExpiration, CompleteRun, CompleteFails, CompensateRun, RunFails, ReadDuplicated,
     CompleteThenCompensate, JobStalls, WorkerDies, RecoveryStep, RehydrateSnapshot,
     ReconcileScan, ReconcileMGet, ReconcileSet, EnvStep, PendingExpires, FailureExpires,
     StockKeyLost, JobEvicted, SaleSwitches, db
<1> QED
  BY <1>2, <1>3, <1>4, <1>5, <1>6, <1>7

\* Where no key expires, whoever is seen stays so: a claim is completed only for a user
\* with a registration, and compensated only for a failure.
LEMMA SeenStays ==
  ASSUME VisInv, "ttl" \notin faults, Step, NEW u \in User, Seen(u) PROVE Seen(u)'
<1>a. /\ pending \in [User -> Ticket \cup {None}] /\ None \notin Ticket
      /\ failure \in [User -> BOOLEAN] /\ TypeOK
  BY GrabAssumption DEF VisInv, TypeOK, RedisType
<1>b. ASSUME HasRow(u) PROVE Seen(u)'
  BY <1>a, <1>b, RowsStay DEF Seen
<1>1. CASE pending'[u] = pending[u] /\ failure'[u] = failure[u]
  BY <1>b, <1>1 DEF Seen
<1>2. ASSUME NEW v, NEW t, CompensatePending(v, t) PROVE Seen(u)'
  <2>1. CASE pending[v] = t /\ v = u
    <3>1. failure'[u] = TRUE
      BY <1>a, <1>2, <2>1 DEF CompensatePending
    <3> QED
      BY <3>1 DEF Seen
  <2>2. CASE ~(pending[v] = t /\ v = u)
    BY <1>a, <1>1, <1>2, <2>2 DEF CompensatePending, redis
  <2> QED
    BY <2>1, <2>2
<1>3. ASSUME NEW v, NEW t, HasRow(v), CompletePending(v, t) PROVE Seen(u)'
  <2>1. CASE v = u
    BY <1>b, <1>3, <2>1
  <2>2. CASE v # u
    BY <1>a, <1>1, <1>3, <2>2 DEF CompletePending, redis
  <2> QED
    BY <2>1, <2>2
<1>4. ASSUME NEW q \in Req, RequestStep(q) PROVE Seen(u)'
  <2>1. CASE Reserve(q) /\ ~UNCHANGED redis
    <3>1. /\ pending' = [pending EXCEPT ![req[q].user] = req[q].ticket]
          /\ failure' = [failure EXCEPT ![req[q].user] = FALSE]
          /\ req[q].ticket \in Ticket
      BY <2>1 DEF Reserve, VisInv, HandlersServe
    <3>2. CASE req[q].user = u
      <4>1. pending'[u] # None
        BY <1>a, <3>1, <3>2
      <4> QED
        BY <4>1 DEF Seen
    <3>3. CASE req[q].user # u
      BY <1>a, <1>1, <3>1, <3>3
    <3> QED
      BY <3>2, <3>3
  <2>2. CASE CompensateRequest(q)
    BY <1>2, <2>2 DEF CompensateRequest
  <2>3. CASE UNCHANGED <<pending, failure>>
    BY <1>1, <2>3
  <2> QED
    BY <1>4, <2>1, <2>2, <2>3 DEF RequestStep, GrabReadTicket, GrabAssertNotRegistered,
       EnsureExists, EnsureScan, EnsureMGet, EnsureSetNX, Enqueue, EnqueueFails, RequestDies,
       Reserve, redis
<1>5. ASSUME NEW w \in Slot, WorkerStep(w) PROVE Seen(u)'
  <2>1. CASE CompleteRun(w) \/ CompleteThenCompensate(w)
    <3>1. HasRow(run[w].user) /\ CompletePending(run[w].user, run[w].ticket)
      BY <2>1 DEF CompleteRun, CompleteThenCompensate, VisInv, Registered
    <3> QED
      BY <1>3, <3>1
  <2>2. CASE CompensateRun(w)
    BY <1>2, <2>2 DEF CompensateRun
  <2>3. CASE UNCHANGED <<pending, failure>>
    BY <1>1, <2>3
  <2> QED
    BY <1>5, <2>1, <2>2, <2>3 DEF WorkerStep, TakeJob, LookupExisting, ReadTicket, BookTx,
       BookTxFails, ScheduleExpiration, CompleteFails, RunFails, ReadDuplicated, JobStalls,
       WorkerDies, redis
<1>6. ASSUME NEW r \in RegId, OrderStep(r) PROVE Seen(u)'
  <2>1. CASE ReleaseConfirmed(r)
    <3>1. CASE regs[r].user = u
      BY <1>b, <3>1 DEF HasRow
    <3>2. CASE regs[r].user # u
      BY <1>a, <1>1, <2>1, <3>2 DEF ReleaseConfirmed
    <3> QED
      BY <3>1, <3>2
  <2> QED
    BY <1>1, <1>6, <2>1 DEF OrderStep, ConfirmOrder, MarkNoShow, CancelOrder, ReleaseLost, redis
<1>7. CASE RecoveryStep \/ EnvStep
  BY <1>1, <1>7 DEF RecoveryStep, RehydrateSnapshot, ReconcileScan, ReconcileMGet,
     ReconcileSet, EnvStep, PendingExpires, FailureExpires, StockKeyLost, JobEvicted,
     SaleSwitches, redis
<1> QED
  BY <1>4, <1>5, <1>6, <1>7 DEF Step

\* A job waits or runs only if it did before, or the handler of its claim has just left
\* it, or a run of it has lost its lock.
LEMMA JobsComeFrom ==
  ASSUME TypeOK, Step, NEW u \in User, NEW t \in Ticket,
         job'[<<u, t>>] \in {"waiting", "active"}
  PROVE  \/ job[<<u, t>>] \in {"waiting", "active"}
         \/ \E q \in Req : req[q].pc = "enqueue" /\ req[q].user = u
         \/ \E w \in Slot : run[w].pc # "idle" /\ run[w].user = u
<1>a. job \in [User \X Ticket -> {"absent", "waiting", "active", "retained"}]
  BY DEF TypeOK, QueueType
<1>1. CASE job'[<<u, t>>] = job[<<u, t>>]
  BY <1>1
<1>2. ASSUME NEW q \in Req, RequestStep(q), job'[<<u, t>>] # job[<<u, t>>]
      PROVE  req[q].pc = "enqueue" /\ req[q].user = u
  <2>1. Enqueue(q)
    BY <1>2 DEF RequestStep, GrabReadTicket, GrabAssertNotRegistered, EnsureExists,
       EnsureScan, EnsureMGet, EnsureSetNX, Reserve, EnqueueFails, CompensateRequest,
       RequestDies, queue
  <2> QED
    BY <1>a, <1>2, <2>1 DEF Enqueue
<1>3. ASSUME NEW w \in Slot, WorkerStep(w), job'[<<u, t>>] # job[<<u, t>>]
      PROVE  \/ job[<<u, t>>] \in {"waiting", "active"}
             \/ run[w].pc # "idle" /\ run[w].user = u
  <2>1. CASE \E v \in User, s \in Ticket : TakeJob(w, v, s)
    BY <1>a, <1>3, <2>1 DEF TakeJob
  <2>2. CASE CompleteRun(w) \/ CompensateRun(w) \/ RunFails(w)
    BY <1>a, <2>2 DEF CompleteRun, CompensateRun, RunFails, FinishRun
  <2>3. CASE JobStalls(w)
    BY <1>a, <1>3, <2>3 DEF JobStalls, JobOf
  <2> QED
    BY <1>3, <2>1, <2>2, <2>3 DEF WorkerStep, LookupExisting, ReadTicket, BookTx, BookTxFails,
       ScheduleExpiration, CompleteFails, ReadDuplicated, CompleteThenCompensate, WorkerDies,
       queue
<1>4. ASSUME (\E r \in RegId : OrderStep(r)) \/ RecoveryStep \/ EnvStep
      PROVE  job' = job \/ \E v \in User, s \in Ticket : JobEvicted(v, s)
  BY <1>4 DEF OrderStep, ConfirmOrder, MarkNoShow, CancelOrder, ReleaseConfirmed, ReleaseLost,
     RecoveryStep, RehydrateSnapshot, ReconcileScan, ReconcileMGet, ReconcileSet, EnvStep,
     PendingExpires, FailureExpires, StockKeyLost, SaleSwitches, queue
<1>5. CASE \E v \in User, s \in Ticket : JobEvicted(v, s)
  BY <1>a, <1>5 DEF JobEvicted
<1> QED
  BY <1>1, <1>2, <1>3, <1>4, <1>5 DEF Step

\* A handler comes to leave a job only with the claim it has just made.
LEMMA HandlersAreSeen ==
  ASSUME VisInv, "ttl" \notin faults, Step, NEW q \in Req, req'[q].pc = "enqueue"
  PROVE  Seen(req[q].user)' /\ req'[q].user = req[q].user
<1>a. TypeOK /\ HandlersServe /\ req \in [Req -> ReqRecord]
      /\ pending \in [User -> Ticket \cup {None}] /\ None \notin Ticket
  BY GrabAssumption DEF VisInv, TypeOK, ReqType, RedisType
<1>1. CASE req'[q] = req[q]
  <2>1. req[q].user \in User /\ Seen(req[q].user)
    BY <1>a, <1>1 DEF VisInv, HandlersServe
  <2>2. PICK u \in User : u = req[q].user
    BY <2>1
  <2>3. Seen(u)'
    BY <2>1, <2>2, SeenStays
  <2> QED
    BY <1>1, <2>2, <2>3 DEF Seen, HasRow
<1>2. ASSUME req'[q] # req[q]
      PROVE  Reserve(q) /\ ~UNCHANGED redis
  <2>1. RequestStep(q)
    BY <1>a, <1>2, HandlerSteps, OthersKeepReq
  <2>2. LeaveReq(q) => req'[q].pc = "idle"
    BY <1>a DEF LeaveReq, IdleReq
  <2>3. \A pc : GoReq(q, pc) => req'[q].pc = pc
    BY <1>a DEF GoReq, ReqRecord
  <2>4. ~\E u \in User, t \in Ticket : GrabReadTicket(q, u, t)
    BY <1>a DEF GrabReadTicket, IdleReq
  <2>5. ~EnsureScan(q) /\ ~EnsureMGet(q) /\ ~EnsureSetNX(q)
    BY <1>a DEF EnsureScan, EnsureMGet, EnsureSetNX, ReqRecord
  <2>6. ~(GrabAssertNotRegistered(q) \/ EnsureExists(q) \/ Enqueue(q) \/ EnqueueFails(q)
          \/ CompensateRequest(q) \/ RequestDies(q))
    BY <2>2, <2>3 DEF GrabAssertNotRegistered, EnsureExists, Enqueue, EnqueueFails,
       CompensateRequest, RequestDies
  <2>7. Reserve(q)
    BY <2>1, <2>4, <2>5, <2>6 DEF RequestStep
  <2>8. req' # [req EXCEPT ![q] = [@ EXCEPT !.pc = "exists", !.retried = TRUE]]
    BY <1>a DEF ReqRecord
  <2>9. CASE UNCHANGED redis
    <3>1. /\ pending[req[q].user] = None => pending'[req[q].user] = None
          /\ req[q].user \in User /\ req[q].ticket \in Ticket
      BY <1>a, <2>7, <2>9 DEF Reserve, HandlersServe, redis
    <3>2. pending' = [pending EXCEPT ![req[q].user] = req[q].ticket]
            => pending'[req[q].user] = req[q].ticket
      BY <1>a, <3>1
    <3> QED
      BY <1>a, <2>2, <2>7, <2>8, <3>1, <3>2 DEF Reserve
  <2> QED
    BY <2>7, <2>9
<1>3. CASE req'[q] # req[q]
  <2>1. /\ pending' = [pending EXCEPT ![req[q].user] = req[q].ticket] /\ GoReq(q, "enqueue")
        /\ req[q].pc = "reserve"
    BY <1>2, <1>3 DEF Reserve
  <2>2. req[q].user \in User /\ req[q].ticket \in Ticket
    BY <1>a, <2>1 DEF HandlersServe
  <2>3. pending'[req[q].user] # None
    BY <1>a, <2>1, <2>2
  <2>4. req'[q].user = req[q].user
    BY <1>a, <2>1 DEF GoReq, ReqRecord
  <2> QED
    BY <2>3, <2>4 DEF Seen
<1> QED
  BY <1>1, <1>3

\* A slot goes on for its user, or takes a job, and comes to clear a claim only where
\* a registration was found or made.
LEMMA RunsAreSeen ==
  ASSUME VisInv, TypeOK', "ttl" \notin faults, Step, NEW w \in Slot, run'[w].pc # "idle"
  PROVE  /\ run'[w].user \in User /\ Seen(run[w].user)'
         /\ run'[w].pc \in Registered => HasRow(run[w].user)'
<1>a. TypeOK /\ run \in [Slot -> RunRecord] /\ regs \in [RegId -> RegRecord]
  BY DEF VisInv, TypeOK, RunType, DbType
<1>b. run'[w].user \in User
  BY DEF TypeOK, RunType, RunRecord, IdleRun
<1>c. PICK u \in User : u = run'[w].user
  BY <1>b
<1> SUFFICES Seen(u)' /\ (run'[w].pc \in Registered => HasRow(u)')
  BY <1>c DEF Seen, HasRow
<1>1. CASE /\ run[w].user = u /\ run[w].pc # "idle"
           /\ run'[w].pc \in Registered => run[w].pc \in Registered \/ HasRow(u) \/ HasRow(u)'
  <2>1. Seen(u) /\ (run[w].pc \in Registered => HasRow(u))
    BY <1>1 DEF VisInv
  <2> QED
    BY <1>a, <1>1, <2>1, SeenStays, RowsStay
<1>2. ASSUME NEW t \in Ticket, TakeJob(w, u, t) PROVE Seen(u)' /\ run'[w].pc \notin Registered
  <2>1. job[<<u, t>>] = "waiting" /\ run'[w].pc = "lookup"
    BY <1>a, <1>2 DEF TakeJob
  <2>2. Seen(u)
    BY <2>1 DEF VisInv
  <2> QED
    BY <2>1, <2>2, SeenStays DEF Registered
<1>3. CASE run'[w] = run[w]
  BY <1>1, <1>3, <1>c
<1>4. ASSUME NEW pc, GoRun(w, pc), run[w].pc # "idle"
      PROVE  run[w].user = u /\ run'[w].pc = pc
  BY <1>a, <1>4, <1>c DEF GoRun, RunRecord, IdleRun
<1>5. ActiveOf(run[w].user) # {} => HasRow(run[w].user)
  BY DEF ActiveOf, HasRow
<1>6. CASE WorkerStep(w)
  <2>1. CASE \E v \in User, s \in Ticket : TakeJob(w, v, s)
    <3>1. PICK v \in User, s \in Ticket : TakeJob(w, v, s)
      BY <2>1
    <3>2. v = u
      BY <1>a, <1>c, <3>1 DEF TakeJob
    <3> QED
      BY <1>2, <3>1, <3>2
  <2>2. CASE LookupExisting(w) \/ ReadTicket(w) \/ BookTxFails(w) \/ ScheduleExpiration(w)
             \/ CompleteFails(w) \/ ReadDuplicated(w) \/ CompleteThenCompensate(w)
    <3>1. PICK pc : GoRun(w, pc) /\ run[w].pc # "idle"
      BY <2>2 DEF LookupExisting, ReadTicket, BookTxFails, ScheduleExpiration, CompleteFails,
         ReadDuplicated, CompleteThenCompensate
    <3>2. run[w].user = u /\ run'[w].pc = pc
      BY <1>4, <3>1
    <3>3. run'[w].pc \in Registered => run[w].pc \in Registered \/ HasRow(u)
      BY <1>4, <1>5, <2>2, <3>2 DEF LookupExisting, ReadTicket, BookTxFails,
         ScheduleExpiration, CompleteFails, ReadDuplicated, CompleteThenCompensate, Registered
    <3> QED
      BY <1>1, <3>1, <3>2, <3>3
  <2>3. CASE BookTx(w)
    <3>1. PICK pc : GoRun(w, pc) /\ run[w].pc # "idle"
      BY <2>3 DEF BookTx
    <3>2. run[w].user = u /\ run'[w].pc = pc
      BY <1>4, <3>1
    <3>3. CASE GoRun(w, "compensate")
      BY <1>1, <1>4, <3>1, <3>2, <3>3 DEF Registered
    <3>4. CASE ViolatesUniqueIndex(run[w].user)
      BY <1>1, <1>5, <3>1, <3>2, <3>4 DEF ViolatesUniqueIndex
    <3>5. CASE \E r \in FreeReg : regs' = [regs EXCEPT ![r] =
                 [user |-> run[w].user, ticket |-> run[w].ticket,
                  status |-> IF run[w].ticket \in Paid THEN "PENDING_CONFIRMATION"
                                                       ELSE "CONFIRMED"]]
      <4>1. PICK r \in FreeReg : regs' = [regs EXCEPT ![r] =
                 [user |-> run[w].user, ticket |-> run[w].ticket,
                  status |-> IF run[w].ticket \in Paid THEN "PENDING_CONFIRMATION"
                                                       ELSE "CONFIRMED"]]
        BY <3>5
      <4>2. r \in RegId /\ regs'[r].user = u
        BY <1>a, <3>2, <4>1, FreeRegIsFree
      <4>3. HasRow(u)'
        BY <4>2 DEF HasRow
      <4> QED
        BY <1>1, <3>1, <3>2, <4>3
    <3> QED
      BY <2>3, <3>3, <3>4, <3>5 DEF BookTx
  <2>4. CASE CompleteRun(w) \/ CompensateRun(w) \/ RunFails(w) \/ WorkerDies(w)
    <3>1. run' = [run EXCEPT ![w] = IdleRun]
      BY <2>4 DEF CompleteRun, CompensateRun, RunFails, WorkerDies, FinishRun
    <3> QED
      BY <1>a, <3>1 DEF IdleRun
  <2>5. CASE JobStalls(w)
    <3>1. run[w].pc # "idle" /\ run' = [run EXCEPT ![w].lost = TRUE]
      BY <2>5 DEF JobStalls
    <3>2. run'[w].user = run[w].user /\ run'[w].pc = run[w].pc
      BY <1>a, <3>1 DEF RunRecord, IdleRun
    <3> QED
      BY <1>1, <1>c, <3>1, <3>2
  <2> QED
    BY <1>6, <2>1, <2>2, <2>3, <2>4, <2>5 DEF WorkerStep
<1>7. ASSUME NEW v \in Slot, v # w, WorkerStep(v) PROVE run'[w] = run[w]
  BY <1>a, <1>7 DEF WorkerStep, TakeJob, LookupExisting, ReadTicket, BookTx, BookTxFails,
     ScheduleExpiration, CompleteRun, CompleteFails, CompensateRun, RunFails, ReadDuplicated,
     CompleteThenCompensate, JobStalls, WorkerDies, FinishRun, GoRun
<1>8. run' = run \/ \E v \in Slot : WorkerStep(v)
  BY DEF Step, RequestStep, GrabReadTicket, GrabAssertNotRegistered, EnsureExists,
     EnsureScan, EnsureMGet, EnsureSetNX, Reserve, Enqueue, EnqueueFails, CompensateRequest,
     RequestDies, OrderStep, ConfirmOrder, MarkNoShow, CancelOrder, ReleaseConfirmed,
     ReleaseLost, RecoveryStep, RehydrateSnapshot, ReconcileScan, ReconcileMGet, ReconcileSet,
     EnvStep, PendingExpires, FailureExpires, StockKeyLost, JobEvicted, SaleSwitches
<1> QED
  BY <1>3, <1>6, <1>7, <1>8

\* Every step keeps it, where no key expires.
LEMMA VisKept ==
  ASSUME VisInv, TypeOK', "ttl" \notin faults, Step PROVE VisInv'
<1>1. HandlersServe'
  BY ServeKept DEF VisInv
<1>2. ASSUME NEW q \in Req, req'[q].pc = "enqueue" PROVE Seen(req[q].user)'
  BY <1>2, HandlersAreSeen DEF Seen, HasRow
<1>3. ASSUME NEW u \in User, NEW t \in Ticket, job'[<<u, t>>] \in {"waiting", "active"}
      PROVE  Seen(u)'
  <2>1. Seen(u)
    BY <1>3, JobsComeFrom DEF VisInv
  <2> QED
    BY <2>1, SeenStays
<1>4. \A w \in Slot : /\ run'[w].pc # "idle" => Seen(run[w].user)'
                      /\ run'[w].pc \in Registered => HasRow(run[w].user)'
  BY RunsAreSeen DEF Registered
<1> QED
  BY <1>1, <1>2, <1>3, <1>4 DEF VisInv

\* Where no key reaches its TTL, a poll finds every grab that was accepted and is still
\* worked on, for any users, tickets, stocks, handlers and slots, and whatever handlers,
\* workers, transactions or calls fail.
THEOREM GrabSeen == Spec => []GrabIsVisible
<1> DEFINE Inv == TypeOK /\ ("ttl" \notin faults => VisInv)
<1>1. Init => Inv
  <2> SUFFICES ASSUME Init PROVE VisInv
    BY TypeInit
  <2>1. HandlersServe
    BY DEF Init, HandlersServe, IdleReq
  <2> QED
    BY <2>1, TypeInit DEF Init, VisInv, IdleReq, IdleRun, Registered
<1>2. Inv /\ TypeOK' /\ [Next]_vars => Inv'
  <2> SUFFICES ASSUME Inv, TypeOK', [Next]_vars, "ttl" \notin faults' PROVE VisInv'
    OBVIOUS
  <2>1. "ttl" \notin faults
    BY DEF Next, vars
  <2>2. CASE Next
    BY <2>1, <2>2, VisKept DEF Next
  <2>3. CASE UNCHANGED vars
    BY <2>1, <2>3 DEF vars, VisInv, HandlersServe, Seen, HasRow
  <2> QED
    BY <2>2, <2>3
<1>3. Inv => GrabIsVisible
  BY SeenIsPolled DEF GrabIsVisible, AcceptedGrabIsVisible, VisInv
<1> QED
  BY <1>1, <1>2, <1>3, TypeCorrect, PTL DEF Spec
=============================================================================
