--------------------------- MODULE OrderLifecycle ---------------------------
(***************************************************************************)
(* The order centre and the mock payments of activity orders: handlers     *)
(* that confirm, cancel, expire or mark an order, payment callbacks, the   *)
(* BullMQ job that expires an unpaid order, and the timer that schedules   *)
(* lost expirations again.  A handler reads the order, checks the          *)
(* transition, and commits it on condition that status and version are     *)
(* still those it read; every read, transaction and queue call is a step.  *)
(***************************************************************************)
EXTENDS Integers, FiniteSets

CONSTANTS
    Order,       \* activity orders, created before the behaviour starts
    Paid,        \* those with totalAmountCents > 0
    Handler,     \* API handlers that may be in flight at once
    Slot,        \* slots of the expiration worker (its concurrency)
    MaxRecords,  \* bound: payment records of one order
    Faults,      \* the faults this instance allows
    None         \* "no order"

\* "api": an API handler dies, or a call of it fails.  "db": the transaction of an
\* expiration job fails.  "redis": a call that schedules or removes a job fails.
\* "worker": the worker process dies.
FaultKind == {"api", "db", "redis", "worker"}

ASSUME OrderAssumption ==
    /\ Paid \subseteq Order
    /\ MaxRecords \in Nat \ {0}
    /\ Faults \subseteq FaultKind
    /\ None \notin Order
    /\ Handler \cap Slot = {}

Actor == Handler \cup Slot
RecordId == 1..MaxRecords

VARIABLES
    status,      \* Order.status
    version,     \* Order.version
    overdue,     \* the orders whose expireAt has passed
    record,      \* PaymentRecord rows of an order, by order of creation
    creating,    \* the orders whose creator has still to schedule the expiration
    compensated, \* PaymentCompensationLog: the order status it keeps, or "none"
    job,         \* BullMQ: the expiration job of an order
    act,         \* the handlers and the worker slots
    timer        \* the rehydration timer of the worker process

vars == <<status, version, overdue, record, creating, compensated, job, act, timer>>
rest == <<overdue, creating, timer>>
rows == <<status, version, record>>

Status == {"PENDING_CONFIRMATION", "CONFIRMED", "CANCELLED", "NO_SHOW"}
PayStatus == {"PENDING", "PAID", "FAILED"}

NoRecord == [state |-> "none", numbered |-> FALSE]

\* "timeout" is the expiration job's transition, "expire" the same one asked for
\* through the internal endpoint.
Kind == {"confirm", "pay", "cancel", "noShow", "expire", "timeout"}

AllowedFrom(kind) ==
    IF kind = "cancel" THEN {"PENDING_CONFIRMATION", "CONFIRMED"}
    ELSE IF kind = "noShow" THEN {"CONFIRMED"}
    ELSE {"PENDING_CONFIRMATION"}

Target(kind) ==
    IF kind \in {"confirm", "pay"} THEN "CONFIRMED"
    ELSE IF kind = "noShow" THEN "NO_SHOW"
    ELSE "CANCELLED"

IdleAct == [pc |-> "idle", kind |-> "none", order |-> None,
            status |-> "none", version |-> 0, record |-> 0, state |-> "none",
            answer |-> "none"]

IdleTimer == [pc |-> "idle", todo |-> {}, order |-> None]

ActPc == {"idle", "load", "commit", "unschedule", "finish", "order", "recheck",
          "reorder", "compensate", "find", "create", "number", "answered"}

ActRecord ==
    [pc : ActPc, kind : Kind \cup {"none", "start"}, order : Order \cup {None},
     status : Status \cup {"none"}, version : Nat, record : Nat,
     state : PayStatus \cup {"none"},
     answer : {"none", "ok", "badRequest", "conflict", "late"}]

\* An actor at work has an order, and a transition that was let through has a
\* status it may start from; a payment's is for a record that exists.
AtWork(x) ==
    /\ x.pc # "idle" => x.order \in Order
    /\ x.pc \in {"load", "commit", "unschedule"} => x.kind \in Kind
    /\ x.pc = "commit" => x.status \in AllowedFrom(x.kind)
    /\ x.kind = "pay" => x.record \in RecordId
    /\ x.pc = "number" => x.record \in RecordId
    /\ x.pc \in {"order", "recheck", "reorder", "compensate", "answered"} => x.kind = "pay"
    /\ x.pc \in {"find", "create", "number"} => x.kind = "start"

RecordRow == [state : PayStatus \cup {"none"}, numbered : BOOLEAN]

RowsType ==
    /\ status \in [Order -> Status]
    /\ version \in [Order -> Nat]
    /\ record \in [Order -> [RecordId -> RecordRow]]

JobType == job \in [Order -> {"absent", "delayed", "active", "finished"}]

ActType ==
    /\ act \in [Actor -> ActRecord]
    /\ \A a \in Actor : AtWork(act[a])

TimerType ==
    /\ timer \in [pc : {"idle", "remove", "add"}, todo : SUBSET Order,
                  order : Order \cup {None}]
    /\ timer.pc = "add" => timer.order \in Order

TypeOK ==
    /\ RowsType /\ JobType /\ ActType /\ TimerType
    /\ overdue \subseteq Order
    /\ creating \subseteq Order
    /\ compensated \in [Order -> Status \cup {"none"}]

\* processQueuedRegistration has committed the orders: a paid one is pending, has
\* a payment record without a transaction number, and its expiration is scheduled
\* next; a free one is confirmed.
Init ==
    /\ status = [o \in Order |-> IF o \in Paid THEN "PENDING_CONFIRMATION"
                                               ELSE "CONFIRMED"]
    /\ version = [o \in Order |-> 0]
    /\ overdue = {}
    /\ record = [o \in Order |-> [r \in RecordId |->
                    IF o \in Paid /\ r = 1
                    THEN [state |-> "PENDING", numbered |-> FALSE]
                    ELSE NoRecord]]
    /\ compensated = [o \in Order |-> "none"]
    /\ creating = Paid
    /\ job = [o \in Order |-> "absent"]
    /\ act = [a \in Actor |-> IdleAct]
    /\ timer = IdleTimer

-----------------------------------------------------------------------------
(* transitionOrder *)

Become(a, r) == act' = [act EXCEPT ![a] = r]
Leave(a) == Become(a, IdleAct)

\* A callback keeps its answer for the properties to look at; the worker's slot
\* completes its job; any other handler just leaves.
Conclude(a, answer) ==
    Become(a, IF act[a].kind = "pay"
              THEN [act[a] EXCEPT !.pc = "answered", !.answer = answer]
              ELSE IF act[a].kind = "timeout"
              THEN [act[a] EXCEPT !.pc = "finish"]
              ELSE IdleAct)

\* confirmOrder, cancelOrder, markNoShow and expirePendingOrders are called; the
\* last one only for the orders its query finds pending and overdue.
Ask(a, o, kind) ==
    /\ act[a].pc = "idle"
    /\ kind = "expire" => status[o] = "PENDING_CONFIRMATION" /\ o \in overdue
    /\ Become(a, [IdleAct EXCEPT !.pc = "load", !.kind = kind, !.order = o])
    /\ UNCHANGED <<rows, compensated, job, rest>>

\* Mutant: the transition is not checked before it is committed.
LoadMutant(a) ==
    LET o == act[a].order IN
    /\ act[a].pc = "load"
    /\ Become(a, [act[a] EXCEPT !.pc = "commit", !.status = status[o],
                                !.version = version[o]])
    /\ UNCHANGED <<rows, compensated, job, rest>>

\* loadOrderForTransition and assertTransitionAllowed.
Load(a) ==
    LET o == act[a].order IN
    /\ act[a].pc = "load"
    /\ IF status[o] \in AllowedFrom(act[a].kind)
       THEN Become(a, [act[a] EXCEPT !.pc = "commit", !.status = status[o],
                                     !.version = version[o]])
       ELSE Conclude(a, "badRequest")
    /\ UNCHANGED <<rows, compensated, job, rest>>

\* Mutant: the update is made by id only.
StillAsReadMutant(a) == TRUE

\* performOptimisticOrderTransition's WHERE.
StillAsRead(a) ==
    /\ version[act[a].order] = act[a].version
    /\ status[act[a].order] = act[a].status

\* confirmOrderAfterPayment's update counts one pending record.
PaymentTaken(a) ==
    act[a].kind = "pay" =>
        record[act[a].order][act[a].record].state = "PENDING"

\* markPendingPaymentsFailedIfNeeded, and the payment of transactionWork.
RecordsAfter(a) ==
    LET o == act[a].order IN
    [r \in RecordId |->
        IF act[a].kind = "pay" /\ r = act[a].record
        THEN [record[o][r] EXCEPT !.state = "PAID"]
        ELSE IF /\ Target(act[a].kind) = "CANCELLED"
                /\ act[a].status = "PENDING_CONFIRMATION"
                /\ o \in Paid
                /\ record[o][r].state = "PENDING"
        THEN [record[o][r] EXCEPT !.state = "FAILED"]
        ELSE record[o][r]]

\* runOrderTransitionTransaction, committed.
Commit(a) ==
    LET o == act[a].order IN
    /\ act[a].pc = "commit"
    /\ StillAsRead(a) /\ PaymentTaken(a)
    /\ status' = [status EXCEPT ![o] = Target(act[a].kind)]
    /\ version' = [version EXCEPT ![o] = @ + 1]
    /\ record' = [record EXCEPT ![o] = RecordsAfter(a)]
    /\ Become(a, [act[a] EXCEPT !.pc = "unschedule"])
    /\ UNCHANGED <<compensated, job, rest>>

\* Mutant: the callback takes a conflict for a repeated callback.
ConflictMutant(a) ==
    /\ act[a].pc = "commit"
    /\ ~(StillAsRead(a) /\ PaymentTaken(a))
    /\ Conclude(a, IF act[a].kind = "pay" THEN "ok" ELSE "conflict")
    /\ UNCHANGED <<rows, compensated, job, rest>>

\* The transaction is rolled back with a ConflictException.
Conflict(a) ==
    /\ act[a].pc = "commit"
    /\ ~(StillAsRead(a) /\ PaymentTaken(a))
    /\ IF act[a].kind = "pay"
       THEN Become(a, [act[a] EXCEPT !.pc = "recheck"])
       ELSE Conclude(a, "conflict")
    /\ UNCHANGED <<rows, compensated, job, rest>>

\* removeExpiration: a job that a worker holds cannot be removed, and this error, like
\* any other, is only logged.
Unschedule(a) ==
    LET o == act[a].order IN
    /\ act[a].pc = "unschedule"
    /\ \/ job' = IF job[o] \in {"delayed", "finished"}
                 THEN [job EXCEPT ![o] = "absent"] ELSE job
       \/ "redis" \in Faults /\ job' = job
    /\ Conclude(a, "ok")
    /\ UNCHANGED <<rows, compensated, rest>>

\* An API process dies in a handler, or a call of it fails outside a transaction.
HandlerDies(a) ==
    /\ "api" \in Faults
    /\ a \in Handler
    /\ act[a].pc \notin {"idle", "answered"}
    /\ Leave(a)
    /\ UNCHANGED <<rows, compensated, job, rest>>
-----------------------------------------------------------------------------
(* Mock payments *)

Live(o) == {r \in RecordId : record[o][r].state \in {"PENDING", "PAID"}}
Free(o) == {r \in RecordId : /\ record[o][r].state = "none"
                             /\ \A s \in 1..(r - 1) : record[o][s].state # "none"}

With(o, r, row) == [record EXCEPT ![o] = [record[o] EXCEPT ![r] = row]]

\* startMockPayment: read the order, find its latest pending or paid record, create
\* one if there is none, give it the order's transaction number.
StartPayment(a, o) ==
    /\ act[a].pc = "idle"
    /\ o \in Paid
    /\ status[o] = "PENDING_CONFIRMATION"
    /\ Become(a, [IdleAct EXCEPT !.pc = "find", !.kind = "start", !.order = o])
    /\ UNCHANGED <<rows, compensated, job, rest>>

FindRecord(a) ==
    LET o == act[a].order IN
    /\ act[a].pc = "find"
    /\ \/ Live(o) = {} /\ Become(a, [act[a] EXCEPT !.pc = "create"])
       \/ \E r \in Live(o) :
            /\ \A s \in Live(o) : s <= r
            /\ IF record[o][r].numbered
               THEN Leave(a)
               ELSE Become(a, [act[a] EXCEPT !.pc = "number", !.record = r])
    /\ UNCHANGED <<rows, compensated, job, rest>>

CreateRecord(a) ==
    LET o == act[a].order IN
    /\ act[a].pc = "create"
    /\ \E r \in Free(o) :
         /\ record' = With(o, r, [state |-> "PENDING", numbered |-> FALSE])
         /\ Become(a, [act[a] EXCEPT !.pc = "number", !.record = r])
    /\ UNCHANGED <<status, version, compensated, job, rest>>

\* Mutant: the transaction number is not unique.
NumberTakenMutant(o, r) == FALSE

\* transactionNo is unique, and the order's number is the only one its records get.
NumberTaken(o, r) == \E s \in RecordId \ {r} : record[o][s].numbered

NumberRecord(a) ==
    LET o == act[a].order
        r == act[a].record
    IN
    /\ act[a].pc = "number"
    /\ record' = IF NumberTaken(o, r) THEN record
                 ELSE With(o, r, [record[o][r] EXCEPT !.numbered = TRUE])
    /\ Leave(a)
    /\ UNCHANGED <<status, version, compensated, job, rest>>

\* handleMockPaymentCallback: Prisma loads the record, then its order, with a query
\* each.
CallbackRead(a, o, r) ==
    /\ act[a].pc = "idle"
    /\ record[o][r].numbered
    /\ Become(a, [IdleAct EXCEPT !.pc = "order", !.kind = "pay", !.order = o,
                                 !.record = r, !.state = record[o][r].state])
    /\ UNCHANGED <<rows, compensated, job, rest>>

\* The same read once more, after the confirmation ran into a conflict.
CallbackRecheck(a) ==
    LET o == act[a].order
        r == act[a].record
    IN
    /\ act[a].pc = "recheck"
    /\ Become(a, [act[a] EXCEPT !.pc = "reorder", !.state = record[o][r].state])
    /\ UNCHANGED <<rows, compensated, job, rest>>

\* A paid record is answered with its order; an order that no longer waits for the
\* payment is compensated; otherwise the payment confirms the order, or, the
\* second time, the conflict is answered.
CallbackDecide(a) ==
    LET o == act[a].order IN
    /\ act[a].pc \in {"order", "reorder"}
    /\ IF act[a].state = "PAID"
       THEN Conclude(a, "ok")
       ELSE IF status[o] # "PENDING_CONFIRMATION"
       THEN Become(a, [act[a] EXCEPT !.pc = "compensate", !.status = status[o]])
       ELSE IF act[a].pc = "order"
       THEN Become(a, [act[a] EXCEPT !.pc = "load"])
       ELSE Conclude(a, "conflict")
    /\ UNCHANGED <<rows, compensated, job, rest>>

\* recordLateCallbackCompensation, an upsert by transaction number, and the 409.
Compensate(a) ==
    /\ act[a].pc = "compensate"
    /\ compensated' = [compensated EXCEPT ![act[a].order] = act[a].status]
    /\ Conclude(a, "late")
    /\ UNCHANGED <<rows, job, rest>>

\* The caller has its answer.
Answered(a) ==
    /\ act[a].pc = "answered"
    /\ Leave(a)
    /\ UNCHANGED <<rows, compensated, job, rest>>

-----------------------------------------------------------------------------
(* The expiration job, its worker, and the rehydration timer *)

\* The creator's scheduleExpiration, or the loss of it.  It replaces the job of the
\* order's id, unless a worker holds it.
ScheduleCreated(o) ==
    /\ o \in creating
    /\ creating' = creating \ {o}
    /\ \/ job' = [job EXCEPT ![o] = IF @ = "active" THEN @ ELSE "delayed"]
       \/ "redis" \in Faults /\ job' = job
    /\ UNCHANGED <<rows, overdue, compensated, act, timer>>

\* The job's delay ends when expireAt passes.
TakeJob(a, o) ==
    /\ a \in Slot
    /\ act[a].pc = "idle"
    /\ job[o] = "delayed" /\ o \in overdue
    /\ job' = [job EXCEPT ![o] = "active"]
    /\ Become(a, [IdleAct EXCEPT !.pc = "load", !.kind = "timeout", !.order = o])
    /\ UNCHANGED <<rows, compensated, rest>>

\* expirePendingOrderById returns, with the order or, when another transition came
\* first, with null; the finished job is kept.
FinishJob(a) ==
    /\ act[a].pc = "finish"
    /\ job' = [job EXCEPT ![act[a].order] = "finished"]
    /\ Leave(a)
    /\ UNCHANGED <<rows, compensated, rest>>

\* Any other error fails the job, which is kept and not tried again.
JobFails(a) ==
    /\ "db" \in Faults
    /\ a \in Slot
    /\ act[a].pc \in {"load", "commit"}
    /\ job' = [job EXCEPT ![act[a].order] = "finished"]
    /\ Leave(a)
    /\ UNCHANGED <<rows, compensated, rest>>

\* The worker process ends: its slots and its timer start anew.
WorkerExits ==
    /\ act' = [a \in Actor |-> IF a \in Slot THEN IdleAct ELSE act[a]]
    /\ timer' = IdleTimer

WorkerDies ==
    /\ "worker" \in Faults
    /\ WorkerExits
    /\ UNCHANGED <<rows, overdue, creating, compensated, job>>

\* BullMQ: the lock of a job without a worker runs out; the job is delivered again,
\* or failed when that has happened before.
JobStalls(o) ==
    /\ job[o] = "active"
    /\ \A a \in Slot : act[a].order # o
    /\ \E s \in {"delayed", "finished"} : job' = [job EXCEPT ![o] = s]
    /\ UNCHANGED <<rows, compensated, act, rest>>

\* Mutant: orders that expired while the worker was down are not found.
PendingMutant == {o \in Order : status[o] = "PENDING_CONFIRMATION" /\ o \notin overdue}

Pending == {o \in Order : status[o] = "PENDING_CONFIRMATION"}

\* rehydratePendingOrders, when the process starts and then by the timer.
RehydrateRead ==
    /\ timer.pc = "idle"
    /\ Pending # {}
    /\ timer' = [IdleTimer EXCEPT !.pc = "remove", !.todo = Pending]
    /\ UNCHANGED <<rows, overdue, creating, compensated, job, act>>

\* scheduleExpiration: the old job is removed.  Removing a job that a worker holds
\* throws; nobody catches the timer's promise, and the process ends.
RehydrateRemove(o) ==
    /\ timer.pc = "remove"
    /\ o \in timer.todo
    /\ IF job[o] = "active"
       THEN WorkerExits /\ UNCHANGED job
       ELSE /\ job' = [job EXCEPT ![o] = "absent"]
            /\ timer' = [pc |-> "add", todo |-> timer.todo \ {o}, order |-> o]
            /\ UNCHANGED act
    /\ UNCHANGED <<rows, overdue, creating, compensated>>

\* A job of that id added in between is kept.
RehydrateAdd ==
    LET o == timer.order IN
    /\ timer.pc = "add"
    /\ job' = IF job[o] = "absent" THEN [job EXCEPT ![o] = "delayed"] ELSE job
    /\ timer' = IF timer.todo = {} THEN IdleTimer ELSE [timer EXCEPT !.pc = "remove"]
    /\ UNCHANGED <<rows, overdue, creating, compensated, act>>

ExpireAtPasses(o) ==
    /\ o \in Paid \ overdue
    /\ overdue' = overdue \cup {o}
    /\ UNCHANGED <<rows, creating, compensated, job, act, timer>>

-----------------------------------------------------------------------------
HandlerStep(a) ==
    \/ \E o \in Order, kind \in Kind \ {"pay", "timeout"} : Ask(a, o, kind)
    \/ \E o \in Order : StartPayment(a, o)
    \/ \E o \in Order, r \in RecordId : CallbackRead(a, o, r)
    \/ FindRecord(a) \/ CreateRecord(a) \/ NumberRecord(a)
    \/ CallbackRecheck(a) \/ CallbackDecide(a) \/ Compensate(a) \/ Answered(a)
    \/ HandlerDies(a)

SlotStep(a) ==
    \/ \E o \in Order : TakeJob(a, o)
    \/ FinishJob(a) \/ JobFails(a)

TransitionStep(a) == Load(a) \/ Commit(a) \/ Conflict(a) \/ Unschedule(a)

EnvStep ==
    \/ \E o \in Order : \/ ScheduleCreated(o) \/ JobStalls(o) \/ ExpireAtPasses(o)
                        \/ RehydrateRemove(o)
    \/ WorkerDies \/ RehydrateRead \/ RehydrateAdd

Next ==
    \/ \E a \in Handler : HandlerStep(a)
    \/ \E a \in Slot : SlotStep(a)
    \/ \E a \in Actor : TransitionStep(a)
    \/ EnvStep

Spec == Init /\ [][Next]_vars

-----------------------------------------------------------------------------
(* Properties *)

\* Statuses and payments agree: a paid record's order has left the pending status
\* (so it was confirmed when it was paid), a failed one's order is cancelled, and
\* a callback can find one record of an order at most, so no order is paid twice.
PaymentsAgree ==
    \A o \in Order :
        /\ \A r \in RecordId :
             /\ record[o][r].state = "PAID" =>
                    record[o][r].numbered /\ status[o] # "PENDING_CONFIRMATION"
             /\ record[o][r].state = "FAILED" => status[o] = "CANCELLED"
        /\ \A r, s \in RecordId :
             record[o][r].numbered /\ record[o][s].numbered => r = s

\* The orders a payment was taken for.
Settled == {o \in Order : \E r \in RecordId : record[o][r].state = "PAID"}

Table == INSTANCE OrderTable WITH settled <- Settled

\* docs/product-architecture.md, 6.3 and 7.1: whatever handlers, callbacks and
\* expirations race, one of them wins each transition, every transition is one of
\* the table, and an order is paid only in the step that confirms it.
ImplementsOrders == Table!Spec

\* A callback that was answered with the order is for a record that is paid, and
\* one that was answered as late is for an order that does not wait any more.
AnswersAreTrue ==
    \A a \in Handler :
        /\ act[a].answer = "ok" => record[act[a].order][act[a].record].state = "PAID"
        /\ act[a].answer = "late" =>
               status[act[a].order] # "PENDING_CONFIRMATION"

\* docs/product-architecture.md, 6.3: a late callback is recorded in the
\* compensation log.  A callback that was refused because its order is cancelled
\* has left a log behind.
LateCallbackIsLogged ==
    \A a \in Handler :
        /\ act[a].pc = "answered"
        /\ act[a].answer # "ok"
        /\ status[act[a].order] = "CANCELLED"
        => compensated[act[a].order] # "none"

\* An unpaid order that has expired does not stay pending: lost, failed, stalled
\* and half-replaced expiration jobs are scheduled again, and one of them cancels
\* the order unless somebody else moved it first.
OverdueIsResolved ==
    \A o \in Paid :
        o \in overdue /\ status[o] = "PENDING_CONFIRMATION"
            ~> status[o] # "PENDING_CONFIRMATION"

\* The timer fires, BullMQ finds a stalled job, and although the timer's own error
\* may end the worker process at any step, it does not end it at the same step of the
\* same order's work each time that step is reached.
ExpiryFairness ==
    /\ WF_vars(RehydrateRead)
    /\ \A o \in Order :
         /\ SF_vars(RehydrateRemove(o))
         /\ SF_vars(timer.order = o /\ RehydrateAdd)
         /\ WF_vars(JobStalls(o))
         /\ \A a \in Slot :
              /\ SF_vars(TakeJob(a, o))
              /\ SF_vars(act[a].order = o /\ Load(a))
              /\ SF_vars(act[a].order = o /\ (Commit(a) \/ Conflict(a)))
    /\ \A a \in Slot : WF_vars(Unschedule(a) \/ FinishJob(a))

FairSpec == Spec /\ ExpiryFairness
=============================================================================
