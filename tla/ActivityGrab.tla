---------------------------- MODULE ActivityGrab ----------------------------
(***************************************************************************)
(* The ticket grab of one campus activity: the API request that reserves   *)
(* stock in Redis, the BullMQ job, the worker that books the ticket in     *)
(* PostgreSQL, the cancellation of a booking, and the recovery timer that  *)
(* rebuilds the cached stock.  Every action is one round trip to Redis,    *)
(* BullMQ or PostgreSQL, so any two actors may interleave between the      *)
(* round trips of a handler.                                               *)
(***************************************************************************)
EXTENDS Integers, FiniteSets

CONSTANTS
    User,       \* the users who grab
    Ticket,     \* the tickets of the activity, all ACTIVE
    Stock,      \* Stock[t]: how many of ticket t may be sold
    Paid,       \* the tickets with priceCents > 0
    MaxCancels, \* bound: how many registrations are ever cancelled
    Req,        \* API handlers that may be in flight at once
    Slot,       \* worker slots (the BullMQ worker's concurrency)
    FaultSets,  \* the sets of faults that a behaviour may be exposed to
    RecoveryOn, \* whether the recovery timer runs
    None        \* "no user", "no ticket"

FaultKind ==
    { "ttl",       \* a pending or failure key reaches its TTL
      "key",       \* the cached stock of a ticket is missing from Redis
      "stall",     \* BullMQ takes a slow or dead worker's job for stalled
      "api",       \* an API process dies in a handler, or a call of it fails
      "tx",        \* a query or transaction of the worker fails
      "redis",     \* a call of the worker to Redis or BullMQ fails
      "enqueue",   \* the registration job cannot be added
      "evict" }    \* a retained finished job is evicted by newer ones

\* Every user may hold one active registration, and MaxCancels old ones remain.
RegId == 1..(Cardinality(User) + MaxCancels)

ASSUME GrabAssumption ==
    /\ IsFiniteSet(User) /\ IsFiniteSet(Req)
    /\ Stock \in [Ticket -> Nat]
    /\ Paid \subseteq Ticket
    /\ MaxCancels \in Nat
    /\ RecoveryOn \in BOOLEAN
    /\ FaultSets \subseteq SUBSET FaultKind
    /\ None \notin User
    /\ None \notin Ticket

VARIABLES
    regs,       \* PostgreSQL: ActivityRegistration (and its Order's) rows
    reserved,   \* PostgreSQL: ActivityTicket.reserved
    onSale,     \* PostgreSQL: the activity is PUBLISHED and within its window
    remaining,  \* Redis: the cached stock of a ticket, or Missing
    pending,    \* Redis: the ticket in a user's pending value, or None
    failure,    \* Redis: whether a user's failure key exists
    job,        \* BullMQ: the registration job of a user and a ticket
    stalled,    \* BullMQ: the jobs already redelivered once as stalled
    req,        \* the API handlers in flight
    run,        \* the worker slots
    rec,        \* the recovery service
    release,    \* cancelled registrations whose cache release is still to run
    faults      \* the faults that may happen in this behaviour, chosen once

db    == <<regs, reserved, onSale>>
redis == <<remaining, pending, failure>>
queue == <<job, stalled>>
vars  == <<regs, reserved, onSale, remaining, pending, failure, job, stalled,
           req, run, rec, release, faults>>

Missing == -1

\* The statuses the partial unique index and every duplicate check look at.
ActiveStatus == {"PENDING_CONFIRMATION", "CONFIRMED", "NO_SHOW"}

NoReg == [user |-> None, ticket |-> None, status |-> "none"]

\* The registrations of a user that count as active.
ActiveOf(u) == {r \in RegId : regs[r].user = u /\ regs[r].status \in ActiveStatus}

\* The registrations that hold a place of a ticket.
HoldersOf(t) ==
    {r \in RegId : regs[r].ticket = t /\ regs[r].status \in ActiveStatus}

\* The users whose pending value names the ticket.
ClaimsOn(t) == {u \in User : pending[u] = t}

NonNegative(n) == IF n < 0 THEN 0 ELSE n

-----------------------------------------------------------------------------
(* The types of the handlers' local state *)

IdleReq == [pc |-> "idle", user |-> None, ticket |-> None,
            snap |-> 0, keys |-> {}, value |-> 0, retried |-> FALSE]
IdleRun == [pc |-> "idle", user |-> None, ticket |-> None, lost |-> FALSE]
IdleRec == [pc |-> "idle", todo |-> {}, ticket |-> None,
            snap |-> [t \in Ticket |-> 0], keys |-> {}, value |-> 0]

ReqPc == {"idle", "check", "exists", "scan", "mget", "setnx", "reserve",
          "enqueue", "compensate"}
RunPc == {"idle", "lookup", "existing", "tx", "book", "schedule", "complete", "duplicate",
          "completeThenCompensate", "compensate"}
RecPc == {"idle", "next", "mget", "set"}

RegRecord == {NoReg} \cup
    [user : User, ticket : Ticket, status : ActiveStatus \cup {"CANCELLED"}]

DbType ==
    /\ regs \in [RegId -> RegRecord]
    /\ reserved \in [Ticket -> Nat]
    /\ onSale \in BOOLEAN

RedisType ==
    /\ remaining \in [Ticket -> Nat \cup {Missing}]
    /\ pending \in [User -> Ticket \cup {None}]
    /\ failure \in [User -> BOOLEAN]

QueueType ==
    /\ job \in [User \X Ticket -> {"absent", "waiting", "active", "retained"}]
    /\ stalled \subseteq User \X Ticket

ReqRecord == [pc : ReqPc, user : User \cup {None}, ticket : Ticket \cup {None},
              snap : Nat, keys : SUBSET User, value : Nat, retried : BOOLEAN]

ReqType == req \in [Req -> ReqRecord]

\* A slot at work works for a user and a ticket.
RunRecord == {IdleRun} \cup
    [pc : RunPc \ {"idle"}, user : User, ticket : Ticket, lost : BOOLEAN]

RunType == run \in [Slot -> RunRecord]

RecType ==
    /\ rec \in [pc : RecPc, todo : SUBSET Ticket, ticket : Ticket \cup {None},
                snap : [Ticket -> Nat], keys : SUBSET User, value : Nat]
    /\ rec.pc \in {"mget", "set"} => rec.ticket \in Ticket

TypeOK ==
    /\ DbType
    /\ RedisType
    /\ QueueType
    /\ ReqType
    /\ RunType
    /\ RecType
    /\ release \subseteq RegId
    /\ faults \in FaultSets

Init ==
    /\ regs = [r \in RegId |-> NoReg]
    /\ reserved = [t \in Ticket |-> 0]
    /\ onSale = TRUE
    /\ remaining = [t \in Ticket |-> Missing]
    /\ pending = [u \in User |-> None]
    /\ failure = [u \in User |-> FALSE]
    /\ job = [j \in User \X Ticket |-> "absent"]
    /\ stalled = {}
    /\ req = [q \in Req |-> IdleReq]
    /\ run = [w \in Slot |-> IdleRun]
    /\ rec = IdleRec
    /\ release = {}
    /\ faults \in FaultSets

-----------------------------------------------------------------------------
(* The API handler queueRegistration *)

GoReq(q, pc) == req' = [req EXCEPT ![q].pc = pc]
LeaveReq(q)  == req' = [req EXCEPT ![q] = IdleReq]

\* getAvailableTicket: the ticket row is read once, and its stock - reserved
\* of this moment is what a missing cache is filled with later.
GrabReadTicket(q, u, t) ==
    /\ req[q].pc = "idle"
    /\ onSale
    /\ req' = [req EXCEPT ![q] =
                  [IdleReq EXCEPT !.pc = "check", !.user = u, !.ticket = t,
                                  !.snap = NonNegative(Stock[t] - reserved[t])]]
    /\ UNCHANGED <<db, redis, queue, run, rec, release>>

\* assertNotRegistered: 409 when the user holds an active registration.  The
\* admission rules read next, which are not modelled, may refuse any request.
GrabAssertNotRegistered(q) ==
    /\ req[q].pc = "check"
    /\ \/ ActiveOf(req[q].user) = {} /\ GoReq(q, "exists")
       \/ LeaveReq(q)
    /\ UNCHANGED <<db, redis, queue, run, rec, release>>

\* ensureTicketRemaining: EXISTS, then SCAN and MGET of the pending keys, then
\* SET NX of what the snapshot leaves after the claims counted.
EnsureExists(q) ==
    /\ req[q].pc = "exists"
    /\ GoReq(q, IF remaining[req[q].ticket] = Missing THEN "scan" ELSE "reserve")
    /\ UNCHANGED <<db, redis, queue, run, rec, release>>

EnsureScan(q) ==
    /\ req[q].pc = "scan"
    /\ req' = [req EXCEPT ![q] = [@ EXCEPT
                  !.pc = "mget", !.keys = {u \in User : pending[u] # None}]]
    /\ UNCHANGED <<db, redis, queue, run, rec, release>>

CountClaims(keys, t) == Cardinality(keys \cap ClaimsOn(t))

EnsureMGet(q) ==
    /\ req[q].pc = "mget"
    /\ req' = [req EXCEPT ![q] = [@ EXCEPT
                  !.pc = "setnx", !.keys = {},
                  !.value = NonNegative(req[q].snap -
                                        CountClaims(req[q].keys, req[q].ticket))]]
    /\ UNCHANGED <<db, redis, queue, run, rec, release>>

\* Mutant: SET in place of SET NX.
EnsureSetNXMutant(q) ==
    /\ req[q].pc = "setnx"
    /\ remaining' = [remaining EXCEPT ![req[q].ticket] = req[q].value]
    /\ req' = [req EXCEPT ![q] = [@ EXCEPT !.pc = "reserve", !.value = 0]]
    /\ UNCHANGED <<db, pending, failure, queue, run, rec, release>>

EnsureSetNX(q) ==
    LET t == req[q].ticket IN
    /\ req[q].pc = "setnx"
    /\ remaining' = IF remaining[t] = Missing
                    THEN [remaining EXCEPT ![t] = req[q].value]
                    ELSE remaining
    /\ req' = [req EXCEPT ![q] = [@ EXCEPT !.pc = "reserve", !.value = 0]]
    /\ UNCHANGED <<db, pending, failure, queue, run, rec, release>>

\* Mutant: a missing stock is taken for one that is left.
HasStockMutant(t) == remaining[t] # 0

HasStock(t) == remaining[t] > 0

\* RESERVE_STOCK_LUA and the switch on its result.  A missing stock is filled
\* and tried once more; any other refusal ends the request with a 409 or 503.
Reserve(q) ==
    LET u == req[q].user
        t == req[q].ticket
    IN
    /\ req[q].pc = "reserve"
    /\ \/ /\ pending[u] # None \/ remaining[t] = 0
          /\ LeaveReq(q)
          /\ UNCHANGED redis
       \/ /\ pending[u] = None
          /\ remaining[t] = Missing
          /\ IF req[q].retried
             THEN LeaveReq(q)
             ELSE req' = [req EXCEPT ![q] =
                             [@ EXCEPT !.pc = "exists", !.retried = TRUE]]
          /\ UNCHANGED redis
       \/ /\ pending[u] = None
          /\ HasStock(t)
          /\ remaining' = [remaining EXCEPT ![t] = @ - 1]
          /\ pending' = [pending EXCEPT ![u] = t]
          /\ failure' = [failure EXCEPT ![u] = FALSE]
          /\ GoReq(q, "enqueue")
    /\ UNCHANGED <<db, queue, run, rec, release>>

\* enqueueRegistration: the job id is built from the activity, the ticket and
\* the user only, and an existing job of that id, finished or not, is kept in
\* place of a new one.  The answer is "queued" either way.
Enqueue(q) ==
    LET j == <<req[q].user, req[q].ticket>> IN
    /\ req[q].pc = "enqueue"
    /\ job' = IF job[j] = "absent" THEN [job EXCEPT ![j] = "waiting"] ELSE job
    /\ LeaveReq(q)
    /\ UNCHANGED <<db, redis, stalled, run, rec, release>>

\* Mutant: the error of queue.add is answered without compensating the claim.
EnqueueFailsMutant(q) ==
    /\ "enqueue" \in faults
    /\ req[q].pc = "enqueue"
    /\ LeaveReq(q)
    /\ UNCHANGED <<db, redis, queue, run, rec, release>>

EnqueueFails(q) ==
    /\ "enqueue" \in faults
    /\ req[q].pc = "enqueue"
    /\ GoReq(q, "compensate")
    /\ UNCHANGED <<db, redis, queue, run, rec, release>>

\* COMPENSATE_PENDING_LUA: only the owner of the pending value gives stock back.
CompensatePending(u, t) ==
    IF pending[u] = t
    THEN /\ remaining' = IF remaining[t] = Missing
                         THEN remaining
                         ELSE [remaining EXCEPT ![t] = @ + 1]
         /\ pending' = [pending EXCEPT ![u] = None]
         /\ failure' = [failure EXCEPT ![u] = TRUE]
    ELSE UNCHANGED redis

CompensateRequest(q) ==
    /\ req[q].pc = "compensate"
    /\ CompensatePending(req[q].user, req[q].ticket)
    /\ LeaveReq(q)
    /\ UNCHANGED <<db, queue, run, rec, release>>

\* The API process dies between two round trips of the handler, or a call outside
\* its try fails: nothing is undone.
RequestDies(q) ==
    /\ "api" \in faults
    /\ req[q].pc # "idle"
    /\ LeaveReq(q)
    /\ UNCHANGED <<db, redis, queue, run, rec, release>>

-----------------------------------------------------------------------------
(* The worker: processQueuedRegistration *)

GoRun(w, pc) == run' = [run EXCEPT ![w].pc = pc]
JobOf(w) == <<run[w].user, run[w].ticket>>

\* Mutant: the handler ends without the job being completed.
FinishRunMutant(w) ==
    /\ run' = [run EXCEPT ![w] = IdleRun]
    /\ job' = job

\* The handler returns, whatever the outcome: the job is completed and kept
\* (removeOnComplete: 1000).  A slot that lost its job's lock keeps nothing.
FinishRun(w) ==
    /\ run' = [run EXCEPT ![w] = IdleRun]
    /\ job' = IF run[w].lost THEN job ELSE [job EXCEPT ![JobOf(w)] = "retained"]

\* Mutant: the place of a completed claim goes back to the stock.
CompletePendingMutant(u, t) ==
    IF pending[u] = t
    THEN /\ pending' = [pending EXCEPT ![u] = None]
         /\ failure' = [failure EXCEPT ![u] = FALSE]
         /\ remaining' = [remaining EXCEPT ![t] = @ + 1]
    ELSE UNCHANGED redis

\* COMPLETE_PENDING_LUA.
CompletePending(u, t) ==
    IF pending[u] = t
    THEN /\ pending' = [pending EXCEPT ![u] = None]
         /\ failure' = [failure EXCEPT ![u] = FALSE]
         /\ UNCHANGED remaining
    ELSE UNCHANGED redis

\* Mutant: the claim is cleared when the job is taken, not when it is booked.
TakeJobMutant(w, u, t) ==
    /\ run[w].pc = "idle"
    /\ job[<<u, t>>] = "waiting"
    /\ job' = [job EXCEPT ![<<u, t>>] = "active"]
    /\ run' = [run EXCEPT ![w] = [pc |-> "lookup", user |-> u, ticket |-> t,
                                  lost |-> FALSE]]
    /\ CompletePending(u, t)
    /\ UNCHANGED <<db, stalled, req, rec, release>>

TakeJob(w, u, t) ==
    /\ run[w].pc = "idle"
    /\ job[<<u, t>>] = "waiting"
    /\ job' = [job EXCEPT ![<<u, t>>] = "active"]
    /\ run' = [run EXCEPT ![w] = [pc |-> "lookup", user |-> u, ticket |-> t,
                                  lost |-> FALSE]]
    /\ UNCHANGED <<db, redis, stalled, req, rec, release>>

\* The first read: a user who already holds an active registration is answered
\* with it, and the claim is completed, not compensated.
LookupExisting(w) ==
    /\ run[w].pc = "lookup"
    /\ GoRun(w, IF ActiveOf(run[w].user) = {} THEN "tx" ELSE "existing")
    /\ UNCHANGED <<db, redis, queue, req, rec, release>>

\* Mutant: the conditional update lets one place too many through.
StockLeftMutant(t) == reserved[t] <= Stock[t]

\* UPDATE "ActivityTicket" ... AND "reserved" < "stock".
StockLeft(t) == reserved[t] < Stock[t]

\* Mutant: there is no partial unique index.
ViolatesUniqueIndexMutant(u) == FALSE

\* The partial unique index activity_registration_active_user_unique.
ViolatesUniqueIndex(u) == ActiveOf(u) # {}

FreeReg == {r \in RegId : regs[r] = NoReg /\ \A s \in 1..(r - 1) : regs[s] # NoReg}

\* The transaction, at PostgreSQL's read-committed level: the ticket is read and
\* must be on sale; the sale may close before the next statement.
ReadTicket(w) ==
    /\ run[w].pc = "tx"
    /\ GoRun(w, IF onSale THEN "book" ELSE "compensate")
    /\ UNCHANGED <<db, redis, queue, req, rec, release>>

\* The conditional update locks the ticket's row until the order and the
\* registration are created and committed.  A failure rolls all of it back.
BookTx(w) ==
    LET u == run[w].user
        t == run[w].ticket
    IN
    /\ run[w].pc = "book"
    /\ \/ /\ ~StockLeft(t)
          /\ GoRun(w, "compensate")
          /\ UNCHANGED db
       \/ /\ StockLeft(t)
          /\ ViolatesUniqueIndex(u)
          /\ GoRun(w, "duplicate")
          /\ UNCHANGED db
       \/ /\ StockLeft(t)
          /\ ~ViolatesUniqueIndex(u)
          /\ \E r \in FreeReg :
               regs' = [regs EXCEPT ![r] =
                   [user |-> u, ticket |-> t,
                    status |-> IF t \in Paid THEN "PENDING_CONFIRMATION"
                                             ELSE "CONFIRMED"]]
          /\ reserved' = [reserved EXCEPT ![t] = @ + 1]
          /\ onSale' = onSale
          /\ GoRun(w, IF t \in Paid THEN "schedule" ELSE "complete")
    /\ UNCHANGED <<redis, queue, req, rec, release>>

BookTxFails(w) ==
    /\ "tx" \in faults
    /\ run[w].pc \in {"tx", "book"}
    /\ GoRun(w, "compensate")
    /\ UNCHANGED <<db, redis, queue, req, rec, release>>

\* scheduleExpiration runs after the commit but inside the same try: its failure
\* takes the compensating path of a booking that stays.
ScheduleExpiration(w) ==
    /\ run[w].pc = "schedule"
    /\ \/ GoRun(w, "complete")
       \/ "redis" \in faults /\ GoRun(w, "compensate")
    /\ UNCHANGED <<db, redis, queue, req, rec, release>>

CompleteRun(w) ==
    /\ run[w].pc \in {"complete", "existing"}
    /\ CompletePending(run[w].user, run[w].ticket)
    /\ FinishRun(w)
    /\ UNCHANGED <<db, stalled, req, rec, release>>

\* Inside the try, after the commit, like scheduleExpiration.
CompleteFails(w) ==
    /\ "redis" \in faults
    /\ run[w].pc = "complete"
    /\ GoRun(w, "compensate")
    /\ UNCHANGED <<db, redis, queue, req, rec, release>>

\* P2002: the registration that won is read; the claim is completed in any
\* case, and compensated too when no winner is found any more.
ReadDuplicated(w) ==
    /\ run[w].pc = "duplicate"
    /\ GoRun(w, IF ActiveOf(run[w].user) = {} THEN "completeThenCompensate"
                                              ELSE "existing")
    /\ UNCHANGED <<db, redis, queue, req, rec, release>>

CompleteThenCompensate(w) ==
    /\ run[w].pc = "completeThenCompensate"
    /\ CompletePending(run[w].user, run[w].ticket)
    /\ GoRun(w, "compensate")
    /\ UNCHANGED <<db, queue, req, rec, release>>

CompensateRun(w) ==
    /\ run[w].pc = "compensate"
    /\ CompensatePending(run[w].user, run[w].ticket)
    /\ FinishRun(w)
    /\ UNCHANGED <<db, stalled, req, rec, release>>

\* A call before the try, or in its catch, throws: the job fails, is kept
\* (removeOnFail: 1000) and is not tried again.  The claim stays as it is.
RunFails(w) ==
    /\ \/ "tx" \in faults /\ run[w].pc \in {"lookup", "duplicate"}
       \/ /\ "redis" \in faults
          /\ run[w].pc \in {"existing", "completeThenCompensate", "compensate"}
    /\ FinishRun(w)
    /\ UNCHANGED <<db, redis, stalled, req, rec, release>>

\* BullMQ: the lock of a dead or blocked worker's job runs out.  The job is
\* delivered again once; the second time it is failed and retained.  The slot
\* that lost it may go on (a blocked process) or die.
JobStalls(w) ==
    /\ "stall" \in faults
    /\ run[w].pc # "idle"
    /\ ~run[w].lost
    /\ job' = [job EXCEPT ![JobOf(w)] =
                  IF JobOf(w) \in stalled THEN "retained" ELSE "waiting"]
    /\ stalled' = stalled \cup {JobOf(w)}
    /\ run' = [run EXCEPT ![w].lost = TRUE]
    /\ UNCHANGED <<db, redis, req, rec, release>>

WorkerDies(w) ==
    /\ run[w].lost
    /\ run' = [run EXCEPT ![w] = IdleRun]
    /\ UNCHANGED <<db, redis, queue, req, rec, release>>

-----------------------------------------------------------------------------
(* Orders: confirmation, cancellation or expiry, and no-show *)

\* confirmOrder, confirmOrderAfterPayment.
ConfirmOrder(r) ==
    /\ regs[r].status = "PENDING_CONFIRMATION"
    /\ regs' = [regs EXCEPT ![r].status = "CONFIRMED"]
    /\ UNCHANGED <<reserved, onSale, redis, queue, req, run, rec, release>>

\* Mutant: the transition is not checked, and a cancelled order is marked too.
MarkNoShowMutant(r) ==
    /\ regs[r].status \in {"CONFIRMED", "CANCELLED"}
    /\ regs' = [regs EXCEPT ![r].status = "NO_SHOW"]
    /\ UNCHANGED <<reserved, onSale, redis, queue, req, run, rec, release>>

\* markNoShow.
MarkNoShow(r) ==
    /\ regs[r].status = "CONFIRMED"
    /\ regs' = [regs EXCEPT ![r].status = "NO_SHOW"]
    /\ UNCHANGED <<reserved, onSale, redis, queue, req, run, rec, release>>

\* Mutant: the cancellation does not give the place back to the ticket row.
CancelOrderMutant(r) ==
    /\ Cardinality({s \in RegId : regs[s].status = "CANCELLED"}) < MaxCancels
    /\ regs[r].status \in {"PENDING_CONFIRMATION", "CONFIRMED"}
    /\ regs' = [regs EXCEPT ![r].status = "CANCELLED"]
    /\ release' = release \cup {r}
    /\ UNCHANGED <<reserved, onSale, redis, queue, req, run, rec>>

\* cancelOrder, expirePendingOrderById: the place goes back to the ticket in
\* the transaction, to the cache after it.
CancelOrder(r) ==
    LET t == regs[r].ticket IN
    /\ Cardinality({s \in RegId : regs[s].status = "CANCELLED"}) < MaxCancels
    /\ regs[r].status \in {"PENDING_CONFIRMATION", "CONFIRMED"}
    /\ reserved[t] > 0
    /\ reserved' = [reserved EXCEPT ![t] = @ - 1]
    /\ regs' = [regs EXCEPT ![r].status = "CANCELLED"]
    /\ release' = release \cup {r}
    /\ UNCHANGED <<onSale, redis, queue, req, run, rec>>

\* RELEASE_CONFIRMED_LUA.
ReleaseConfirmed(r) ==
    LET t == regs[r].ticket IN
    /\ r \in release
    /\ remaining' = IF remaining[t] = Missing
                    THEN remaining
                    ELSE [remaining EXCEPT ![t] = @ + 1]
    /\ failure' = [failure EXCEPT ![regs[r].user] = FALSE]
    /\ release' = release \ {r}
    /\ UNCHANGED <<db, pending, queue, req, run, rec>>

\* The process dies after the commit, or Redis refuses and the error is logged.
ReleaseLost(r) ==
    /\ "api" \in faults
    /\ r \in release
    /\ release' = release \ {r}
    /\ UNCHANGED <<db, redis, queue, req, run, rec>>

-----------------------------------------------------------------------------
(* The recovery service: rehydrateActiveTickets, reconcileTicketRemaining *)

\* One query reads all ACTIVE tickets; the counts below come from it.
RehydrateSnapshot ==
    /\ RecoveryOn
    /\ rec.pc = "idle"
    /\ rec' = [IdleRec EXCEPT !.pc = "next", !.todo = Ticket,
                  !.snap = [t \in Ticket |-> NonNegative(Stock[t] - reserved[t])]]
    /\ UNCHANGED <<db, redis, queue, req, run, release>>

ReconcileScan(t) ==
    /\ rec.pc = "next"
    /\ t \in rec.todo
    /\ rec' = [rec EXCEPT !.pc = "mget", !.todo = @ \ {t}, !.ticket = t,
                          !.keys = {u \in User : pending[u] # None}]
    /\ UNCHANGED <<db, redis, queue, req, run, release>>

ReconcileMGet ==
    /\ rec.pc = "mget"
    /\ rec' = [rec EXCEPT !.pc = "set", !.keys = {},
                  !.value = NonNegative(rec.snap[rec.ticket] -
                                        CountClaims(rec.keys, rec.ticket))]
    /\ UNCHANGED <<db, redis, queue, req, run, release>>

\* Mutant: only a missing stock is set.
ReconcileSetMutant ==
    /\ rec.pc = "set"
    /\ remaining' = IF remaining[rec.ticket] = Missing
                     THEN [remaining EXCEPT ![rec.ticket] = rec.value]
                     ELSE remaining
    /\ rec' = IF rec.todo = {} THEN IdleRec
                               ELSE [rec EXCEPT !.pc = "next", !.value = 0]
    /\ UNCHANGED <<db, pending, failure, queue, req, run, release>>

ReconcileSet ==
    /\ rec.pc = "set"
    /\ remaining' = [remaining EXCEPT ![rec.ticket] = rec.value]
    /\ rec' = IF rec.todo = {} THEN IdleRec
                               ELSE [rec EXCEPT !.pc = "next", !.value = 0]
    /\ UNCHANGED <<db, pending, failure, queue, req, run, release>>

-----------------------------------------------------------------------------
(* What Redis, BullMQ and the administrators do to the shared state *)

PendingExpires(u) ==
    /\ "ttl" \in faults
    /\ pending[u] # None
    /\ pending' = [pending EXCEPT ![u] = None]
    /\ UNCHANGED <<db, remaining, failure, queue, req, run, rec, release>>

FailureExpires(u) ==
    /\ "ttl" \in faults
    /\ failure[u]
    /\ failure' = [failure EXCEPT ![u] = FALSE]
    /\ UNCHANGED <<db, remaining, pending, queue, req, run, rec, release>>

StockKeyLost(t) ==
    /\ "key" \in faults
    /\ remaining[t] # Missing
    /\ remaining' = [remaining EXCEPT ![t] = Missing]
    /\ UNCHANGED <<db, pending, failure, queue, req, run, rec, release>>

JobEvicted(u, t) ==
    /\ "evict" \in faults
    /\ job[<<u, t>>] = "retained"
    /\ job' = [job EXCEPT ![<<u, t>>] = "absent"]
    /\ stalled' = stalled \ {<<u, t>>}
    /\ UNCHANGED <<db, redis, req, run, rec, release>>

\* updateActivity sets the status or the sale window, or the window begins or ends.
SaleSwitches ==
    /\ onSale' = ~onSale
    /\ UNCHANGED <<regs, reserved, redis, queue, req, run, rec, release>>

-----------------------------------------------------------------------------
RequestStep(q) ==
    \/ \E u \in User, t \in Ticket : GrabReadTicket(q, u, t)
    \/ GrabAssertNotRegistered(q)
    \/ EnsureExists(q) \/ EnsureScan(q) \/ EnsureMGet(q) \/ EnsureSetNX(q)
    \/ Reserve(q)
    \/ Enqueue(q) \/ EnqueueFails(q) \/ CompensateRequest(q)
    \/ RequestDies(q)

WorkerStep(w) ==
    \/ \E u \in User, t \in Ticket : TakeJob(w, u, t)
    \/ LookupExisting(w)
    \/ ReadTicket(w) \/ BookTx(w) \/ BookTxFails(w)
    \/ ScheduleExpiration(w)
    \/ CompleteRun(w) \/ CompleteFails(w) \/ CompensateRun(w) \/ RunFails(w)
    \/ ReadDuplicated(w) \/ CompleteThenCompensate(w)
    \/ JobStalls(w) \/ WorkerDies(w)

OrderStep(r) ==
    \/ ConfirmOrder(r) \/ MarkNoShow(r) \/ CancelOrder(r)
    \/ ReleaseConfirmed(r) \/ ReleaseLost(r)

RecoveryStep ==
    \/ RehydrateSnapshot
    \/ \E t \in Ticket : ReconcileScan(t)
    \/ ReconcileMGet \/ ReconcileSet

EnvStep ==
    \/ \E u \in User : PendingExpires(u) \/ FailureExpires(u)
    \/ \E t \in Ticket : StockKeyLost(t)
    \/ \E u \in User, t \in Ticket : JobEvicted(u, t)
    \/ SaleSwitches

Step ==
    \/ \E q \in Req : RequestStep(q)
    \/ \E w \in Slot : WorkerStep(w)
    \/ \E r \in RegId : OrderStep(r)
    \/ RecoveryStep
    \/ EnvStep

Next == Step /\ UNCHANGED faults

Spec == Init /\ [][Next]_vars

-----------------------------------------------------------------------------
(* getRegistrationStatus: what a poll of the user answers when nothing changes *)
(* between its three reads                                                     *)

LatestOf(u) == {r \in RegId : /\ regs[r].user = u
                              /\ \A s \in RegId : regs[s].user = u => s <= r}

Poll(u) ==
    IF LatestOf(u) # {} THEN regs[CHOOSE r \in LatestOf(u) : TRUE].status
    ELSE IF pending[u] # None THEN "queued"
    ELSE IF failure[u] THEN "failed"
    ELSE "not_found"

-----------------------------------------------------------------------------
(* Properties *)

\* ActivityTicket.reserved is exactly the number of registrations that hold a
\* place, and never more than the stock, whatever the cache said, however often
\* a job was delivered, and whichever step failed (processQueuedRegistration's
\* transaction against releaseActivityTicketReservation's).
ReservedIsExact ==
    \A t \in Ticket : /\ reserved[t] = Cardinality(HoldersOf(t))
                      /\ reserved[t] <= Stock[t]

\* A user never holds two active registrations of the activity, even when two
\* of his jobs, or two deliveries of one, run side by side.
OneActivePerUser == \A u \in User : Cardinality(ActiveOf(u)) <= 1

\* The abstract sale this module implements: a user holds the ticket of his
\* active registration, and is written off once it is a NO_SHOW.
Held(u) == IF ActiveOf(u) = {} THEN None
           ELSE regs[CHOOSE r \in ActiveOf(u) : TRUE].ticket
NoShowUsers == {u \in User : \E r \in ActiveOf(u) : regs[r].status = "NO_SHOW"}

Sale == INSTANCE TicketSale WITH
            held <- [u \in User |-> Held(u)],
            absent <- NoShowUsers

\* Every behaviour of cache, queue, worker and orders is one of the abstract
\* sale: the worker's transaction sells, the cancelling one returns, and every
\* other step, faults included, leaves the sale as it was.
ImplementsSale == Sale!Spec

\* The users whose claim is no longer open: a run of theirs has booked, or found
\* them booked, and has only to clear the pending key.
Covered(u, t) == \E w \in Slot : /\ run[w].user = u
                                 /\ run[w].ticket = t
                                 /\ run[w].pc \in {"schedule", "complete", "existing"}

OpenClaimsOn(t) == {u \in ClaimsOn(t) : ~Covered(u, t)}

\* The places of t the cache still lets through, the claims let through and not
\* yet booked, the places booked, and the cancelled places still to be released
\* to the cache never exceed the stock: reserve, compensate, complete and
\* release move one place between them and create none.
CacheNeverOverAdmits ==
    \A t \in Ticket :
        remaining[t] # Missing =>
            remaining[t] + Cardinality(OpenClaimsOn(t)) + reserved[t]
                + Cardinality({r \in release : regs[r].ticket = t}) <= Stock[t]

\* As long as the cached stock is never lost, no job redelivered, no step failed after
\* the commit and nothing rewritten by the recovery timer, the cache lets no more
\* through than there is, whatever else fails, expires or is repeated.
CacheLetsNoMoreThrough ==
    faults \cap {"stall", "key", "redis"} = {} /\ ~RecoveryOn => CacheNeverOverAdmits

\* The API handlers that reserved a claim and have not left, and the slots at its job.
Serving(u, t) ==
    {q \in Req : /\ req[q].user = u /\ req[q].ticket = t
                 /\ req[q].pc \in {"enqueue", "compensate"}}
Running(u, t) == {w \in Slot : run[w].user = u /\ run[w].ticket = t}

\* Somebody works on a claim, or will: a job retained after its end is no work.
WorkedOn(u, t) ==
    \/ job[<<u, t>>] \in {"waiting", "active"}
    \/ Serving(u, t) # {}
    \/ Running(u, t) # {}

\* The job is added under the id of one that has ended and is retained: queue.add
\* keeps that one.  This exception is QueuedClaimIsWorkedOn's counterexample.
MeetsRetainedJob(u, t) ==
    /\ job[<<u, t>>] = "retained"
    /\ \E q \in Serving(u, t) : req[q].pc = "enqueue"

\* A handler dies or its compensation fails; a run dies or fails outside its try.
BreaksOff(u, t) ==
    \/ "api" \in faults /\ \E q \in Serving(u, t) : req'[q].pc = "idle"
    \/ /\ faults \cap {"tx", "redis", "stall"} # {}
       /\ \E w \in Running(u, t) : run'[w].pc = "idle"

\* Two things leave a claim that stands in Redis without work: a handler or a run of
\* its own that breaks off, and a job added under a retained id.  Everything else
\* (a failed queue.add, a redelivery, an expired and repeated claim, an eviction,
\* another handler's or slot's outcome) leaves it with a handler, a job that waits or
\* runs, or a slot, or clears it (queueRegistration, processQueuedRegistration).
ClaimKeepsItsWork ==
    [][\A u \in User, t \in Ticket :
          /\ pending'[u] = t
          /\ pending[u] = t => WorkedOn(u, t)
          => WorkedOn(u, t)' \/ MeetsRetainedJob(u, t) \/ BreaksOff(u, t)]_vars

\* While a user's job waits or runs, one of the three places that a poll reads
\* knows of it: the claim is only cleared after its registration is committed or
\* its failure kept, so a poll that is not overtaken never answers not_found.
AcceptedGrabIsVisible ==
    \A u \in User, t \in Ticket :
        job[<<u, t>>] \in {"waiting", "active"} => Poll(u) # "not_found"

\* Where no key reaches its TTL, a poll finds every grab that was accepted.
GrabIsVisible == "ttl" \notin faults => AcceptedGrabIsVisible

\* docs/product-architecture.md, 6.1: a request that took its place in Redis is
\* queued and booked by the worker.  A claim whose handler has left has a job
\* that still waits or runs.
QueuedClaimIsWorkedOn ==
    \A u \in User, t \in Ticket : pending[u] = t => WorkedOn(u, t)

\* Nothing is under way that still will change the cached stock.
Quiet ==
    /\ \A q \in Req : req[q].pc = "idle"
    /\ \A w \in Slot : run[w].pc = "idle"
    /\ \A j \in User \X Ticket : job[j] # "waiting"
    /\ \A u \in User : pending[u] = None
    /\ release = {}

CacheIsExact == \A t \in Ticket : remaining[t] = Stock[t] - reserved[t]

\* The recovery timer repairs every way in which the cache was left wrong (a
\* claim that expired, a handler that died, a compensation after the commit, a
\* stale snapshot): when the traffic stops, the cached stock settles at what the
\* database has left.
CacheHeals == <>[]Quiet => <>[]CacheIsExact

\* Every job that was queued is taken and finished: no interleaving of its steps
\* with the other actors' leaves it active for ever.
JobsFinish ==
    \A j \in User \X Ticket : job[j] = "waiting" ~> job[j] \in {"retained", "absent"}

-----------------------------------------------------------------------------
(* Fairness: a handler or a worker that is alive takes its next step, a free   *)
(* slot takes a waiting job, the recovery timer fires.  Requests, orders,      *)
(* expiries and faults are never owed.                                         *)

RequestWork(q) ==
    \/ GrabAssertNotRegistered(q)
    \/ EnsureExists(q) \/ EnsureScan(q) \/ EnsureMGet(q) \/ EnsureSetNX(q)
    \/ Reserve(q) \/ Enqueue(q) \/ CompensateRequest(q)

WorkerWork(w) ==
    \/ LookupExisting(w) \/ ReadTicket(w) \/ BookTx(w) \/ ScheduleExpiration(w)
    \/ CompleteRun(w) \/ CompensateRun(w) \/ ReadDuplicated(w) \/ CompleteThenCompensate(w)

Fairness ==
    /\ \A q \in Req : WF_vars(RequestWork(q) /\ UNCHANGED faults)
    /\ \A w \in Slot :
         /\ WF_vars(WorkerWork(w) /\ UNCHANGED faults)
         /\ \A u \in User, t \in Ticket : WF_vars(TakeJob(w, u, t) /\ UNCHANGED faults)
    /\ WF_vars(RecoveryStep /\ UNCHANGED faults)

FairSpec == Spec /\ Fairness
=============================================================================
