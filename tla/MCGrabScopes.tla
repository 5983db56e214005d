---------------------------- MODULE MCGrabScopes ----------------------------
(***************************************************************************)
(* Bounded instances of ActivityGrab, several in one run: a behaviour chooses *)
(* its scope at the start.  In the safety run both users contend for one    *)
(* ticket, one handler feeds a queue whose jobs are redelivered, or one user *)
(* grabs two tickets; in the liveness run one user posts again while steps  *)
(* fail, or two slots are handed the same job.                              *)
(***************************************************************************)
EXTENDS MCActivityGrab

\* Who is alone: nobody, a handler, or a user and a handler.
VARIABLE alone

Contention == INSTANCE ActivityGrab WITH
    Ticket <- {t1}, Paid <- {}, MaxCancels <- 1

Redelivery(q) == INSTANCE ActivityGrab WITH
    Ticket <- {t1}, Paid <- {t1}, MaxCancels <- 0, Req <- {q}

TwoTickets(u, q) == INSTANCE ActivityGrab WITH
    User <- {u}, Paid <- {t2}, MaxCancels <- 1, Req <- {q}

ScopeInit ==
    /\ Init
    /\ \/ alone = {} /\ faults = {"enqueue", "tx"}
       \/ alone \in {{q} : q \in Req} /\ faults = {"stall", "key", "redis"}
       \/ alone \in {{u, q} : u \in User, q \in Req} /\ faults = {"ttl", "evict"}

ScopeNext ==
    /\ \/ alone = {} /\ Contention!Next
       \/ \E q \in Req : alone = {q} /\ Redelivery(q)!Next
       \/ \E u \in User, q \in Req : alone = {u, q} /\ TwoTickets(u, q)!Next
    /\ UNCHANGED alone

ScopeSpec == ScopeInit /\ [][ScopeNext]_<<vars, alone>>

\* With one user, one ticket and the recovery service:
Reposting == INSTANCE ActivityGrab WITH
    Slot <- {w1}, Paid <- {}

Redelivered == INSTANCE ActivityGrab WITH
    Req <- {q1}, Paid <- {}, MaxCancels <- 0

HealingInit ==
    /\ Init
    /\ \/ alone = {u1} /\ faults = {"ttl", "api", "tx"}
       \/ alone = {u1, q1} /\ faults = {"stall", "enqueue", "redis"}

\* The step of the scope that was chosen.
Either(repost, redeliver) ==
    /\ \/ alone = {u1} /\ repost
       \/ alone = {u1, q1} /\ redeliver
    /\ UNCHANGED <<alone, faults>>

HealingFairness ==
    /\ \A q \in Req :
         WF_<<vars, alone>>(Either(Reposting!RequestWork(q), Redelivered!RequestWork(q)))
    /\ \A w \in Slot :
         /\ WF_<<vars, alone>>(Either(Reposting!WorkerWork(w), Redelivered!WorkerWork(w)))
         /\ WF_<<vars, alone>>(Either(w = w1 /\ Reposting!TakeJob(w, u1, t1),
                                     Redelivered!TakeJob(w, u1, t1)))
    /\ WF_<<vars, alone>>(Either(Reposting!RecoveryStep, Redelivered!RecoveryStep))

HealingSpec ==
    /\ HealingInit
    /\ [][Either(Reposting!Next, Redelivered!Next)]_<<vars, alone>>
    /\ HealingFairness

=============================================================================
