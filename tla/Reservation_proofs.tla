------------------------- MODULE Reservation_proofs -------------------------
(***************************************************************************)
(* Proofs about Reservation: type correctness, that no two active          *)
(* reservations of a unit overlap and none is there in part, and that      *)
(* reservations implement the Calendar, for any requests, wishes, units,   *)
(* limits and buffers.                                                     *)
(***************************************************************************)
EXTENDS Reservation, TLAPS

-----------------------------------------------------------------------------
(* One request *)

\* What is true of one request, whatever the others do: a transaction is open for a
\* request that passed the checks, an order is committed with all its rows, and a
\* request that is answered without one has none.
Sound(w, p, a, rs, s) ==
    /\ p = "new" => w = NoWish /\ rs = {} /\ s = "none" /\ a = "none"
    /\ p \notin {"new", "answered"} => WellFormed(w) /\ s = "none" /\ a = "none"
    /\ p \in {"rules", "conflict"} => rs = {}
    /\ p = "insert" /\ w.kind = "academic" => rs = {}
    /\ p = "verify" => w.kind = "academic"
    /\ p \in {"verify", "commit"} => rs = Rows(w)
    /\ p = "answered" /\ s = "none" => rs = {}
    /\ s # "none" => p = "answered" /\ a = "created" /\ WellFormed(w) /\ rs = Rows(w)

AllSound == \A r \in Request : Sound(wish[r], pc[r], answer[r], rows[r], status[r])

\* What step of request r may change: its own part of the state.
Only(r) ==
    \A q \in Request \ {r} :
        /\ wish'[q] = wish[q] /\ pc'[q] = pc[q] /\ answer'[q] = answer[q]
        /\ rows'[q] = rows[q] /\ status'[q] = status[q]

Step(r) == Submit(r) \/ Handle(r) \/ DeadlockVictim(r) \/ HandlerDies(r) \/ Release(r)

\* An academic wish has one row.
LEMMA OneRange ==
  ASSUME NEW r \in Request, NEW w \in Wish[r], w.kind = "academic", NEW x \in Rows(w)
  PROVE  Rows(w) = {x}
BY ReservationAssumption DEF Rows, IsWish

\* A request that fails before its commit is still sound and typed.
LEMMA FailIs ==
  ASSUME TypeOK, NEW r \in Request, NEW what \in Answer, Fail(r, what), status[r] = "none"
  PROVE  /\ Only(r) /\ UNCHANGED <<wish, status>>
         /\ TypeOK'
         /\ Sound(wish'[r], pc'[r], answer'[r], rows'[r], status'[r])
<1>1. /\ pc' = [pc EXCEPT ![r] = "answered"]
      /\ answer' = [answer EXCEPT ![r] = what]
      /\ rows' = [rows EXCEPT ![r] = {}]
      /\ UNCHANGED <<wish, status>>
  BY DEF Fail, Reply
<1>2. Only(r)
  BY <1>1 DEF TypeOK, Only
<1>3. /\ pc' \in [Request -> Pc] /\ answer' \in [Request -> Answer]
      /\ rows' \in [Request -> SUBSET UNION {Rows(w) : w \in Wishes}]
      /\ rows'[r] = {} /\ pc'[r] = "answered"
  BY <1>1 DEF TypeOK, Pc
<1>4. \A q \in Request : rows'[q] \subseteq Rows(wish'[q])
  BY <1>1, <1>2, <1>3 DEF TypeOK, Only
<1>5. TypeOK'
  BY <1>1, <1>3, <1>4 DEF TypeOK
<1>6. Sound(wish'[r], pc'[r], answer'[r], rows'[r], status'[r])
  BY <1>1, <1>3 DEF Sound
<1> QED
  BY <1>1, <1>2, <1>5, <1>6

\* An answer changes nothing else.
LEMMA ReplyIs ==
  ASSUME TypeOK, NEW r \in Request, NEW what \in Answer, Reply(r, what)
  PROVE  /\ pc' \in [Request -> Pc] /\ answer' \in [Request -> Answer]
         /\ pc'[r] = "answered" /\ answer'[r] = what
         /\ \A q \in Request \ {r} : pc'[q] = pc[q] /\ answer'[q] = answer[q]
BY DEF TypeOK, Reply, Pc

\* Neither does going on.
LEMMA GoIs ==
  ASSUME TypeOK, NEW r \in Request, NEW p \in Pc, Go(r, p)
  PROVE  /\ pc' \in [Request -> Pc] /\ answer' = answer
         /\ pc'[r] = p
         /\ \A q \in Request \ {r} : pc'[q] = pc[q]
BY DEF TypeOK, Go

\* The row that is inserted is one of the request's wish.
LEMMA InsertIs ==
  ASSUME TypeOK, AllSound, NEW r \in Request, NEW x \in Rows(wish[r]),
         InsertSlot(r, x) \/ InsertRange(r, x) \/ VerifyRange(r, x)
  PROVE  /\ Only(r) /\ UNCHANGED <<wish, status>>
         /\ TypeOK'
         /\ Sound(wish'[r], pc'[r], answer'[r], rows'[r], status'[r])
<1> DEFINE w == wish[r]
           R == SUBSET UNION {Rows(v) : v \in Wishes}
<1>1. /\ pc[r] \in {"insert", "verify"}
      /\ WellFormed(w) /\ status[r] = "none" /\ answer[r] = "none"
      /\ Sound(w, pc[r], answer[r], rows[r], status[r])
  BY DEF AllSound, Sound, InsertSlot, InsertRange, VerifyRange
<1>2. w \in Wish[r] /\ w \in Wishes
  BY <1>1 DEF TypeOK, WellFormed, NoWish, Wishes
<1>3. CASE Fail(r, "conflict")
  BY <1>1, <1>3, FailIs DEF Answer
<1>4. CASE InsertSlot(r, x) /\ ~Refused(r, x)
  <2> DEFINE p == IF rows[r] \cup {x} = Rows(w) THEN "commit" ELSE "insert"
  <2>1. /\ w.kind = "sports" /\ rows' = [rows EXCEPT ![r] = @ \cup {x}]
        /\ Go(r, p) /\ UNCHANGED <<wish, status>>
    BY <1>4 DEF InsertSlot
  <2>2. p \in Pc
    BY DEF Pc
  <2>3. /\ rows' \in [Request -> R] /\ rows'[r] = rows[r] \cup {x}
        /\ \A q \in Request \ {r} : rows'[q] = rows[q]
    BY <1>2, <2>1 DEF TypeOK
  <2>4. rows'[r] \subseteq Rows(w)
    BY <2>3 DEF TypeOK
  <2> QED
    BY <1>1, <2>1, <2>2, <2>3, <2>4, GoIs DEF TypeOK, Only, Sound
<1>5. CASE InsertRange(r, x)
  <2>1. /\ w.kind = "academic" /\ rows' = [rows EXCEPT ![r] = {x}]
        /\ Go(r, "verify") /\ UNCHANGED <<wish, status>>
    BY <1>5 DEF InsertRange
  <2>2. Rows(w) = {x}
    BY <1>2, <2>1, OneRange
  <2>3. /\ rows' \in [Request -> R] /\ rows'[r] = Rows(w)
        /\ \A q \in Request \ {r} : rows'[q] = rows[q]
    BY <1>2, <2>1, <2>2 DEF TypeOK
  <2>4. "verify" \in Pc
    BY DEF Pc
  <2> QED
    BY <1>1, <2>1, <2>3, <2>4, GoIs DEF TypeOK, Only, Sound
<1>6. CASE VerifyRange(r, x) /\ ~Fail(r, "conflict")
  <2>1. pc[r] = "verify" /\ Go(r, "commit") /\ UNCHANGED <<wish, rows, status>>
    BY <1>6 DEF VerifyRange
  <2>2. "commit" \in Pc
    BY DEF Pc
  <2> QED
    BY <1>1, <2>1, <2>2, GoIs DEF TypeOK, Only, Sound
<1> QED
  BY <1>3, <1>4, <1>5, <1>6 DEF InsertSlot

\* A step changes one request only, and keeps it typed and sound.
LEMMA StepIs ==
  ASSUME TypeOK, AllSound, NEW r \in Request, Step(r)
  PROVE  /\ Only(r) /\ TypeOK'
         /\ Sound(wish'[r], pc'[r], answer'[r], rows'[r], status'[r])
<1>0. Sound(wish[r], pc[r], answer[r], rows[r], status[r])
  BY DEF AllSound
<1>1. CASE Submit(r)
  <2>1. PICK w \in Wish[r] :
          /\ wish' = [wish EXCEPT ![r] = w]
          /\ IF WellFormed(w) THEN Go(r, "rules") ELSE Reply(r, "badRequest")
    BY <1>1 DEF Submit
  <2>2. /\ rows[r] = {} /\ status[r] = "none" /\ answer[r] = "none"
        /\ UNCHANGED <<rows, status>>
    BY <1>0, <1>1 DEF Sound, Submit
  <2>3. /\ wish' \in [Request -> Wishes \cup {NoWish}] /\ wish'[r] = w
        /\ \A q \in Request \ {r} : wish'[q] = wish[q]
    BY <2>1 DEF TypeOK, Wishes
  <2>4. "rules" \in Pc /\ "badRequest" \in Answer
    BY DEF Pc, Answer
  <2> QED
    BY <2>1, <2>2, <2>3, <2>4, GoIs, ReplyIs DEF TypeOK, Only, Sound
<1>2. CASE AssertRules(r)
  <2>1. "conflict" \in Pc /\ "badRequest" \in Answer
    BY DEF Pc, Answer
  <2> QED
    BY <1>0, <1>2, <2>1, GoIs, ReplyIs DEF AssertRules, TypeOK, Only, Sound
<1>3. CASE FindConflict(r)
  <2>1. "insert" \in Pc /\ "conflict" \in Answer
    BY DEF Pc, Answer
  <2>2. Go(r, "insert") \/ Reply(r, "conflict")
    BY <1>3 DEF FindConflict
  <2>3. pc[r] = "conflict" /\ UNCHANGED <<wish, rows, status>>
    BY <1>3 DEF FindConflict
  <2> QED
    BY <1>0, <2>1, <2>2, <2>3, GoIs, ReplyIs DEF TypeOK, Only, Sound
<1>4. CASE Insert(r)
  BY <1>4, InsertIs DEF Insert
<1>5. CASE Commit(r)
  <2>1. "created" \in Answer /\ "CONFIRMED" \in Status
    BY DEF Answer, Status
  <2>2. /\ status' \in [Request -> Status] /\ status'[r] = "CONFIRMED"
        /\ \A q \in Request \ {r} : status'[q] = status[q]
    BY <1>5, <2>1 DEF Commit, TypeOK
  <2>3. pc[r] = "commit" /\ Reply(r, "created") /\ UNCHANGED <<wish, rows>>
    BY <1>5 DEF Commit
  <2> QED
    BY <1>0, <2>1, <2>2, <2>3, ReplyIs DEF TypeOK, Only, Sound
<1>6. CASE Fail(r, "error") /\ pc[r] \notin {"new", "answered"}
  <2>1. "error" \in Answer /\ status[r] = "none"
    BY <1>0, <1>6 DEF Sound, Answer
  <2> QED
    BY <1>6, <2>1, FailIs
<1>7. CASE Release(r)
  <2>1. PICK s \in {"CANCELLED", "NO_SHOW"} : status' = [status EXCEPT ![r] = s]
    BY <1>7 DEF Release
  <2>2. /\ status' \in [Request -> Status] /\ status'[r] = s
        /\ \A q \in Request \ {r} : status'[q] = status[q]
    BY <2>1 DEF TypeOK, Status
  <2> QED
    BY <1>0, <1>7, <2>2 DEF Release, Active, TypeOK, Only, Sound
<1>8. DeadlockVictim(r) \/ HandlerDies(r) => Fail(r, "error") /\ pc[r] \notin {"new", "answered"}
  BY DEF DeadlockVictim, HandlerDies
<1> QED
  BY <1>1, <1>2, <1>3, <1>4, <1>5, <1>6, <1>7, <1>8 DEF Step, Handle

\* The initial state.
LEMMA InitIs == Init => TypeOK /\ AllSound
<1> SUFFICES ASSUME Init PROVE TypeOK /\ AllSound
  OBVIOUS
<1>1. TypeOK
  BY DEF Init, TypeOK, Pc, Answer, Status
<1>2. AllSound
  BY DEF Init, AllSound, Sound
<1> QED
  BY <1>1, <1>2

\* Every variable keeps its type, whatever is asked for and whatever fails.
THEOREM TypeCorrect == Spec => [](TypeOK /\ AllSound)
<1>1. TypeOK /\ AllSound /\ [Next]_vars => (TypeOK /\ AllSound)'
  <2> SUFFICES ASSUME TypeOK, AllSound, [Next]_vars PROVE (TypeOK /\ AllSound)'
    OBVIOUS
  <2>1. ASSUME NEW r \in Request, Step(r) PROVE (TypeOK /\ AllSound)'
    BY <2>1, StepIs DEF Only, AllSound
  <2>2. CASE UNCHANGED vars
    BY <2>2 DEF vars, TypeOK, AllSound
  <2> QED
    BY <2>1, <2>2 DEF Next, Step
<1> QED
  BY <1>1, InitIs, PTL DEF Spec

-----------------------------------------------------------------------------
(* No two active reservations of a unit overlap *)

\* The rows whose place is settled: those of an active order, of a transaction about
\* to commit, and the slots of any other one.  The row of a room counts only once it
\* is verified, since two of them may be inserted at once.
Held(r) ==
    IF /\ status[r] \in {"none", "CONFIRMED"}
       /\ wish[r].kind = "sports" \/ pc[r] = "commit" \/ Active(r)
    THEN rows[r]
    ELSE {}

Exclusive ==
    \A r, q \in Request : r # q =>
        \A x \in Held(r), y \in Held(q) : ~Excluded(x, y)

BookingInv == TypeOK /\ AllSound /\ Exclusive

\* A row without rivals excludes no row that is settled.
LEMMA NoRival ==
  ASSUME NEW r \in Request, NEW x, Rivals(r, x) = {},
         NEW q \in Request \ {r}, NEW y \in Held(q)
  PROVE  ~Excluded(x, y)
BY DEF Rivals, Held

\* A row that a step of r settles has no rivals.
LEMMA HeldGrows ==
  ASSUME TypeOK, AllSound, NEW r \in Request, Step(r)
  PROVE  /\ \A q \in Request \ {r} : Held(q)' = Held(q)
         /\ \A x \in Held(r)' : x \in Held(r) \/ Rivals(r, x) = {}
<1>1. Only(r)
  BY StepIs
<1>2. \A q \in Request \ {r} : Held(q)' = Held(q)
  BY <1>1 DEF Only, Held, Active
<1>3. ASSUME NEW x \in Held(r)' PROVE x \in Held(r) \/ Rivals(r, x) = {}
  <2>0. Sound(wish[r], pc[r], answer[r], rows[r], status[r])
    BY DEF AllSound
  <2>1. x \in rows'[r]
    BY <1>3 DEF Held
  <2>2. CASE Submit(r) \/ AssertRules(r) \/ FindConflict(r)
    BY <2>0, <2>1, <2>2 DEF Submit, AssertRules, FindConflict, Sound
  <2>3. ASSUME NEW what, Fail(r, what) PROVE FALSE
    BY <2>1, <2>3 DEF Fail, TypeOK
  <2>4. ASSUME NEW y \in Rows(wish[r]), InsertSlot(r, y)
        PROVE  x \in Held(r) \/ Rivals(r, x) = {}
    <3>1. /\ rows' = [rows EXCEPT ![r] = @ \cup {y}] /\ Rivals(r, y) = {}
          /\ pc[r] = "insert" /\ wish[r].kind = "sports"
      BY <2>3, <2>4 DEF InsertSlot
    <3>2. x \in rows[r] \/ x = y
      BY <2>1, <3>1 DEF TypeOK
    <3>3. Held(r) = rows[r]
      BY <2>0, <3>1 DEF Held, Sound
    <3> QED
      BY <3>1, <3>2, <3>3
  <2>5. ASSUME NEW y \in Rows(wish[r]), InsertRange(r, y) PROVE FALSE
    <3>1. /\ wish'[r].kind = "academic" /\ pc'[r] = "verify" /\ status'[r] = "none"
      BY <2>0, <2>5 DEF InsertRange, Go, TypeOK, Sound
    <3> QED
      BY <1>3, <3>1 DEF Held, Active
  <2>6. ASSUME NEW y \in Rows(wish[r]), VerifyRange(r, y) PROVE Rivals(r, x) = {}
    <3>1. pc[r] = "verify" /\ Rivals(r, y) = {} /\ rows' = rows
      BY <2>3, <2>6 DEF VerifyRange
    <3>2. wish[r].kind = "academic" /\ WellFormed(wish[r])
      BY <2>0, <3>1 DEF Sound
    <3>3. wish[r] \in Wish[r]
      BY <3>2 DEF TypeOK, WellFormed, NoWish
    <3>4. x \in Rows(wish[r])
      BY <2>1, <3>1 DEF TypeOK
    <3>5. x = y
      BY <3>2, <3>3, <3>4, OneRange
    <3> QED
      BY <3>1, <3>5
  <2>7. CASE Commit(r)
    BY <2>0, <2>1, <2>7 DEF Commit, Held, Sound
  <2>8. CASE Release(r)
    BY <2>1, <2>8 DEF Release, Active, Held
  <2>9. DeadlockVictim(r) \/ HandlerDies(r) => Fail(r, "error")
    BY DEF DeadlockVictim, HandlerDies
  <2> QED
    BY <2>2, <2>3, <2>4, <2>5, <2>6, <2>7, <2>8, <2>9 DEF Step, Handle, Insert
<1> QED
  BY <1>2, <1>3

\* BookingInv is an invariant of Reservation.
LEMMA BookingInvariant == Spec => []BookingInv
<1>1. Init => Exclusive
  BY DEF Init, Exclusive, Held
<1>2. BookingInv /\ [Next]_vars => Exclusive'
  <2> SUFFICES ASSUME BookingInv, [Next]_vars PROVE Exclusive'
    OBVIOUS
  <2>1. ASSUME NEW r \in Request, Step(r) PROVE Exclusive'
    <3>1. ASSUME NEW q \in Request \ {r}, NEW x \in Held(r)', NEW y \in Held(q)'
          PROVE  ~Excluded(x, y)
      <4>1. y \in Held(q) /\ (x \in Held(r) \/ Rivals(r, x) = {})
        BY <2>1, HeldGrows DEF BookingInv
      <4> QED
        BY <4>1, NoRival DEF BookingInv, Exclusive
    <3>2. ASSUME NEW q \in Request \ {r}, NEW x \in Held(r)', NEW y \in Held(q)'
          PROVE  ~Excluded(y, x)
      BY <3>1, <3>2 DEF Excluded
    <3>3. ASSUME NEW p \in Request \ {r}, NEW q \in Request \ {r}, p # q,
                 NEW x \in Held(p)', NEW y \in Held(q)'
          PROVE  ~Excluded(x, y)
      BY <2>1, <3>3, HeldGrows DEF BookingInv, Exclusive
    <3> QED
      BY <3>1, <3>2, <3>3 DEF Exclusive, Excluded
  <2>2. CASE UNCHANGED vars
    BY <2>2 DEF vars, BookingInv, Exclusive, Held, Active
  <2> QED
    BY <2>1, <2>2 DEF Next, Step
<1> QED
  BY <1>1, <1>2, TypeCorrect, PTL DEF Spec, BookingInv

\* Two full hours that differ are an hour apart.
LEMMA FullHours ==
  ASSUME NEW m \in Int, NEW n \in Int, m % 60 = 0, n % 60 = 0, m # n
  PROVE  m + 60 <= n \/ n + 60 <= m
<1>1. /\ m = 60 * (m \div 60) /\ n = 60 * (n \div 60)
      /\ m \div 60 \in Int /\ n \div 60 \in Int
  OBVIOUS
<1>2. m \div 60 + 1 <= n \div 60 \/ n \div 60 + 1 <= m \div 60
  BY <1>1
<1> QED
  BY <1>1, <1>2

\* Rows of well-formed wishes that the constraints let stand together are apart: two
\* rooms' by their buffers, two courts' because all slots start on the hour and last
\* one.
LEMMA AllowedIsApart ==
  ASSUME NEW r \in Request, NEW q \in Request, NEW w \in Wish[r], NEW v \in Wish[q],
         WellFormed(w), WellFormed(v),
         NEW x \in Rows(w), NEW y \in Rows(v), ~Excluded(x, y)
  PROVE  Cal!Apart(x, y)
<1> SUFFICES ASSUME x.unit = y.unit
             PROVE  x.to + Cal!Gap(x.unit) <= y.from \/ y.to + Cal!Gap(x.unit) <= x.from
  BY DEF Cal!Apart
<1>1. PICK i \in DOMAIN w.units, s \in w.starts :
        x.unit = w.units[i] /\ x.from = s.at /\ x.to = s.at + Length(w)
  BY DEF Rows
<1>2. PICK j \in DOMAIN v.units, t \in v.starts :
        y.unit = v.units[j] /\ y.from = t.at /\ y.to = t.at + Length(v)
  BY DEF Rows
<1>3. /\ s.at \in Int /\ t.at \in Int /\ Length(w) \in Int /\ Length(v) \in Int
      /\ Buffer \in Nat
  BY ReservationAssumption DEF IsWish, Length, SLOT
<1>4. CASE x.unit \in Room
  BY <1>1, <1>2, <1>3, <1>4 DEF Excluded, Cal!Gap
<1>5. CASE x.unit \notin Room
  <2>1. w.kind = "sports" /\ v.kind = "sports"
    BY <1>1, <1>2, <1>5 DEF WellFormed
  <2>2. s.at % 60 = 0 /\ t.at % 60 = 0 /\ x.to = s.at + 60 /\ y.to = t.at + 60
    BY <1>1, <1>2, <2>1 DEF WellFormed, Length, SLOT
  <2>3. s.at # t.at /\ Cal!Gap(x.unit) = 0
    BY <1>1, <1>2, <1>5 DEF Excluded, Cal!Gap
  <2>4. s.at + 60 <= t.at \/ t.at + 60 <= s.at
    BY <1>3, <2>2, <2>3, FullHours
  <2> QED
    BY <1>1, <1>2, <1>3, <2>2, <2>3, <2>4
<1> QED
  BY <1>4, <1>5

\* In a state of the invariant, what an active or committing request holds is apart
\* from what another active one has.
LEMMA HeldApart ==
  ASSUME BookingInv, NEW r \in Request, NEW q \in Request \ {r},
         pc[r] = "commit" \/ Active(r), Active(q)
  PROVE  \A x \in rows[r], y \in rows[q] : Cal!Apart(x, y)
<1>1. \A p \in {r, q} :
        /\ WellFormed(wish[p]) /\ wish[p] \in Wish[p]
        /\ status[p] \in {"none", "CONFIRMED"} /\ rows[p] \subseteq Rows(wish[p])
  <2>1. \A p \in {r, q} : WellFormed(wish[p]) /\ status[p] \in {"none", "CONFIRMED"}
    BY DEF BookingInv, AllSound, Sound, Active
  <2> QED
    BY <2>1 DEF BookingInv, TypeOK, WellFormed, NoWish
<1>2. Held(r) = rows[r] /\ Held(q) = rows[q]
  BY <1>1 DEF Held
<1> QED
  BY <1>1, <1>2, AllowedIsApart DEF BookingInv, Exclusive

\* Whatever checks, inserts, deadlocks, failures and cancellations interleave, active
\* reservations of a unit never overlap, rooms keep their gap, and an order has all
\* the rows it asks for while a refused request has none.
THEOREM BookingsSafe == Spec => [](NoOverlap /\ WholeOrNothing)
<1>1. BookingInv => NoOverlap
  BY HeldApart DEF NoOverlap, Booked
<1>2. BookingInv => WholeOrNothing
  BY DEF BookingInv, AllSound, Sound, WholeOrNothing
<1> QED
  BY <1>1, <1>2, BookingInvariant, PTL

-----------------------------------------------------------------------------
(* Refusals *)

\* What the pre-check takes for a conflict is one for the constraints.
LEMMA LooksTakenIsExcluded ==
  ASSUME NEW r \in Request, NEW q \in Request, NEW w \in Wish[r], NEW v \in Wish[q],
         NEW x \in Rows(w), NEW y \in Rows(v), LooksTaken(x, y)
  PROVE  Excluded(x, y)
<1>1. /\ x.from \in Int /\ x.to \in Int /\ y.from \in Int /\ y.to \in Int
      /\ Buffer \in Nat
  BY ReservationAssumption DEF Rows, IsWish, Length, SLOT
<1> QED
  BY <1>1 DEF LooksTaken, Excluded

\* A request is refused with a conflict only while an active reservation is in its
\* way, or one of its own rows: rivals that were rolled back, cancelled or missed
\* refuse nobody.
THEOREM RefusalsReal == Spec => RefusalsAreReal
<1> DEFINE Real(r) == \E x \in Rows(wish[r]), q \in Request : \E y \in Rows(wish[q]) :
                          /\ <<q, y>> # <<r, x>> /\ Excluded(x, y)
                          /\ q = r \/ Active(q)
<1>1. ASSUME BookingInv, NEW r \in Request, Step(r),
             answer[r] = "none", answer'[r] = "conflict"
      PROVE  Real(r)
  <2>0. /\ TypeOK
        /\ Sound(wish[r], pc[r], answer[r], rows[r], status[r])
    BY <1>1 DEF BookingInv, AllSound
  <2>1. ASSUME NEW x \in Rows(wish[r]), Refused(r, x) PROVE Real(r)
    <3>1. PICK q \in Rivals(r, x) : q = r \/ status[q] # "none"
      BY <2>1 DEF Refused
    <3>2. PICK y \in rows[q] : <<q, y>> # <<r, x>> /\ Excluded(x, y)
      BY DEF Rivals
    <3>3. q \in Request /\ y \in Rows(wish[q]) /\ (q = r \/ Active(q))
      BY <2>0, <3>1 DEF Rivals, TypeOK, Active
    <3> QED
      BY <3>2, <3>3
  <2>2. CASE FindConflict(r)
    <3>1. PICK q \in Request : /\ Active(q)
                               /\ \E x \in Rows(wish[r]), y \in rows[q] : LooksTaken(x, y)
      BY <1>1, <2>2 DEF FindConflict, Go
    <3>2. PICK x \in Rows(wish[r]), y \in rows[q] : LooksTaken(x, y)
      BY <3>1
    <3>3. q # r
      BY <2>0, <2>2, <3>1 DEF FindConflict, Sound, Active
    <3>4. y \in Rows(wish[q]) /\ wish[r] \in Wish[r] /\ wish[q] \in Wish[q]
      BY <2>0, <3>2 DEF TypeOK, Rows, NoWish
    <3>5. Excluded(x, y)
      BY <3>2, <3>4, LooksTakenIsExcluded
    <3> QED
      BY <3>1, <3>3, <3>4, <3>5
  <2>3. CASE Insert(r)
    <3>1. PICK x \in Rows(wish[r]) : InsertSlot(r, x) \/ InsertRange(r, x) \/ VerifyRange(r, x)
      BY <2>3 DEF Insert
    <3>2. Refused(r, x)
      BY <1>1, <3>1 DEF InsertSlot, InsertRange, VerifyRange, Go
    <3> QED
      BY <2>1, <3>2
  <2>4. \/ Submit(r) \/ AssertRules(r) \/ Commit(r) \/ Release(r) \/ Fail(r, "error")
        => answer'[r] # "conflict"
    BY <1>1, <2>0 DEF Submit, AssertRules, Commit, Release, Fail, Go, Reply, TypeOK
  <2> QED
    BY <1>1, <2>2, <2>3, <2>4 DEF Step, Handle, DeadlockVictim, HandlerDies
<1>2. ASSUME BookingInv, [Next]_vars, NEW r \in Request,
             answer[r] = "none", answer'[r] = "conflict"
      PROVE  Real(r)
  <2>1. PICK q \in Request : Step(q)
    BY <1>2 DEF Next, Step, vars
  <2>2. q = r
    BY <1>2, <2>1, StepIs DEF BookingInv, Only
  <2> QED
    BY <1>1, <1>2, <2>1, <2>2
<1>3. BookingInv /\ [Next]_vars =>
        [\A r \in Request : answer[r] = "none" /\ answer'[r] = "conflict" => Real(r)]_vars
  BY <1>2
<1> QED
  BY <1>3, BookingInvariant, PTL DEF Spec, RefusalsAreReal

-----------------------------------------------------------------------------
(* Reservation implements the Calendar *)

\* Every step is one request asking, one reservation made as a whole and apart from
\* the others, one freed, or nothing the calendar sees.
LEMMA StepImplements ==
  ASSUME BookingInv, NEW r \in Request, Step(r)
  PROVE  Cal!Next \/ UNCHANGED <<Asked, Booked>>
<1>0. /\ Only(r) /\ TypeOK /\ TypeOK'
      /\ Sound(wish[r], pc[r], answer[r], rows[r], status[r])
      /\ Sound(wish'[r], pc'[r], answer'[r], rows'[r], status'[r])
  BY StepIs DEF BookingInv, AllSound
<1>1. CASE UNCHANGED wish /\ ~Active(r) /\ ~Active(r)'
  BY <1>0, <1>1 DEF Only, Asked, Booked, Active
<1>2. CASE Submit(r)
  <2>1. PICK w \in Wish[r] : wish' = [wish EXCEPT ![r] = w]
    BY <1>2 DEF Submit
  <2>2. Asked[r] = {}
    BY <1>0, <1>2 DEF Submit, Sound, Asked, Rows, NoWish
  <2>3. Asked' = [Asked EXCEPT ![r] = Rows(w)]
    BY <1>0, <2>1 DEF Asked, TypeOK
  <2>4. UNCHANGED Booked
    BY <1>2 DEF Submit, Booked, Active
  <2>5. Rows(w) \in {Rows(v) : v \in Wishes}
    BY DEF Wishes
  <2>6. Cal!Ask(r)
    BY <2>2, <2>3, <2>4, <2>5 DEF Cal!Ask
  <2> QED
    BY <2>6 DEF Cal!Next
<1>3. CASE Commit(r)
  <2>1. /\ pc[r] = "commit" /\ status' = [status EXCEPT ![r] = "CONFIRMED"]
        /\ UNCHANGED <<wish, rows>>
    BY <1>3 DEF Commit
  <2>2. status[r] = "none" /\ rows[r] = Rows(wish[r])
    BY <1>0, <2>1 DEF Sound
  <2>3. Booked[r] = {} /\ UNCHANGED Asked
    BY <2>1, <2>2 DEF Booked, Active, Asked
  <2>4. Booked' = [Booked EXCEPT ![r] = Asked[r]]
    BY <1>0, <2>1, <2>2 DEF Booked, Active, Asked, TypeOK
  <2>5. \A q \in Request \ {r}, x \in Asked[r] : \A y \in Booked[q] : Cal!Apart(x, y)
    BY <2>1, <2>2, HeldApart DEF Asked, Booked
  <2>6. Cal!Book(r)
    BY <2>3, <2>4, <2>5 DEF Cal!Book
  <2> QED
    BY <2>6 DEF Cal!Next
<1>4. CASE Release(r)
  <2>1. UNCHANGED <<wish, rows>> /\ ~Active(r)'
    BY <1>0, <1>4 DEF Release, Active, TypeOK
  <2>2. Booked' = [Booked EXCEPT ![r] = {}] /\ UNCHANGED Asked
    BY <1>0, <2>1 DEF Only, Booked, Active, Asked
  <2>3. Cal!Free(r)
    BY <2>2 DEF Cal!Free
  <2> QED
    BY <2>3 DEF Cal!Next
<1>5. ASSUME UNCHANGED <<wish, status>>, pc[r] # "answered" PROVE ~Active(r) /\ ~Active(r)'
  BY <1>0, <1>5 DEF Sound, Active
<1>6. AssertRules(r) \/ FindConflict(r) \/ Insert(r) \/ DeadlockVictim(r) \/ HandlerDies(r)
        => UNCHANGED <<wish, status>> /\ pc[r] # "answered"
  BY DEF AssertRules, FindConflict, Insert, InsertSlot, InsertRange, VerifyRange,
         DeadlockVictim, HandlerDies, Fail
<1> QED
  BY <1>1, <1>2, <1>3, <1>4, <1>5, <1>6 DEF Step, Handle

\* Every behaviour of the reservation handlers is one of the calendar: reservations
\* are made in one step each, whole and apart, and freed in one step.
THEOREM Implements == Spec => ImplementsCalendar
<1>1. Init => Cal!Init
  BY DEF Init, Cal!Init, Asked, Booked, Active, Rows, NoWish
<1>2. BookingInv /\ [Next]_vars => [Cal!Next]_<<Asked, Booked>>
  <2> SUFFICES ASSUME BookingInv, [Next]_vars
               PROVE  Cal!Next \/ UNCHANGED <<Asked, Booked>>
    OBVIOUS
  <2>1. CASE UNCHANGED vars
    BY <2>1 DEF vars, Asked, Booked, Active
  <2> QED
    BY <2>1, StepImplements DEF Next, Step
<1> QED
  BY <1>1, <1>2, BookingInvariant, PTL DEF Spec, ImplementsCalendar, Cal!Spec

\* A reservation has all the rows it was asked for, or none that counts
\* (orders.service.ts, the transactions of both kinds of reservation).
THEOREM WholeReservations == Spec => []WholeOrNothing
BY BookingsSafe, PTL

=============================================================================
