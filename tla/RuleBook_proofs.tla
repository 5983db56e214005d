---------------------------- MODULE RuleBook_proofs ----------------------------
(***************************************************************************)
(* Proofs about RuleBook, for any rules, users, administrators, guests and *)
(* evaluations: type correctness, that every rule can be evaluated, and    *)
(* that restrictions count the committed penalties.                        *)
(***************************************************************************)
EXTENDS RuleBook, FiniteSetTheorems, TLAPS

Status == {"ACTIVE", "INACTIVE"}

\* What an expression of a kind compares with: roles, the days of a ban, or a number.
ValueOf(kind) == IF kind = "roles" THEN SUBSET STRING
                 ELSE IF kind = "penalty" THEN Nat ELSE Int

\* The row of a rule: its expression is of the kind that its type takes.
IsRule(row) ==
    /\ row = [type |-> row.type, kind |-> row.kind, value |-> row.value, status |-> row.status]
    /\ row.type \in RuleType /\ row.status \in Status
    /\ Valid(row)
    /\ row.value \in ValueOf(row.kind)

\* The rules there are at the start are rules, payloads give what columns can hold,
\* requests are made by users, and None is no row.
Assumptions ==
    /\ MaxTime \in Nat \ {0}
    /\ \A f \in InitialRules : /\ f = [r \in RuleId |-> f[r]]
                               /\ \A r \in RuleId : f[r] # None => IsRule(f[r])
    /\ \A p \in Payload : /\ p.type \in RuleType \cup {None}
                          /\ p.status \in Status \cup {None}
                          /\ p.kind # None => p.value \in ValueOf(p.kind)
    /\ \A p \in Profile : p.users \subseteq User
    /\ \A t \in RuleType :
         None \notin [type : {t}, kind : {Kind[t]}, value : ValueOf(Kind[t]), status : Status]
    /\ None \notin [count : Nat, until : Nat]

-----------------------------------------------------------------------------
(* The rows of the rules *)

IsDesk(h) ==
    \/ h.pc = "idle"
    \/ /\ h.pc = "update" /\ h.rule \in RuleId /\ h.payload \in Payload
       /\ IsRule(h.row) /\ Valid(Merged(h.payload, h.row))
    \/ h.pc \in {"bind", "unbind"} /\ h.rule \in RuleId /\ h.resource \in ResourceId
    \/ h.pc = "delete" /\ h.rule \in RuleId

GuestPc == {"new", "banned?", "bound", "rules", "admitted", "refused"}
\* Guests with whatever they have read.
Guests(P, B, R, S, N) ==
    [pc : GuestPc, profile : P, bound : B, rules : R, stood : S, bans : N]
IsGuest(g) == \E P, B, R, S, N : g \in Guests(P, B, R, S, N)

RulesOK == /\ rules = [r \in RuleId |-> rules[r]]
           /\ \A r \in RuleId : Exists(r) => IsRule(rules[r])

\* No binding, profile or penalty in the making is of a rule that is not there, and no
\* id is given again.
ReferencesOK ==
    /\ bindings \subseteq {r \in RuleId : Exists(r)} \X ResourceId
    /\ profiles \subseteq {r \in RuleId : Exists(r)} \X User
    /\ used \subseteq {r \in RuleId : ~Exists(r)}
    /\ \A e \in Evaluation : \A l \in evaluation[e].log : l.rule \in RuleId /\ Exists(l.rule)

RequestsOK ==
    /\ now \in 1..MaxTime
    /\ desk = [a \in Admin |-> desk[a]] /\ \A a \in Admin : IsDesk(desk[a])
    /\ guest = [q \in Guest |-> guest[q]] /\ \A q \in Guest : IsGuest(guest[q])

RowsInv == RulesOK /\ ReferencesOK /\ RequestsOK

-----------------------------------------------------------------------------
(* The bans *)

Task == [rule : RuleId, user : User, days : Nat]
Penalty == [evaluation : Evaluation, rule : RuleId, user : User, until : Nat]
Restriction == [count : Nat, until : Nat]
EvaluationRecord ==
    [pc : {"new", "next", "restrict", "committed", "failed"}, party : SUBSET User, at : Nat,
     todo : SUBSET Task, current : Task \cup {None},
     rows : [User -> Restriction \cup {None}], log : SUBSET Penalty]

Of(S, u) == {p \in S : p.user = u}

\* A restriction is that of a set of penalties.
Matches(row, S) ==
    /\ IsFiniteSet(S)
    /\ row.count = Cardinality(S)
    /\ row.until \in {0} \cup {p.until : p \in S}
    /\ \A p \in S : p.until <= row.until

\* The log entry of task t in evaluation e, which began at a time.
Entry(e, t, at) ==
    [evaluation |-> e, rule |-> t.rule, user |-> t.user, until |-> BanEnd(t, at)]

\* What the row of user u that transaction e has written accounts for: what was
\* committed before, and its own penalties but the one whose restriction is still to be
\* written.
Accounted(e, u) ==
    LET x == evaluation[e]
        all == Of(penalties, u) \cup Of(x.log, u)
    IN IF x.pc = "restrict" THEN all \ {Entry(e, x.current, x.at)} ELSE all

EvaluationOK(e) ==
    LET x == evaluation[e] IN
    /\ x.pc \notin {"next", "restrict"} =>
         x.todo = {} /\ x.log = {} /\ \A u \in User : x.rows[u] = None
    /\ \A l \in x.log : l.evaluation = e
    /\ \A t \in x.todo : /\ \A l \in x.log : <<l.rule, l.user>> # <<t.rule, t.user>>
                         /\ \A s \in x.todo : <<s.rule, s.user>> = <<t.rule, t.user>> => s = t
    /\ x.pc = "restrict" => /\ x.current \in Task
                            /\ Entry(e, x.current, x.at) \in x.log
                            /\ x.rows[x.current.user] # None
    /\ \A u \in User : IF x.rows[u] = None THEN Of(x.log, u) = {}
                       ELSE Matches(x.rows[u], Accounted(e, u))

BansInv ==
    /\ restrictions \in [User -> Restriction]
    /\ evaluation \in [Evaluation -> EvaluationRecord]
    /\ penalties \subseteq Penalty
    /\ \A u \in User : Matches(restrictions[u], Of(penalties, u))
    /\ \A e \in Evaluation : EvaluationOK(e)
    /\ \A p \in penalties : evaluation[p.evaluation].pc = "committed"
    /\ \A u \in User, e \in Evaluation, f \in Evaluation :
         evaluation[e].rows[u] # None /\ evaluation[f].rows[u] # None => e = f

BookInv == RowsInv /\ BansInv

-----------------------------------------------------------------------------
(* Lemmas about rows *)

\* What an administrator writes is a rule, if it was checked against one.
LEMMA MergedIsRule ==
  ASSUME Assumptions, NEW p \in Payload, NEW row, IsRule(row), Valid(Merged(p, row))
  PROVE  IsRule(Merged(p, row))
<1> DEFINE m == Merged(p, row)
<1>1. m.type \in RuleType /\ m.status \in Status
  BY DEF Merged, Assumptions, IsRule
<1>2. m.value \in ValueOf(m.kind)
  BY DEF Merged, Assumptions, IsRule
<1>3. m = [type |-> m.type, kind |-> m.kind, value |-> m.value, status |-> m.status]
  BY DEF Merged
<1> QED
  BY <1>1, <1>2, <1>3 DEF IsRule

\* A rule that is created from a valid payload is a rule.
LEMMA FreshIsRule ==
  ASSUME Assumptions, NEW p \in Payload, p.type # None, p.kind # None,
         Valid(Merged(p, Fresh))
  PROVE  IsRule(Merged(p, Fresh))
<1> DEFINE m == Merged(p, Fresh)
<1>1. m.type \in RuleType /\ m.status \in Status
  BY DEF Merged, Assumptions, Fresh, Status
<1>2. m.value \in ValueOf(m.kind)
  BY DEF Merged, Assumptions, Fresh
<1>3. m = [type |-> m.type, kind |-> m.kind, value |-> m.value, status |-> m.status]
  BY DEF Merged
<1> QED
  BY <1>1, <1>2, <1>3 DEF IsRule

\* A rule is never None.
LEMMA RuleIsNotNone ==
  ASSUME Assumptions, NEW row, IsRule(row)
  PROVE  row # None
<1>1. row.kind = Kind[row.type]
  BY DEF IsRule, Valid
<1>2. row \in [type : {row.type}, kind : {Kind[row.type]}, value : ValueOf(Kind[row.type]),
              status : Status]
  BY <1>1 DEF IsRule
<1> QED
  BY <1>2 DEF Assumptions, IsRule

\* Guests keep their shape when the rules they read are written over.
LEMMA WriteRuleKeepsGuests ==
  ASSUME RequestsOK, NEW R,
         guest' = [q \in Guest |-> [guest[q] EXCEPT !.stood = @ \ R]]
  PROVE  /\ guest' = [q \in Guest |-> guest'[q]]
         /\ \A q \in Guest : IsGuest(guest'[q])
<1>1. ASSUME NEW q \in Guest PROVE IsGuest(guest'[q])
  <2>1. guest'[q] = [guest[q] EXCEPT !.stood = @ \ R]
    OBVIOUS
  <2>2. PICK P, B, T, S, N : guest[q] \in Guests(P, B, T, S, N)
    BY DEF RequestsOK, IsGuest
  <2>3. guest'[q] \in Guests(P, B, T, {guest[q].stood \ R}, N)
    BY <2>1, <2>2 DEF Guests
  <2> QED
    BY <2>3 DEF IsGuest
<1> QED
  BY <1>1

\* A rule is written: what refers to rules is as before.
LEMMA WriteRuleKeeps ==
  ASSUME Assumptions, RowsInv, NEW r \in RuleId \ used, NEW row, IsRule(row),
         WriteRule(r, row), NEW h, IsDesk(h), NEW a \in Admin,
         desk' \in {desk, [desk EXCEPT ![a] = h]},
         UNCHANGED <<now, bindings, profiles, used, evaluation>>
  PROVE  RowsInv'
<1>1. rules' = [rules EXCEPT ![r] = row] /\ row # None
  BY RuleIsNotNone DEF WriteRule
<1>2. RulesOK'
  BY <1>1 DEF RowsInv, RulesOK, Exists
<1>3. \A s \in RuleId : Exists(s) => Exists(s)'
  BY <1>1 DEF RowsInv, RulesOK, Exists
<1>4. \A s \in used : ~Exists(s)'
  BY <1>1 DEF RowsInv, RulesOK, ReferencesOK, Exists
<1>5. ReferencesOK'
  BY <1>3, <1>4 DEF RowsInv, ReferencesOK
<1>6. /\ guest' = [q \in Guest |-> guest'[q]]
      /\ \A q \in Guest : IsGuest(guest'[q])
  BY WriteRuleKeepsGuests DEF WriteRule, RowsInv
<1>7. desk' = [b \in Admin |-> desk'[b]] /\ \A b \in Admin : IsDesk(desk'[b])
  BY DEF RowsInv, RequestsOK
<1> QED
  BY <1>2, <1>5, <1>6, <1>7 DEF RowsInv, RequestsOK

-----------------------------------------------------------------------------
(* Administrators *)

\* A new rule is one its type can take.
LEMMA CreateRuleKeeps ==
  ASSUME Assumptions, RowsInv, NEW a \in Admin, CreateRule(a)
  PROVE  RowsInv'
<1>1. PICK r \in RuleId \ used, p \in Payload :
        /\ p.type # None /\ p.kind # None
        /\ Valid(Merged(p, Fresh))
        /\ WriteRule(r, Merged(p, Fresh))
  BY DEF CreateRule
<1>2. IsRule(Merged(p, Fresh))
  BY <1>1, FreshIsRule
<1>3. IsDesk(Idle)
  BY DEF IsDesk, Idle
<1> QED
  BY <1>1, <1>2, <1>3, WriteRuleKeeps DEF CreateRule

\* What an update has found is a rule.
LEMMA FindRuleKeeps ==
  ASSUME Assumptions, RowsInv, NEW a \in Admin, FindRule(a)
  PROVE  RowsInv'
<1>1. PICK r \in RuleId : /\ Exists(r)
                          /\ \E h : IsDesk(h) /\ desk' = [desk EXCEPT ![a] = h]
                          /\ UNCHANGED <<now, rows, restrictions, guest, evaluation, penalties>>
  <2>1. PICK r \in RuleId :
          /\ Exists(r)
          /\ \/ \E p \in Payload :
                  /\ Valid(Merged(p, rules[r]))
                  /\ desk' = [desk EXCEPT ![a] =
                       [[Idle EXCEPT !.pc = "update", !.row = rules[r], !.payload = p]
                          EXCEPT !.rule = r]]
             \/ \E s \in ResourceId, pc \in {"bind", "unbind"} :
                  desk' = [desk EXCEPT ![a] =
                    [[Idle EXCEPT !.pc = pc, !.resource = s] EXCEPT !.rule = r]]
             \/ desk' = [desk EXCEPT ![a] = [[Idle EXCEPT !.pc = "delete"] EXCEPT !.rule = r]]
          /\ UNCHANGED <<now, rows, restrictions, guest, evaluation, penalties>>
    BY DEF FindRule
  <2>2. IsRule(rules[r])
    BY <2>1 DEF RowsInv, RulesOK
  <2>3. ASSUME NEW p \in Payload, Valid(Merged(p, rules[r]))
        PROVE  IsDesk([[Idle EXCEPT !.pc = "update", !.row = rules[r], !.payload = p]
                         EXCEPT !.rule = r])
    <3> DEFINE h == [[Idle EXCEPT !.pc = "update", !.row = rules[r], !.payload = p]
                       EXCEPT !.rule = r]
    <3>1. h.pc = "update" /\ h.rule = r /\ h.payload = p /\ h.row = rules[r]
      BY DEF Idle
    <3> HIDE DEF h
    <3> QED
      BY <2>2, <2>3, <3>1 DEF IsDesk
  <2>4. ASSUME NEW s \in ResourceId, NEW pc \in {"bind", "unbind"}
        PROVE  IsDesk([[Idle EXCEPT !.pc = pc, !.resource = s] EXCEPT !.rule = r])
    <3> DEFINE h == [[Idle EXCEPT !.pc = pc, !.resource = s] EXCEPT !.rule = r]
    <3>1. h.pc = pc /\ h.rule = r /\ h.resource = s
      BY DEF Idle
    <3> HIDE DEF h
    <3> QED
      BY <3>1 DEF IsDesk
  <2>5. IsDesk([[Idle EXCEPT !.pc = "delete"] EXCEPT !.rule = r])
    <3> DEFINE h == [[Idle EXCEPT !.pc = "delete"] EXCEPT !.rule = r]
    <3>1. h.pc = "delete" /\ h.rule = r
      BY DEF Idle
    <3> HIDE DEF h
    <3> QED
      BY <3>1 DEF IsDesk
  <2> QED
    BY <2>1, <2>3, <2>4, <2>5
<1>2. PICK h : IsDesk(h) /\ desk' = [desk EXCEPT ![a] = h]
  BY <1>1
<1>3. desk' = [b \in Admin |-> desk'[b]] /\ \A b \in Admin : IsDesk(desk'[b])
  BY <1>2 DEF RowsInv, RequestsOK
<1> QED
  BY <1>1, <1>3 DEF rows, RowsInv, RulesOK, ReferencesOK, RequestsOK, Exists

\* A request of an administrator that ends without writing a rule.
LEMMA DeskEnds ==
  ASSUME Assumptions, RowsInv, NEW a \in Admin,
         desk' = [desk EXCEPT ![a] = Idle],
         UNCHANGED <<now, rules, profiles, used, evaluation>>,
         bindings' \subseteq {r \in RuleId : Exists(r)} \X ResourceId,
         guest' = guest \/ \E R : guest' = [q \in Guest |-> [guest[q] EXCEPT !.stood = @ \ R]]
  PROVE  RowsInv'
<1>1. IsDesk(Idle)
  BY DEF IsDesk, Idle
<1>2. desk' = [b \in Admin |-> desk'[b]] /\ \A b \in Admin : IsDesk(desk'[b])
  BY <1>1 DEF RowsInv, RequestsOK
<1>3. guest' = [q \in Guest |-> guest'[q]] /\ \A q \in Guest : IsGuest(guest'[q])
  BY WriteRuleKeepsGuests DEF RowsInv, RequestsOK
<1>4. RulesOK' /\ ReferencesOK'
  BY DEF RowsInv, RulesOK, ReferencesOK, Exists
<1> QED
  BY <1>2, <1>3, <1>4 DEF RowsInv, RequestsOK

\* What an update writes is a rule its type can take.
LEMMA UpdateRuleKeeps ==
  ASSUME Assumptions, RowsInv, NEW a \in Admin, UpdateRule(a)
  PROVE  RowsInv'
<1> DEFINE h == desk[a]
           m == Merged(h.payload, h.row)
           s == IF h.payload.status # None THEN h.payload.status ELSE rules[h.rule].status
           row == [m EXCEPT !.status = s]
<1>1. /\ h.rule \in RuleId /\ h.payload \in Payload
      /\ IsRule(h.row) /\ Valid(m)
  BY DEF UpdateRule, RowsInv, RequestsOK, IsDesk
<1>2. desk' = [desk EXCEPT ![a] = Idle] /\ IsDesk(Idle)
  BY DEF UpdateRule, IsDesk, Idle
<1>3. UNCHANGED <<now, bindings, profiles, used, evaluation>>
  BY DEF UpdateRule
<1>4. CASE Exists(h.rule)
  <2>1. IsRule(m)
    BY <1>1, MergedIsRule
  <2>2. IsRule(rules[h.rule])
    BY <1>1, <1>4 DEF RowsInv, RulesOK
  <2>3. s \in Status
    BY <1>1, <2>2 DEF IsRule, Assumptions
  <2>4. h.rule \in RuleId \ used
    BY <1>1, <1>4 DEF RowsInv, ReferencesOK
  <2>5. WriteRule(h.rule, row)
    BY <1>4 DEF UpdateRule
  <2> HIDE DEF s, m, h
  <2>6. IsRule(row)
    <3>1. row = [type |-> m.type, kind |-> m.kind, value |-> m.value, status |-> s]
      BY <2>1 DEF IsRule
    <3> QED
      BY <2>1, <2>3, <3>1 DEF IsRule, Valid
  <2> HIDE DEF row
  <2> QED
    BY <1>2, <1>3, <2>4, <2>5, <2>6, WriteRuleKeeps
<1>5. CASE ~Exists(h.rule)
  <2>1. UNCHANGED <<rules, guest>>
    BY <1>5 DEF UpdateRule
  <2> QED
    BY <1>2, <1>3, <2>1, DeskEnds DEF RowsInv, ReferencesOK
<1> QED
  BY <1>4, <1>5

\* A binding is of a rule and a resource there are.
LEMMA BindKeeps ==
  ASSUME Assumptions, RowsInv, NEW a \in Admin, Bind(a)
  PROVE  RowsInv'
<1> DEFINE h == desk[a]
<1>1. h.rule \in RuleId /\ h.resource \in ResourceId
  BY DEF Bind, RowsInv, RequestsOK, IsDesk
<1>2. bindings' \subseteq {r \in RuleId : Exists(r)} \X ResourceId
  BY <1>1 DEF Bind, RowsInv, ReferencesOK
<1>3. desk' = [desk EXCEPT ![a] = Idle] /\ UNCHANGED <<now, rules, profiles, used, evaluation>>
  BY DEF Bind
<1>4. \E R : guest' = [q \in Guest |-> [guest[q] EXCEPT !.stood = @ \ R]]
  BY DEF Bind
<1> QED
  BY <1>2, <1>3, <1>4, DeskEnds

\* A rule that is deleted takes its bindings and profiles with it.
LEMMA DeleteRuleKeeps ==
  ASSUME Assumptions, RowsInv, NEW a \in Admin, DeleteRule(a)
  PROVE  RowsInv'
<1>1. PICK r \in RuleId : r = desk[a].rule
  BY DEF DeleteRule, RowsInv, RequestsOK, IsDesk
<1>2. desk' = [desk EXCEPT ![a] = Idle] /\ IsDesk(Idle)
  BY DEF DeleteRule, IsDesk, Idle
<1>3. CASE Exists(r)
  <2>1. /\ rules' = [rules EXCEPT ![r] = None]
        /\ guest' = [q \in Guest |-> [guest[q] EXCEPT !.stood = @ \ {r}]]
        /\ bindings' = {b \in bindings : b[1] # r}
        /\ profiles' = {p \in profiles : p[1] # r}
        /\ used' = used \cup {r}
        /\ UNCHANGED <<now, evaluation>>
        /\ \A e \in Evaluation : \A l \in evaluation[e].log : l.rule # r
    BY <1>1, <1>3 DEF DeleteRule, WriteRule
  <2>2. /\ ~Exists(r)'
        /\ \A s \in RuleId \ {r} : rules'[s] = rules[s]
    BY <1>1, <2>1 DEF RowsInv, RulesOK, Exists
  <2>3. RulesOK'
    BY <1>1, <2>1, <2>2 DEF RowsInv, RulesOK, Exists
  <2>4. \A s \in RuleId : Exists(s)' <=> Exists(s) /\ s # r
    BY <2>2 DEF Exists
  <2>5. ReferencesOK'
    <3>1. bindings' \subseteq {s \in RuleId : Exists(s)'} \X ResourceId
      BY <2>1, <2>4 DEF RowsInv, ReferencesOK
    <3>2. profiles' \subseteq {s \in RuleId : Exists(s)'} \X User
      BY <2>1, <2>4 DEF RowsInv, ReferencesOK
    <3>3. used' \subseteq {s \in RuleId : ~Exists(s)'}
      BY <1>1, <2>1, <2>4 DEF RowsInv, ReferencesOK
    <3>4. \A e \in Evaluation : \A l \in evaluation'[e].log :
            l.rule \in RuleId /\ Exists(l.rule)'
      BY <2>1, <2>4 DEF RowsInv, ReferencesOK
    <3> QED
      BY <3>1, <3>2, <3>3, <3>4 DEF ReferencesOK
  <2>6. guest' = [q \in Guest |-> guest'[q]] /\ \A q \in Guest : IsGuest(guest'[q])
    BY <2>1, WriteRuleKeepsGuests DEF RowsInv
  <2>7. desk' = [b \in Admin |-> desk'[b]] /\ \A b \in Admin : IsDesk(desk'[b])
    BY <1>2 DEF RowsInv, RequestsOK
  <2> QED
    BY <2>1, <2>3, <2>5, <2>6, <2>7 DEF RowsInv, RequestsOK
<1>4. CASE ~Exists(r)
  <2>1. UNCHANGED <<rows, guest, now, evaluation>>
    BY <1>1, <1>4 DEF DeleteRule
  <2> QED
    BY <1>2, <2>1, DeskEnds DEF rows, RowsInv, ReferencesOK
<1> QED
  BY <1>3, <1>4

-----------------------------------------------------------------------------
(* Guests *)

\* A step of a guest changes no row.
LEMMA GuestStepKeeps ==
  ASSUME RowsInv, NEW q \in Guest, NEW g, IsGuest(g), GuestStep(q, g)
  PROVE  RowsInv'
<1>1. guest' = [p \in Guest |-> guest'[p]] /\ \A p \in Guest : IsGuest(guest'[p])
  BY DEF GuestStep, RowsInv, RequestsOK
<1> QED
  BY <1>1 DEF GuestStep, rows, RowsInv, RulesOK, ReferencesOK, RequestsOK, Exists

\* What changes about a guest.
LEMMA GuestParts ==
  ASSUME NEW g, IsGuest(g), NEW pc \in GuestPc, NEW b, NEW r
  PROVE  /\ IsGuest([g EXCEPT !.pc = pc])
         /\ IsGuest([g EXCEPT !.pc = pc, !.bound = b])
         /\ IsGuest([g EXCEPT !.pc = pc, !.bound = b, !.rules = r])
<1>1. PICK P, B, R, S, N :
        g \in Guests(P, B, R, S, N)
  BY DEF IsGuest
<1>2. [g EXCEPT !.pc = pc] \in Guests(P, B, R, S, N)
  BY <1>1 DEF Guests
<1>3. [g EXCEPT !.pc = pc, !.bound = b] \in Guests(P, {b}, R, S, N)
  BY <1>1 DEF Guests
<1>4. [g EXCEPT !.pc = pc, !.bound = b, !.rules = r] \in Guests(P, {b}, {r}, S, N)
  BY <1>1 DEF Guests
<1> QED
  BY <1>2, <1>3, <1>4 DEF IsGuest

\* Whichever step a guest takes, the rows and the other requests stay sound.
LEMMA AskKeeps ==
  ASSUME RowsInv, NEW q \in Guest, Ask(q)
  PROVE  RowsInv'
<1> DEFINE g == guest[q]
<1>1. IsGuest(g)
  BY DEF RowsInv, RequestsOK
<1>2. CASE Arrive(q)
  <2>1. PICK p \in Profile :
          GuestStep(q, [NewGuest EXCEPT
             !.pc = IF p.scope = "reservation" THEN "banned?" ELSE "bound",
             !.profile = p, !.bound = Concerning(p), !.stood = Concerning(p),
             !.bans = restrictions])
    BY <1>2 DEF Arrive
  <2> DEFINE pc == IF p.scope = "reservation" THEN "banned?" ELSE "bound"
             c  == Concerning(p)
  <2>2. pc \in GuestPc
    BY DEF GuestPc
  <2> HIDE DEF pc, c
  <2>3. [NewGuest EXCEPT !.pc = pc, !.profile = p, !.bound = c, !.stood = c,
                         !.bans = restrictions] \in Guests({p}, {c}, {<<>>}, {c}, {restrictions})
    BY <2>2 DEF NewGuest, Guests
  <2>4. IsGuest([NewGuest EXCEPT !.pc = pc, !.profile = p, !.bound = c, !.stood = c,
                                 !.bans = restrictions])
    BY <2>3 DEF IsGuest
  <2>5. GuestStep(q, [NewGuest EXCEPT !.pc = pc, !.profile = p, !.bound = c, !.stood = c,
                                      !.bans = restrictions])
    BY <2>1 DEF pc, c
  <2> QED
    BY <2>4, <2>5, GuestStepKeeps
<1> HIDE DEF g
<1>3. /\ \A pc \in GuestPc : IsGuest([g EXCEPT !.pc = pc])
      /\ \A b : IsGuest([g EXCEPT !.pc = "bound", !.bound = b])
      /\ \A b, r : IsGuest([g EXCEPT !.pc = "rules", !.bound = b, !.rules = r])
  BY <1>1, GuestParts DEF GuestPc
<1>4. CASE CheckBans(q)
  BY <1>3, <1>4, GuestStepKeeps DEF CheckBans, GuestPc, g
<1>5. CASE ReadRules(q)
  BY <1>3, <1>5, GuestStepKeeps DEF ReadRules, GuestPc, g
<1>6. CASE AssertRules(q)
  BY <1>3, <1>6, GuestStepKeeps DEF AssertRules, GuestPc, g
<1> QED
  BY <1>2, <1>4, <1>5, <1>6 DEF Ask

-----------------------------------------------------------------------------
(* Lemmas about bans *)

\* One more penalty counts once and bans until its own end or that of the others.
LEMMA OneMoreMatches ==
  ASSUME NEW row \in Restriction, NEW S \in SUBSET Penalty, Matches(row, S),
         NEW p \in Penalty, p \notin S
  PROVE  LET new == [count |-> row.count + 1, until |-> NextBan(row.until, p.until)]
         IN new \in Restriction /\ Matches(new, S \cup {p})
<1> DEFINE new == [count |-> row.count + 1, until |-> NextBan(row.until, p.until)]
<1>1. IsFiniteSet(S \cup {p}) /\ Cardinality(S \cup {p}) = Cardinality(S) + 1
  BY FS_AddElement DEF Matches
<1>2. new \in Restriction
  BY DEF Restriction, Penalty, NextBan
<1>3. new.until \in {0} \cup {q.until : q \in S \cup {p}}
  BY DEF NextBan, Matches
<1>4. \A q \in S \cup {p} : q.until <= new.until
  BY DEF NextBan, Matches, Penalty, Restriction
<1> QED
  BY <1>1, <1>2, <1>3, <1>4 DEF Matches

\* No penalties match no restriction.
LEMMA NoneMatches == NoRestriction \in Restriction /\ Matches(NoRestriction, {})
<1>1. IsFiniteSet({}) /\ Cardinality({}) = 0
  BY FS_EmptySet
<1> QED
  BY <1>1 DEF NoRestriction, Restriction, Matches

\* A transaction that is not in flight holds nothing and has written nothing.
LEMMA IdleHoldsNothing ==
  ASSUME NEW x \in EvaluationRecord, NEW pc \in {"new", "committed", "failed"}
  PROVE  LET y == [NewEvaluation EXCEPT !.pc = pc] IN
         /\ y \in EvaluationRecord /\ y.pc = pc
         /\ y.todo = {} /\ y.log = {} /\ \A u \in User : y.rows[u] = None
BY DEF NewEvaluation, EvaluationRecord

\* What another evaluation's step leaves of this one's correctness: it depends only on
\* its own record and on the committed penalties of the users it holds.
LEMMA OthersStand ==
  ASSUME NEW e \in Evaluation, EvaluationOK(e), evaluation'[e] = evaluation[e],
         \A u \in User : evaluation[e].rows[u] # None => Of(penalties', u) = Of(penalties, u)
  PROVE  EvaluationOK(e)'
<1>1. \A u \in User : evaluation[e].rows[u] # None => Accounted(e, u)' = Accounted(e, u)
  BY DEF Accounted, Entry, BanEnd
<1> QED
  BY <1>1 DEF EvaluationOK, Entry, BanEnd

\* A step that commits nothing: it is enough to look at the evaluation that takes it.
LEMMA OneEvaluation ==
  ASSUME BansInv, NEW e \in Evaluation, NEW x \in EvaluationRecord,
         evaluation' = [evaluation EXCEPT ![e] = x],
         UNCHANGED <<restrictions, penalties>>,
         evaluation[e].pc # "committed",
         EvaluationOK(e)',
         \A u \in User, f \in Evaluation \ {e} :
            x.rows[u] # None => evaluation[f].rows[u] = None
  PROVE  BansInv'
<1>1. evaluation'[e] = x /\ \A f \in Evaluation \ {e} : evaluation'[f] = evaluation[f]
  BY DEF BansInv
<1>2. \A f \in Evaluation : EvaluationOK(f)'
  BY <1>1, OthersStand DEF BansInv
<1>3. \A p \in penalties : evaluation'[p.evaluation].pc = "committed"
  BY <1>1 DEF BansInv, Penalty
<1>4. \A u \in User, f \in Evaluation, g \in Evaluation :
        evaluation'[f].rows[u] # None /\ evaluation'[g].rows[u] # None => f = g
  BY <1>1 DEF BansInv
<1>5. evaluation' \in [Evaluation -> EvaluationRecord]
  BY DEF BansInv
<1> QED
  BY <1>2, <1>3, <1>4, <1>5 DEF BansInv

-----------------------------------------------------------------------------
(* Evaluations *)

\* What a transaction applies: each penalising rule once to each participant.
LEMMA BeginNoShowKeeps ==
  ASSUME Assumptions, BookInv, NEW e \in Evaluation, BeginNoShow(e)
  PROVE  BansInv' /\ RowsInv'
<1>1. PICK s \in ResourceId, party \in (SUBSET User) \ {{}} :
        EvaluationStep(e, [NewEvaluation EXCEPT !.pc = "next", !.party = party, !.at = now,
                                                !.todo = NoShowTasks(s, party)])
  BY DEF BeginNoShow
<1> DEFINE P == {r \in BoundTo(s) : /\ rules[r].status = "ACTIVE"
                                    /\ rules[r].type = "no_show_credit_penalty"}
           todo == NoShowTasks(s, party)
           x == [NewEvaluation EXCEPT !.pc = "next", !.party = party, !.at = now,
                                      !.todo = todo]
<1>2. \A r \in P : r \in RuleId /\ rules[r].value \in Nat
  <2> TAKE r \in P
  <2>1. r \in RuleId /\ Exists(r)
    BY DEF BoundTo, BookInv, RowsInv, ReferencesOK
  <2>2. IsRule(rules[r])
    BY <2>1 DEF BookInv, RowsInv, RulesOK
  <2>3. rules[r].type = "no_show_credit_penalty"
    OBVIOUS
  <2>4. rules[r].kind = "penalty"
    BY <2>2, <2>3 DEF IsRule, Valid, Kind
  <2> QED
    BY <2>1, <2>2, <2>4 DEF IsRule, ValueOf
<1>3. todo \subseteq Task
  BY <1>2 DEF Task, NoShowTasks
<1>4. \A t, w \in todo : <<t.rule, t.user>> = <<w.rule, w.user>> => t = w
  BY DEF NoShowTasks
<1>5. now \in Nat
  BY DEF BookInv, RowsInv, RequestsOK, Assumptions
<1>6. EvaluationStep(e, x)
  BY <1>1
<1> HIDE DEF todo
<1>7. /\ x \in EvaluationRecord /\ x.pc = "next" /\ x.todo = todo /\ x.log = {}
      /\ \A u \in User : x.rows[u] = None
  BY <1>3, <1>5 DEF NewEvaluation, EvaluationRecord
<1> HIDE DEF x
<1>8. evaluation' = [evaluation EXCEPT ![e] = x] /\ evaluation'[e] = x
  BY <1>6 DEF EvaluationStep, BookInv, BansInv
<1>9. EvaluationOK(e)'
  BY <1>4, <1>7, <1>8 DEF EvaluationOK, Of
<1>10. UNCHANGED <<restrictions, penalties>> /\ evaluation[e].pc # "committed"
  BY DEF BeginNoShow
<1>11. BansInv'
  BY <1>7, <1>8, <1>9, <1>10, OneEvaluation DEF BookInv
<1>12. \A f \in Evaluation : evaluation'[f].log \subseteq evaluation[f].log
  BY <1>7, <1>8 DEF BookInv, BansInv
<1>13. RowsInv'
  BY <1>6, <1>12 DEF BeginNoShow, EvaluationStep, BookInv, RowsInv, RulesOK, ReferencesOK,
                     RequestsOK, Exists
<1> QED
  BY <1>11, <1>13

\* A restriction is never None.
LEMMA RestrictionIsNotNone ==
  ASSUME Assumptions, NEW row \in Restriction
  PROVE  row # None
BY DEF Assumptions, Restriction

\* A penalty is of the user whose restriction the evaluation has locked.
LEMMA PenaliseKeeps ==
  ASSUME Assumptions, BookInv, NEW e \in Evaluation, Penalise(e)
  PROVE  BansInv' /\ RowsInv'
<1> DEFINE x == evaluation[e]
<1>1. PICK t \in x.todo :
        /\ \A f \in Evaluation \ {e} : ~Holds(f, t.user)
        /\ Exists(t.rule)
        /\ EvaluationStep(e, [x EXCEPT
             !.pc = "restrict", !.todo = @ \ {t}, !.current = t,
             !.log = @ \cup {[evaluation |-> e, rule |-> t.rule, user |-> t.user,
                              until |-> BanEnd(t, x.at)]},
             !.rows[t.user] = IF @ = None THEN restrictions[t.user] ELSE @])
  BY DEF Penalise
<1> DEFINE L == Entry(e, t, x.at)
           R == IF x.rows[t.user] = None THEN restrictions[t.user] ELSE x.rows[t.user]
           y == [x EXCEPT !.pc = "restrict", !.todo = @ \ {t}, !.current = t,
                          !.log = @ \cup {L}, !.rows[t.user] = R]
<1>2. EvaluationStep(e, y)
  BY <1>1 DEF Entry
<1>3. x \in EvaluationRecord /\ x.pc = "next" /\ EvaluationOK(e)
  BY DEF Penalise, BookInv, BansInv
<1>4. t \in Task
  BY <1>3 DEF EvaluationRecord
<1>5. /\ L \in Penalty /\ L.rule = t.rule /\ L.user = t.user /\ L.evaluation = e
  BY <1>3, <1>4 DEF Entry, BanEnd, Penalty, Task, EvaluationRecord
<1>6. restrictions[t.user] \in Restriction
  BY <1>4 DEF Task, BookInv, BansInv
<1>7. R \in Restriction /\ R # None
  BY <1>3, <1>4, <1>6, RestrictionIsNotNone DEF Task, EvaluationRecord
<1>8. L \notin x.log
  BY <1>3, <1>5 DEF EvaluationOK
<1>9. L \notin penalties
  BY <1>3, <1>5 DEF BookInv, BansInv
<1> HIDE DEF L, R
<1>10. /\ y \in EvaluationRecord
       /\ y.pc = "restrict" /\ y.todo = x.todo \ {t} /\ y.current = t /\ y.at = x.at
       /\ y.log = x.log \cup {L}
       /\ y.rows[t.user] = R
       /\ \A u \in User \ {t.user} : y.rows[u] = x.rows[u]
  BY <1>3, <1>4, <1>5, <1>7 DEF EvaluationRecord, Task
<1> HIDE DEF y
<1>11. evaluation' = [evaluation EXCEPT ![e] = y] /\ evaluation'[e] = y
  BY <1>2 DEF EvaluationStep, BookInv, BansInv
<1>12. UNCHANGED <<restrictions, penalties>>
  BY DEF Penalise
<1>13. Entry(e, y.current, y.at) = L
  BY <1>10 DEF L
<1>14. \A u \in User : Accounted(e, u)' = Accounted(e, u)
  <2>1. \A u \in User : Accounted(e, u) = Of(penalties, u) \cup Of(x.log, u)
    BY <1>3 DEF Accounted
  <2>2. \A u \in User : Accounted(e, u)' = (Of(penalties, u) \cup Of(y.log, u)) \ {L}
    BY <1>10, <1>11, <1>12, <1>13 DEF Accounted, Entry, BanEnd
  <2>3. \A u \in User : /\ L \notin Of(penalties, u) \cup Of(x.log, u)
                        /\ Of(y.log, u) \cup {L} = Of(x.log, u) \cup {L}
    BY <1>8, <1>9, <1>10 DEF Of
  <2>4. ASSUME NEW u \in User PROVE Accounted(e, u)' = Accounted(e, u)
    <3> DEFINE A == Of(penalties, u)
               B == Of(x.log, u)
               C == Of(y.log, u)
    <3>1. Accounted(e, u) = A \cup B /\ Accounted(e, u)' = (A \cup C) \ {L}
      BY <2>1, <2>2
    <3>2. L \notin A \cup B /\ C \cup {L} = B \cup {L}
      BY <2>3
    <3> HIDE DEF A, B, C
    <3>3. (A \cup C) \ {L} = A \cup B
      BY <3>2
    <3> QED
      BY <3>1, <3>3
  <2> QED
    BY <2>4
<1>15. \A u \in User : IF y.rows[u] = None THEN Of(y.log, u) = {}
                       ELSE Matches(y.rows[u], Accounted(e, u))
  <2>1. Matches(R, Accounted(e, t.user))
    <3>1. CASE x.rows[t.user] = None
      <4>1. Accounted(e, t.user) = Of(penalties, t.user)
        BY <1>3, <1>4, <3>1 DEF Accounted, EvaluationOK, Task
      <4> QED
        BY <1>4, <3>1, <4>1 DEF R, Task, BookInv, BansInv
    <3>2. CASE x.rows[t.user] # None
      BY <1>3, <1>4, <3>2 DEF R, EvaluationOK, Task
    <3> QED
      BY <3>1, <3>2
  <2>2. ASSUME NEW u \in User \ {t.user}, y.rows[u] = None
        PROVE  Of(y.log, u) = {}
    BY <1>3, <1>5, <1>10, <2>2 DEF EvaluationOK, Of
  <2>3. ASSUME NEW u \in User \ {t.user}, y.rows[u] # None
        PROVE  Matches(y.rows[u], Accounted(e, u))
    BY <1>3, <1>10, <2>3 DEF EvaluationOK
  <2> QED
    BY <1>7, <1>10, <2>1, <2>2, <2>3
<1>16. EvaluationOK(e)'
  <2>1. \A l \in y.log : l.evaluation = e
    BY <1>3, <1>5, <1>10 DEF EvaluationOK
  <2>2. \A w \in y.todo :
          /\ \A l \in y.log : <<l.rule, l.user>> # <<w.rule, w.user>>
          /\ \A v \in y.todo : <<v.rule, v.user>> = <<w.rule, w.user>> => v = w
    BY <1>3, <1>5, <1>10 DEF EvaluationOK
  <2>3. y.rows[y.current.user] # None
    BY <1>7, <1>10
  <2> QED
    BY <1>4, <1>10, <1>11, <1>13, <1>14, <1>15, <2>1, <2>2, <2>3 DEF EvaluationOK, Entry, BanEnd
<1>17. \A u \in User, f \in Evaluation \ {e} : y.rows[u] # None => evaluation[f].rows[u] = None
  <2>1. \A f \in Evaluation \ {e} : evaluation[f].rows[t.user] = None
    BY <1>1, <1>4 DEF Holds, Task, BookInv, BansInv, EvaluationOK
  <2>2. \A u \in User \ {t.user}, f \in Evaluation \ {e} :
          y.rows[u] # None => evaluation[f].rows[u] = None
    BY <1>10 DEF BookInv, BansInv
  <2> QED
    BY <2>1, <2>2
<1>18. BansInv'
  BY <1>3, <1>10, <1>11, <1>12, <1>16, <1>17, OneEvaluation DEF BookInv
<1>19. \A f \in Evaluation : \A l \in evaluation'[f].log : l.rule \in RuleId /\ Exists(l.rule)
  BY <1>1, <1>4, <1>5, <1>10, <1>11 DEF Task, BookInv, RowsInv, ReferencesOK
<1>20. RowsInv'
  BY <1>2, <1>19 DEF Penalise, EvaluationStep, BookInv, RowsInv, RulesOK, ReferencesOK,
                     RequestsOK, Exists
<1> QED
  BY <1>18, <1>20

\* The restriction of a penalty is written.
LEMMA WriteRestrictionKeeps ==
  ASSUME Assumptions, BookInv, NEW e \in Evaluation, WriteRestriction(e)
  PROVE  BansInv' /\ RowsInv'
<1> DEFINE x == evaluation[e]
<1>0. PICK t \in Task : t = x.current
  BY DEF WriteRestriction, BookInv, BansInv, EvaluationOK
<1> DEFINE L == Entry(e, t, x.at)
           old == x.rows[t.user]
           R == [count |-> old.count + 1, until |-> NextBan(old.until, L.until)]
           y == [x EXCEPT !.pc = "next", !.current = None, !.rows[t.user] = R]
<1>1. EvaluationStep(e, y)
  BY <1>0 DEF WriteRestriction, Entry
<1>2. x \in EvaluationRecord /\ x.pc = "restrict" /\ EvaluationOK(e)
  BY DEF WriteRestriction, BookInv, BansInv
<1>3. L \in x.log /\ old # None
  BY <1>0, <1>2 DEF EvaluationOK
<1>4. old \in Restriction /\ L \in Penalty /\ L.user = t.user
  BY <1>2, <1>3 DEF EvaluationRecord, Task, Entry
<1>5. \A u \in User : Accounted(e, u) = (Of(penalties, u) \cup Of(x.log, u)) \ {L}
  BY <1>0, <1>2 DEF Accounted
<1> HIDE DEF L
<1>6. Matches(old, Accounted(e, t.user))
  BY <1>2, <1>3 DEF EvaluationOK, Task
<1>7. Accounted(e, t.user) \in SUBSET Penalty /\ L \notin Accounted(e, t.user)
  <2>1. Of(penalties, t.user) \cup Of(x.log, t.user) \in SUBSET Penalty
    BY <1>2 DEF BookInv, BansInv, EvaluationRecord, Of
  <2>2. t.user \in User
    BY DEF Task
  <2> QED
    BY <1>5, <2>1, <2>2
<1> HIDE DEF old
<1>8. R \in Restriction /\ Matches(R, Accounted(e, t.user) \cup {L})
  BY <1>4, <1>6, <1>7, OneMoreMatches
<1>9. R # None
  BY <1>8, RestrictionIsNotNone
<1> HIDE DEF R
<1>10. /\ y \in EvaluationRecord
       /\ y.pc = "next" /\ y.todo = x.todo /\ y.at = x.at /\ y.log = x.log
       /\ y.rows[t.user] = R
       /\ \A u \in User \ {t.user} : y.rows[u] = x.rows[u]
  BY <1>2, <1>3, <1>8 DEF EvaluationRecord, Task
<1> HIDE DEF y
<1>11. evaluation' = [evaluation EXCEPT ![e] = y] /\ evaluation'[e] = y
  BY <1>1 DEF EvaluationStep, BookInv, BansInv
<1>12. UNCHANGED <<restrictions, penalties, profiles>>
  BY DEF WriteRestriction
<1>13. \A u \in User : Accounted(e, u)' = Of(penalties, u) \cup Of(x.log, u)
  BY <1>10, <1>11, <1>12 DEF Accounted
<1>14. Accounted(e, t.user)' = Accounted(e, t.user) \cup {L}
  <2>1. L \in Of(x.log, t.user)
    BY <1>3, <1>4 DEF Of
  <2>2. t.user \in User
    BY <1>3 DEF Task
  <2> QED
    BY <1>5, <1>13, <2>1, <2>2
<1>15. \A u \in User \ {t.user} : Accounted(e, u)' = Accounted(e, u)
  <2>1. \A u \in User \ {t.user} : L \notin Of(penalties, u) \cup Of(x.log, u)
    BY <1>4 DEF Of
  <2> QED
    BY <1>5, <1>13, <2>1
<1>16. \A u \in User : IF y.rows[u] = None THEN Of(y.log, u) = {}
                       ELSE Matches(y.rows[u], Accounted(e, u)')
  <2>1. ASSUME NEW u \in User \ {t.user}
        PROVE  IF y.rows[u] = None THEN Of(y.log, u) = {}
               ELSE Matches(y.rows[u], Accounted(e, u)')
    BY <1>2, <1>10, <1>15 DEF EvaluationOK
  <2> QED
    BY <1>8, <1>9, <1>10, <1>14, <2>1
<1>17. EvaluationOK(e)'
  BY <1>2, <1>10, <1>11, <1>16 DEF EvaluationOK
<1>18. \A u \in User, f \in Evaluation \ {e} : y.rows[u] # None => evaluation[f].rows[u] = None
  BY <1>3, <1>10 DEF BookInv, BansInv, Task, old
<1>19. BansInv'
  BY <1>2, <1>10, <1>11, <1>12, <1>17, <1>18, OneEvaluation DEF BookInv
<1>20. \A f \in Evaluation : evaluation'[f].log = evaluation[f].log
  BY <1>10, <1>11 DEF BookInv, BansInv
<1>21. RowsInv'
  BY <1>1, <1>12, <1>20 DEF EvaluationStep, BookInv, RowsInv, RulesOK, ReferencesOK,
                            RequestsOK, Exists
<1> QED
  BY <1>19, <1>21

\* A transaction that is rolled back leaves nothing.
LEMMA FailNoShowKeeps ==
  ASSUME Assumptions, BookInv, NEW e \in Evaluation, FailNoShow(e)
  PROVE  BansInv' /\ RowsInv'
<1> DEFINE y == [NewEvaluation EXCEPT !.pc = "failed"]
<1>1. /\ y \in EvaluationRecord /\ y.pc = "failed"
      /\ y.todo = {} /\ y.log = {} /\ \A u \in User : y.rows[u] = None
  BY DEF NewEvaluation, EvaluationRecord
<1>2. EvaluationStep(e, y)
  BY DEF FailNoShow
<1> HIDE DEF y
<1>3. evaluation' = [evaluation EXCEPT ![e] = y] /\ evaluation'[e] = y
  BY <1>2 DEF EvaluationStep, BookInv, BansInv
<1>4. UNCHANGED <<restrictions, penalties, profiles>> /\ evaluation[e].pc # "committed"
  BY DEF FailNoShow
<1>5. EvaluationOK(e)'
  BY <1>1, <1>3 DEF EvaluationOK, Of
<1>6. BansInv'
  BY <1>1, <1>3, <1>4, <1>5, OneEvaluation DEF BookInv
<1>7. \A f \in Evaluation : evaluation'[f].log \subseteq evaluation[f].log
  BY <1>1, <1>3 DEF BookInv, BansInv
<1>8. RowsInv'
  BY <1>2, <1>4, <1>7 DEF EvaluationStep, BookInv, RowsInv, RulesOK, ReferencesOK,
                          RequestsOK, Exists
<1> QED
  BY <1>6, <1>8

\* A transaction that commits makes its rows the restrictions of the users it holds,
\* and its log their penalties.
LEMMA CommitNoShowKeeps ==
  ASSUME Assumptions, BookInv, NEW e \in Evaluation, CommitNoShow(e)
  PROVE  BansInv' /\ RowsInv'
<1> DEFINE x == evaluation[e]
           y == [NewEvaluation EXCEPT !.pc = "committed"]
<1>1. /\ y \in EvaluationRecord /\ y.pc = "committed"
      /\ y.todo = {} /\ y.log = {} /\ \A u \in User : y.rows[u] = None
  BY DEF NewEvaluation, EvaluationRecord
<1>2. EvaluationStep(e, y)
  BY DEF CommitNoShow
<1> HIDE DEF y
<1>3. evaluation' = [evaluation EXCEPT ![e] = y] /\ evaluation'[e] = y
  BY <1>2 DEF EvaluationStep, BookInv, BansInv
<1>4. x \in EvaluationRecord /\ x.pc = "next" /\ EvaluationOK(e)
  BY DEF CommitNoShow, BookInv, BansInv
<1>5. /\ restrictions' = [u \in User |-> IF x.rows[u] # None THEN x.rows[u] ELSE restrictions[u]]
      /\ profiles' = profiles \cup {<<l.rule, l.user>> : l \in x.log}
      /\ penalties' = penalties \cup x.log
  BY DEF CommitNoShow
<1>6. \A u \in User : Of(penalties', u) = Of(penalties, u) \cup Of(x.log, u)
  BY <1>5 DEF Of
<1>7. \A u \in User : Matches(restrictions'[u], Of(penalties', u))
  <2> TAKE u \in User
  <2>1. CASE x.rows[u] = None
    <3>1. Of(penalties', u) = Of(penalties, u) /\ restrictions'[u] = restrictions[u]
      BY <1>4, <1>5, <1>6, <2>1 DEF EvaluationOK
    <3> QED
      BY <3>1 DEF BookInv, BansInv
  <2>2. CASE x.rows[u] # None
    <3>1. Accounted(e, u) = Of(penalties', u)
      BY <1>4, <1>6 DEF Accounted
    <3> QED
      BY <1>4, <1>5, <2>2, <3>1 DEF EvaluationOK
  <2> QED
    BY <2>1, <2>2
<1>8. ASSUME NEW f \in Evaluation \ {e}
      PROVE  EvaluationOK(f)'
  <2>1. evaluation'[f] = evaluation[f]
    BY <1>3 DEF BookInv, BansInv
  <2>2. \A u \in User : evaluation[f].rows[u] # None => x.rows[u] = None
    BY DEF BookInv, BansInv
  <2>3. \A u \in User : evaluation[f].rows[u] # None => Of(penalties', u) = Of(penalties, u)
    BY <1>4, <1>6, <2>2 DEF EvaluationOK
  <2> QED
    BY <2>1, <2>3, OthersStand DEF BookInv, BansInv
<1>9. EvaluationOK(e)'
  BY <1>1, <1>3 DEF EvaluationOK, Of
<1>10. restrictions' \in [User -> Restriction]
  BY <1>4, <1>5 DEF EvaluationRecord, BookInv, BansInv
<1>11. penalties' \subseteq Penalty
  BY <1>4, <1>5 DEF EvaluationRecord, BookInv, BansInv
<1>12. \A p \in penalties' : evaluation'[p.evaluation].pc = "committed"
  BY <1>1, <1>3, <1>4, <1>5 DEF EvaluationOK, BookInv, BansInv, Penalty
<1>13. \A u \in User, f \in Evaluation, g \in Evaluation :
         evaluation'[f].rows[u] # None /\ evaluation'[g].rows[u] # None => f = g
  BY <1>1, <1>3 DEF BookInv, BansInv
<1>14. evaluation' \in [Evaluation -> EvaluationRecord]
  BY <1>1, <1>3 DEF BookInv, BansInv
<1>15. BansInv'
  BY <1>7, <1>8, <1>9, <1>10, <1>11, <1>12, <1>13, <1>14 DEF BansInv
<1>16. profiles' \subseteq {r \in RuleId : Exists(r)} \X User
  <2>1. \A l \in x.log : l.rule \in RuleId /\ Exists(l.rule) /\ l.user \in User
    BY <1>4 DEF EvaluationRecord, Penalty, BookInv, RowsInv, ReferencesOK
  <2> QED
    BY <1>5, <2>1 DEF BookInv, RowsInv, ReferencesOK
<1>17. \A f \in Evaluation : evaluation'[f].log \subseteq evaluation[f].log
  BY <1>1, <1>3 DEF BookInv, BansInv
<1>18. RowsInv'
  BY <1>2, <1>16, <1>17 DEF EvaluationStep, BookInv, RowsInv, RulesOK, ReferencesOK,
                            RequestsOK, Exists
<1> QED
  BY <1>15, <1>18

-----------------------------------------------------------------------------
(* Theorems *)

\* Every step keeps the rule book sound,
LEMMA StepKeeps ==
  ASSUME Assumptions, BookInv, [Next]_vars
  PROVE  BookInv'
<1>1. CASE UNCHANGED <<restrictions, evaluation, penalties>> /\ RowsInv'
  BY <1>1 DEF BookInv, BansInv, EvaluationOK, Accounted, Entry, BanEnd
<1>2. CASE Tick
  <2>1. now' \in 1..MaxTime
    BY <1>2 DEF Tick, BookInv, RowsInv, RequestsOK, Assumptions
  <2> QED
    BY <1>1, <1>2, <2>1 DEF Tick, rows, BookInv, RowsInv, RulesOK, ReferencesOK, RequestsOK,
                            Exists
<1>3. ASSUME NEW a \in Admin, Administer(a)
      PROVE  BookInv'
  <2>1. RowsInv'
    BY <1>3, CreateRuleKeeps, FindRuleKeeps, UpdateRuleKeeps, BindKeeps, DeleteRuleKeeps
       DEF Administer, BookInv
  <2>2. UNCHANGED <<restrictions, evaluation, penalties>>
    BY <1>3 DEF Administer, CreateRule, FindRule, UpdateRule, Bind, DeleteRule
  <2> QED
    BY <1>1, <2>1, <2>2
<1>4. ASSUME NEW q \in Guest, Ask(q)
      PROVE  BookInv'
  <2>1. RowsInv'
    BY <1>4, AskKeeps DEF BookInv
  <2>2. UNCHANGED <<restrictions, evaluation, penalties>>
    BY <1>4 DEF Ask, Arrive, CheckBans, ReadRules, AssertRules, GuestStep
  <2> QED
    BY <1>1, <2>1, <2>2
<1>5. ASSUME NEW e \in Evaluation, Evaluate(e)
      PROVE  BookInv'
  <2> QED
    BY <1>5, BeginNoShowKeeps, PenaliseKeeps, WriteRestrictionKeeps, FailNoShowKeeps,
       CommitNoShowKeeps
       DEF Evaluate, BookInv
<1>6. CASE UNCHANGED vars
  BY <1>1, <1>6 DEF vars, rows, BookInv, RowsInv, RulesOK, ReferencesOK, RequestsOK, Exists
<1> QED
  BY <1>2, <1>3, <1>4, <1>5, <1>6 DEF Next

\* which it is at the start,
LEMMA BookInit ==
  ASSUME Assumptions, Init PROVE BookInv
<1>1. IsDesk(Idle)
  BY DEF IsDesk, Idle
<1>2. NewGuest \in Guests({None}, {{}}, {<<>>}, {{}}, {<<>>})
  BY DEF NewGuest, Guests, GuestPc
<1>3. IsGuest(NewGuest)
  BY <1>2 DEF IsGuest
<1>4. /\ NewEvaluation \in EvaluationRecord /\ NewEvaluation.pc = "new"
      /\ NewEvaluation.todo = {} /\ NewEvaluation.log = {}
      /\ \A u \in User : NewEvaluation.rows[u] = None
  BY DEF NewEvaluation, EvaluationRecord
<1>5. RulesOK
  BY DEF Init, RulesOK, Exists, Assumptions
<1>6. ReferencesOK
  BY <1>4 DEF Init, ReferencesOK
<1>7. RequestsOK
  BY <1>1, <1>3 DEF Init, RequestsOK, Assumptions
<1>8. \A u \in User : Of(penalties, u) = {}
  BY DEF Init, Of
<1>9. \A e \in Evaluation : EvaluationOK(e)
  BY <1>4 DEF Init, EvaluationOK, Of
<1>10. BansInv
  BY <1>4, <1>8, <1>9, NoneMatches DEF Init, BansInv
<1> QED
  BY <1>5, <1>6, <1>7, <1>10 DEF BookInv, RowsInv

\* and so throughout.
LEMMA BookInvariant ==
  ASSUME Assumptions PROVE Spec => []BookInv
<1>1. Init => BookInv
  BY BookInit
<1>2. BookInv /\ [Next]_vars => BookInv'
  BY StepKeeps
<1> QED
  BY <1>1, <1>2, PTL DEF Spec

\* The invariant has the types.
LEMMA BookTypes == BookInv => TypeOK
<1> SUFFICES ASSUME BookInv PROVE TypeOK
  OBVIOUS
<1>1. \A r \in RuleId : Exists(r) =>
        rules[r].type \in RuleType /\ rules[r].status \in {"ACTIVE", "INACTIVE"}
  BY DEF BookInv, RowsInv, RulesOK, IsRule, Status
<1>2. \A a \in Admin : desk[a].pc \in {"idle", "update", "bind", "unbind", "delete"}
  BY DEF BookInv, RowsInv, RequestsOK, IsDesk
<1>3. \A q \in Guest : guest[q].pc \in GuestPc
  <2> TAKE q \in Guest
  <2>1. PICK P, B, R, S, N : guest[q] \in Guests(P, B, R, S, N)
    BY DEF BookInv, RowsInv, RequestsOK, IsGuest
  <2> QED
    BY <2>1 DEF Guests
<1>4. \A e \in Evaluation :
        evaluation[e].pc \in {"new", "next", "restrict", "committed", "failed"}
  BY DEF BookInv, BansInv, EvaluationRecord
<1>5. /\ now \in 1..MaxTime
      /\ bindings \subseteq {r \in RuleId : Exists(r)} \X ResourceId
      /\ profiles \subseteq {r \in RuleId : Exists(r)} \X User
      /\ used \subseteq {r \in RuleId : ~Exists(r)}
      /\ restrictions \in [User -> [count : Nat, until : Nat]]
  BY DEF BookInv, RowsInv, ReferencesOK, RequestsOK, BansInv, Restriction
<1> QED
  BY <1>1, <1>2, <1>3, <1>4, <1>5 DEF TypeOK, GuestPc

\* Every variable keeps its type: no binding and no profile is of a rule that was
\* deleted, whichever counts were read before the deletion, and no id is given again.
THEOREM TypeCorrect ==
  ASSUME Assumptions PROVE Spec => []TypeOK
<1>1. BookInv => TypeOK
  BY BookTypes
<1> QED
  BY <1>1, BookInvariant, PTL

\* The invariant says that rules are valid.
LEMMA BookRules == BookInv => RulesAreValid
BY DEF BookInv, RowsInv, RulesOK, IsRule, RulesAreValid

\* updateRule writes the type and the expression of the row it has read: whatever
\* administrators change at once, a rule's type can take its expression.
THEOREM RulesRight ==
  ASSUME Assumptions PROVE Spec => []RulesAreValid
<1>1. BookInv => RulesAreValid
  BY BookRules
<1> QED
  BY <1>1, BookInvariant, PTL

\* The restriction of a set of penalties ends with the last of them.
LEMMA UntilIsMax ==
  ASSUME NEW row \in Restriction, NEW S \in SUBSET Penalty, Matches(row, S)
  PROVE  row.until = Max({0} \cup {p.until : p \in S})
<1> DEFINE T == {0} \cup {p.until : p \in S}
<1>1. row.until \in T /\ \A n \in T : row.until >= n
  BY DEF Matches, Restriction, Penalty
<1>2. T \subseteq Int
  BY DEF Penalty
<1> HIDE DEF T
<1>3. PICK m \in T : m = Max(T) /\ \A n \in T : m >= n
  BY <1>1 DEF Max
<1>4. row.until = m
  <2>1. row.until \in Int /\ m \in Int
    BY <1>1, <1>2
  <2>2. row.until >= m /\ m >= row.until
    BY <1>1, <1>3
  <2> QED
    BY <2>1, <2>2
<1> QED
  BY <1>3, <1>4 DEF T

\* And what restrictions say.
LEMMA BookBans == BookInv => BansMatch
<1> SUFFICES ASSUME BookInv, NEW u \in User
             PROVE  LET mine == {p \in penalties : p.user = u} IN
                    /\ restrictions[u].count = Cardinality(mine)
                    /\ restrictions[u].until = Max({0} \cup {p.until : p \in mine})
  BY DEF BansMatch
<1>1. /\ restrictions[u] \in Restriction /\ Of(penalties, u) \in SUBSET Penalty
      /\ Matches(restrictions[u], Of(penalties, u))
  BY DEF BookInv, BansInv, Of
<1>2. restrictions[u].until = Max({0} \cup {p.until : p \in Of(penalties, u)})
  BY <1>1, UntilIsMax
<1>3. restrictions[u].count = Cardinality(Of(penalties, u))
  BY <1>1 DEF Matches
<1> QED
  BY <1>2, <1>3 DEF Of

\* applyNoShow: in whichever order evaluations begin, overlap, wait, fail and commit, a
\* user's restriction counts exactly the penalties of those that committed and lasts
\* until the last of their bans ends.
THEOREM BansRight ==
  ASSUME Assumptions PROVE Spec => []BansMatch
<1>1. BookInv => BansMatch
  BY BookBans
<1> QED
  BY <1>1, BookInvariant, PTL

-----------------------------------------------------------------------------
(* Admission *)

\* What is known of a guest on the way: the rules that concerned the request from its
\* start and were not changed still concern it and are among those that are read, in
\* their present form; and a reservation that has passed the ban check has only users
\* whose bans, at its start, have ended since.
Judged(g) ==
    /\ g.stood \subseteq RuleId
    /\ g.pc \in {"banned?", "bound", "rules"} => g.profile \in Profile
    /\ g.pc = "banned?" =>
         /\ g.stood \subseteq Concerning(g.profile)
         /\ g.bans \in [User -> Restriction]
         /\ \A u \in User : g.bans[u].until <= restrictions[u].until
    /\ g.pc \in {"bound", "rules"} =>
         /\ g.stood \subseteq g.bound
         /\ g.profile.scope = "reservation" =>
              \A u \in g.profile.users :
                u \in User => g.bans[u].until \in Nat /\ g.bans[u].until <= now
    /\ g.pc = "bound" /\ g.profile.scope # "reservation" =>
         g.stood \subseteq Concerning(g.profile)
    /\ g.pc = "rules" => \A r \in g.stood : g.rules[r] = rules[r]

AdmissionInv == BookInv /\ \A q \in Guest : Judged(guest[q])

\* A step that leaves the guests but for the rules R that it changes, that neither
\* unbinds nor removes other rules and ends no ban: the guests are known as before.
LEMMA OthersJudged ==
  ASSUME Assumptions, AdmissionInv, BookInv', NEW R,
         guest' = [q \in Guest |-> [guest[q] EXCEPT !.stood = @ \ R]],
         \A r \in RuleId \ R : rules'[r] = rules[r],
         \A r \in RuleId \ R, s \in ResourceId : <<r, s>> \in bindings => <<r, s>> \in bindings',
         \A u \in User : restrictions[u].until <= restrictions'[u].until,
         now <= now'
  PROVE  AdmissionInv'
<1> SUFFICES ASSUME NEW q \in Guest PROVE Judged(guest[q])'
  BY DEF AdmissionInv
<1>0. PICK g : g = guest[q]
  OBVIOUS
<1>1. PICK h : h = guest'[q]
  OBVIOUS
<1>2. IsGuest(g) /\ Judged(g)
  BY <1>0 DEF AdmissionInv, BookInv, RowsInv, RequestsOK
<1>3. /\ h.pc = g.pc /\ h.profile = g.profile /\ h.bound = g.bound /\ h.rules = g.rules
      /\ h.bans = g.bans /\ h.stood = g.stood \ R
  <2>1. h = [g EXCEPT !.stood = @ \ R]
    BY <1>0, <1>1
  <2>2. PICK P, B, T, S, N : g \in Guests(P, B, T, S, N)
    BY <1>2 DEF IsGuest
  <2> QED
    BY <2>1, <2>2 DEF Guests
<1>4. now \in Nat /\ now' \in Nat
  BY DEF AdmissionInv, BookInv, RowsInv, RequestsOK, Assumptions
<1>5. restrictions \in [User -> Restriction] /\ restrictions' \in [User -> Restriction]
  BY DEF AdmissionInv, BookInv, BansInv
<1>6. ASSUME NEW p, NEW r \in RuleId \ R, r \in Concerning(p)
      PROVE  r \in Concerning(p)'
  BY <1>6 DEF Concerning, BoundTo, Exists, AdmissionInv, BookInv, RowsInv, ReferencesOK
<1>7. g.pc = "banned?" =>
        /\ h.stood \subseteq Concerning(g.profile)'
        /\ \A u \in User : g.bans[u].until <= restrictions'[u].until
  <2> SUFFICES ASSUME g.pc = "banned?"
               PROVE  /\ h.stood \subseteq Concerning(g.profile)'
                      /\ \A u \in User : g.bans[u].until <= restrictions'[u].until
    OBVIOUS
  <2>1. h.stood \subseteq Concerning(g.profile)'
    BY <1>2, <1>3, <1>6 DEF Judged
  <2>2. \A u \in User : g.bans[u].until <= restrictions'[u].until
    BY <1>2, <1>5 DEF Judged, Restriction
  <2> QED
    BY <2>1, <2>2
<1>8. g.pc = "rules" => \A r \in h.stood : g.rules[r] = rules'[r]
  BY <1>2, <1>3 DEF Judged
<1>9. g.pc \in {"bound", "rules"} /\ g.profile.scope = "reservation" =>
        \A u \in g.profile.users : u \in User => g.bans[u].until \in Nat /\ g.bans[u].until <= now'
  BY <1>2, <1>4 DEF Judged
<1>10. g.pc = "bound" /\ g.profile.scope # "reservation" =>
         h.stood \subseteq Concerning(g.profile)'
  BY <1>2, <1>3, <1>6 DEF Judged
<1>11. Judged(h)'
  BY <1>2, <1>3, <1>7, <1>8, <1>9, <1>10 DEF Judged
<1> QED
  BY <1>1, <1>11

\* A guest's step that leaves this guest known.
LEMMA GuestJudged ==
  ASSUME AdmissionInv, BookInv', NEW q \in Guest, NEW g, GuestStep(q, g), Judged(g)
  PROVE  AdmissionInv'
<1>1. guest' = [guest EXCEPT ![q] = g] /\ UNCHANGED <<now, rules, bindings, restrictions>>
  BY DEF GuestStep, rows
<1>2. ASSUME NEW p \in Guest PROVE Judged(guest'[p])
  BY <1>1 DEF AdmissionInv, BookInv, RowsInv, RequestsOK
<1>3. ASSUME NEW h PROVE Judged(h) => Judged(h)'
  BY <1>1 DEF Judged, Concerning, BoundTo, Exists
<1>4. ASSUME NEW p \in Guest PROVE Judged(guest[p])'
  <2>1. PICK h : h = guest'[p]
    OBVIOUS
  <2>2. Judged(h)'
    BY <1>2, <1>3, <2>1
  <2> QED
    BY <2>1, <2>2
<1> QED
  BY <1>4 DEF AdmissionInv

\* Whichever step a guest takes, it stays judged by what stood all the time.
LEMMA AskJudged ==
  ASSUME Assumptions, AdmissionInv, BookInv', NEW q \in Guest, Ask(q)
  PROVE  AdmissionInv'
<1> DEFINE g == guest[q]
<1>1. IsGuest(g) /\ Judged(g) /\ now \in Nat /\ restrictions \in [User -> Restriction]
  BY DEF AdmissionInv, BookInv, RowsInv, RequestsOK, BansInv, Assumptions
<1>2. PICK P, B, T, S, N : g \in Guests(P, B, T, S, N)
  BY <1>1 DEF IsGuest
<1>3. ASSUME NEW p \in Profile PROVE Concerning(p) \subseteq RuleId
  BY DEF Concerning, BoundTo
<1>4. CASE Arrive(q)
  <2>1. PICK p \in Profile :
          GuestStep(q, [NewGuest EXCEPT
             !.pc = IF p.scope = "reservation" THEN "banned?" ELSE "bound",
             !.profile = p, !.bound = Concerning(p), !.stood = Concerning(p),
             !.bans = restrictions])
    BY <1>4 DEF Arrive
  <2>2. PICK c : c = Concerning(p)
    OBVIOUS
  <2>3. PICK h : h = [NewGuest EXCEPT !.pc = IF p.scope = "reservation" THEN "banned?" ELSE "bound",
             !.profile = p, !.bound = c, !.stood = c, !.bans = restrictions]
    OBVIOUS
  <2>4. /\ h.pc = IF p.scope = "reservation" THEN "banned?" ELSE "bound"
        /\ h.profile = p /\ h.bound = c /\ h.stood = c /\ h.bans = restrictions
    BY <2>3 DEF NewGuest
  <2>5. Judged(h)
    BY <1>1, <1>3, <2>2, <2>4 DEF Judged, Restriction
  <2> QED
    BY <2>1, <2>2, <2>3, <2>5, GuestJudged
<1> HIDE DEF g
<1>5. CASE CheckBans(q)
  <2>1. CASE \E u \in g.profile.users : restrictions[u].until > now
    <3>1. GuestStep(q, [g EXCEPT !.pc = "refused"])
      BY <1>5, <2>1 DEF CheckBans, g
    <3>2. Judged([g EXCEPT !.pc = "refused"])
      BY <1>1, <1>2 DEF Guests, Judged
    <3> QED
      BY <3>1, <3>2, GuestJudged
  <2>2. CASE ~\E u \in g.profile.users : restrictions[u].until > now
    <3>1. PICK c : c = Concerning(g.profile)
      OBVIOUS
    <3>2. PICK h : h = [g EXCEPT !.pc = "bound", !.bound = c]
      OBVIOUS
    <3>3. GuestStep(q, h) /\ g.pc = "banned?"
      BY <1>5, <2>2, <3>1, <3>2 DEF CheckBans, g
    <3>4. /\ h.pc = "bound" /\ h.bound = c /\ h.profile = g.profile /\ h.stood = g.stood
          /\ h.bans = g.bans
      BY <1>2, <3>2 DEF Guests
    <3>5. ASSUME NEW u \in g.profile.users, u \in User
          PROVE  g.bans[u].until \in Nat /\ g.bans[u].until <= now
      <4>1. restrictions[u].until <= now /\ restrictions[u].until \in Nat
        BY <1>1, <2>2, <3>5 DEF Restriction
      <4>2. g.bans[u].until \in Nat /\ g.bans[u].until <= restrictions[u].until
        BY <1>1, <3>3, <3>5 DEF Judged, Restriction
      <4> QED
        BY <1>1, <4>1, <4>2
    <3>6. Judged(h)
      BY <1>1, <3>1, <3>3, <3>4, <3>5 DEF Judged
    <3> QED
      BY <3>3, <3>6, GuestJudged
  <2> QED
    BY <2>1, <2>2
<1>6. CASE ReadRules(q)
  <2>0. PICK c : c = IF g.profile.scope = "reservation" THEN g.bound
                                                     ELSE Concerning(g.profile)
    OBVIOUS
  <2>1. CASE \A r \in c : Exists(r)
    <3>1. PICK h : h = [g EXCEPT !.pc = "rules", !.bound = c, !.rules = [r \in c |-> rules[r]]]
      OBVIOUS
    <3>2. GuestStep(q, h) /\ g.pc = "bound"
      BY <1>6, <2>0, <2>1, <3>1 DEF ReadRules, g
    <3>3. /\ h.pc = "rules" /\ h.bound = c /\ h.profile = g.profile /\ h.stood = g.stood
          /\ h.bans = g.bans /\ h.rules = [r \in c |-> rules[r]]
      BY <1>2, <3>1 DEF Guests
    <3>4. Judged(h)
      BY <1>1, <2>0, <3>2, <3>3 DEF Judged
    <3> QED
      BY <3>2, <3>4, GuestJudged
  <2>2. CASE ~\A r \in c : Exists(r)
    <3>1. GuestStep(q, [g EXCEPT !.pc = "refused"])
      BY <1>6, <2>0, <2>2 DEF ReadRules, g
    <3>2. Judged([g EXCEPT !.pc = "refused"])
      BY <1>1, <1>2 DEF Guests, Judged
    <3> QED
      BY <3>1, <3>2, GuestJudged
  <2> QED
    BY <2>1, <2>2
<1>7. CASE AssertRules(q)
  <2>1. PICK pc \in {"admitted", "refused"} : GuestStep(q, [g EXCEPT !.pc = pc])
    BY <1>7 DEF AssertRules, g
  <2>2. Judged([g EXCEPT !.pc = pc])
    BY <1>1, <1>2 DEF Guests, Judged
  <2> QED
    BY <2>1, <2>2, GuestJudged
<1> QED
  BY <1>4, <1>5, <1>6, <1>7 DEF Ask

\* A ban does not get shorter when an evaluation is committed.
LEMMA BansGrow ==
  ASSUME Assumptions, BookInv, NEW e \in Evaluation, CommitNoShow(e), NEW u \in User
  PROVE  restrictions[u].until <= restrictions'[u].until
<1> DEFINE x == evaluation[e]
<1>1. x \in EvaluationRecord /\ x.pc = "next" /\ EvaluationOK(e)
  BY DEF CommitNoShow, BookInv, BansInv
<1>2. restrictions'[u] = IF x.rows[u] # None THEN x.rows[u] ELSE restrictions[u]
  BY DEF CommitNoShow
<1>3. restrictions[u] \in Restriction /\ Matches(restrictions[u], Of(penalties, u))
  BY DEF BookInv, BansInv
<1>4. CASE x.rows[u] = None
  BY <1>2, <1>3, <1>4 DEF Restriction
<1>5. CASE x.rows[u] # None
  <2>1. Matches(x.rows[u], Of(penalties, u) \cup Of(x.log, u))
    BY <1>1, <1>5 DEF EvaluationOK, Accounted
  <2>2. x.rows[u] \in Restriction
    BY <1>1, <1>5 DEF EvaluationRecord
  <2>3. \A p \in Of(penalties, u) : p.until <= x.rows[u].until
    BY <2>1 DEF Matches
  <2>4. restrictions[u].until \in {0} \cup {p.until : p \in Of(penalties, u)}
    BY <1>3 DEF Matches
  <2> QED
    BY <1>2, <1>5, <2>2, <2>3, <2>4 DEF Restriction
<1> QED
  BY <1>4, <1>5

\* Every step keeps guests judged by what stood all the time.
LEMMA AdmissionStep ==
  ASSUME Assumptions, AdmissionInv, [Next]_vars
  PROVE  AdmissionInv'
<1>1. BookInv /\ BookInv'
  BY StepKeeps DEF AdmissionInv
<1>2. /\ now \in Nat /\ \A u \in User : restrictions[u].until \in Nat
      /\ guest = [q \in Guest |-> guest[q]] /\ \A q \in Guest : IsGuest(guest[q])
      /\ rules = [r \in RuleId |-> rules[r]]
  BY <1>1 DEF BookInv, RowsInv, RulesOK, RequestsOK, BansInv, Restriction, Assumptions
<1>3. guest = [q \in Guest |-> [guest[q] EXCEPT !.stood = @ \ {}]]
  <2>1. ASSUME NEW q \in Guest PROVE [guest[q] EXCEPT !.stood = @ \ {}] = guest[q]
    <3>1. PICK P, B, T, S, N : guest[q] \in Guests(P, B, T, S, N)
      BY <1>2 DEF IsGuest
    <3> QED
      BY <3>1 DEF Guests
  <2> QED
    BY <1>2, <2>1
<1>4. CASE UNCHANGED <<rules, bindings, restrictions, guest>> /\ now <= now'
  <2>1. PICK R : R = {}
    OBVIOUS
  <2>2. /\ guest' = [q \in Guest |-> [guest[q] EXCEPT !.stood = @ \ R]]
        /\ \A r \in RuleId \ R : rules'[r] = rules[r]
        /\ \A r \in RuleId \ R, s \in ResourceId : <<r, s>> \in bindings => <<r, s>> \in bindings'
        /\ \A u \in User : restrictions[u].until <= restrictions'[u].until
    BY <1>2, <1>3, <1>4, <2>1
  <2> QED
    BY <1>1, <1>4, <2>2, OthersJudged
<1>5. CASE Tick
  BY <1>2, <1>4, <1>5 DEF Tick, rows
<1>6. ASSUME NEW a \in Admin, Administer(a)
      PROVE  AdmissionInv'
  <2>1. UNCHANGED <<now, restrictions>>
    BY <1>6 DEF Administer, CreateRule, FindRule, UpdateRule, Bind, DeleteRule
  <2>1a. now <= now' /\ \A u \in User : restrictions[u].until <= restrictions'[u].until
    BY <1>2, <2>1
  <2>2. ASSUME NEW r, NEW row, WriteRule(r, row),
               \A s \in RuleId \ {r}, t \in ResourceId :
                 <<s, t>> \in bindings => <<s, t>> \in bindings'
        PROVE  AdmissionInv'
    <3>1. PICK R : R = {r}
      OBVIOUS
    <3>2. \A s \in RuleId \ R : rules'[s] = rules[s]
      BY <1>2, <2>2, <3>1 DEF WriteRule
    <3>3. guest' = [q \in Guest |-> [guest[q] EXCEPT !.stood = @ \ R]]
      BY <2>2, <3>1 DEF WriteRule
    <3>4. \A s \in RuleId \ R, t \in ResourceId : <<s, t>> \in bindings => <<s, t>> \in bindings'
      BY <2>2, <3>1
    <3> QED
      BY <1>1, <2>1a, <3>2, <3>3, <3>4, OthersJudged
  <2>3. CASE CreateRule(a)
    BY <2>2, <2>3 DEF CreateRule
  <2>4. CASE FindRule(a)
    <3>1. UNCHANGED <<rules, bindings, restrictions, guest, now>>
      BY <2>4 DEF FindRule, rows
    <3> QED
      BY <1>2, <1>4, <3>1
  <2>5. CASE UpdateRule(a)
    BY <1>2, <1>4, <2>2, <2>5 DEF UpdateRule
  <2>6. CASE Bind(a)
    <3>1. PICK R : R = {desk[a].rule}
      OBVIOUS
    <3>2. guest' = [q \in Guest |-> [guest[q] EXCEPT !.stood = @ \ R]]
      BY <2>6, <3>1 DEF Bind
    <3>3. \A s \in RuleId \ R : rules'[s] = rules[s]
      BY <2>6 DEF Bind
    <3>4. \A s \in RuleId \ R, t \in ResourceId : <<s, t>> \in bindings => <<s, t>> \in bindings'
      BY <2>6, <3>1 DEF Bind
    <3> QED
      BY <1>1, <2>1a, <3>2, <3>3, <3>4, OthersJudged
  <2>7. CASE DeleteRule(a)
    <3>1. CASE Exists(desk[a].rule)
      BY <2>2, <2>7, <3>1 DEF DeleteRule
    <3>2. CASE ~Exists(desk[a].rule)
      BY <1>2, <1>4, <2>7, <3>2 DEF DeleteRule, rows
    <3> QED
      BY <3>1, <3>2
  <2> QED
    BY <1>6, <2>3, <2>4, <2>5, <2>6, <2>7 DEF Administer
<1>7. ASSUME NEW q \in Guest, Ask(q)
      PROVE  AdmissionInv'
  BY <1>1, <1>7, AskJudged
<1>8. ASSUME NEW e \in Evaluation, Evaluate(e)
      PROVE  AdmissionInv'
  <2>1. CASE CommitNoShow(e)
    <3>1. UNCHANGED <<now, rules, bindings, guest>> /\ now <= now'
      BY <1>2, <2>1 DEF CommitNoShow, EvaluationStep
    <3>2. \A u \in User : restrictions[u].until <= restrictions'[u].until
      BY <1>1, <2>1, BansGrow
    <3>3. PICK R : R = {}
      OBVIOUS
    <3>4. /\ guest' = [q \in Guest |-> [guest[q] EXCEPT !.stood = @ \ R]]
          /\ \A s \in RuleId \ R : rules'[s] = rules[s]
          /\ \A s \in RuleId \ R, t \in ResourceId :
               <<s, t>> \in bindings => <<s, t>> \in bindings'
      BY <1>3, <3>1, <3>3
    <3> QED
      BY <1>1, <3>1, <3>2, <3>4, OthersJudged
  <2>2. CASE BeginNoShow(e) \/ Penalise(e) \/ WriteRestriction(e) \/ FailNoShow(e)
    <3>1. UNCHANGED <<rules, bindings, guest, now>>
      BY <2>2 DEF BeginNoShow, Penalise, WriteRestriction, FailNoShow, EvaluationStep
    <3>2. UNCHANGED restrictions
      BY <2>2 DEF BeginNoShow, Penalise, WriteRestriction, FailNoShow
    <3> QED
      BY <1>2, <1>4, <3>1, <3>2
  <2> QED
    BY <1>8, <2>1, <2>2 DEF Evaluate
<1>9. CASE UNCHANGED vars
  BY <1>2, <1>4, <1>9 DEF vars, rows
<1> QED
  BY <1>5, <1>6, <1>7, <1>8, <1>9 DEF Next

\* A step that admits a guest admits it rightly.
LEMMA AdmitsRightlyStep ==
  ASSUME Assumptions, AdmissionInv, [Next]_vars
  PROVE  AdmitsRightly
<1> SUFFICES ASSUME NEW q \in Guest, guest[q].pc # "admitted", guest'[q].pc = "admitted"
             PROVE  Deserves(q)
  BY DEF AdmitsRightly
<1> DEFINE g == guest[q]
<1>1. /\ guest = [p \in Guest |-> guest[p]] /\ \A p \in Guest : IsGuest(guest[p])
      /\ Judged(g)
  BY DEF AdmissionInv, BookInv, RowsInv, RequestsOK
<1>2. ASSUME NEW R, guest' = [p \in Guest |-> [guest[p] EXCEPT !.stood = @ \ R]]
      PROVE  FALSE
  <2>1. PICK P, B, T, S, N : g \in Guests(P, B, T, S, N)
    BY <1>1 DEF IsGuest
  <2>2. guest'[q].pc = g.pc
    BY <1>2, <2>1 DEF Guests
  <2> QED
    BY <2>2
<1>3. \E p \in Guest : Ask(p)
  <2>1. ASSUME NEW a \in Admin, Administer(a)
        PROVE  FALSE
    BY <1>2, <2>1 DEF Administer, CreateRule, FindRule, UpdateRule, Bind, DeleteRule, WriteRule
  <2>2. ASSUME NEW e \in Evaluation, Evaluate(e)
        PROVE  FALSE
    BY <2>2 DEF Evaluate, BeginNoShow, Penalise, WriteRestriction, CommitNoShow, FailNoShow,
                EvaluationStep
  <2> QED
    BY <2>1, <2>2 DEF Next, Tick, vars
<1>4. PICK p \in Guest : Ask(p)
  BY <1>3
<1>5. PICK P, B, T, S, N : guest[p] \in Guests(P, B, T, S, N)
  BY <1>1 DEF IsGuest
<1>6. ASSUME NEW h, GuestStep(p, h) PROVE p = q /\ h.pc = "admitted"
  BY <1>1, <1>6 DEF GuestStep
<1>7. ~Arrive(p)
  <2> SUFFICES ASSUME NEW r \in Profile,
                      GuestStep(p, [NewGuest EXCEPT
             !.pc = IF r.scope = "reservation" THEN "banned?" ELSE "bound",
             !.profile = r, !.bound = Concerning(r), !.stood = Concerning(r),
             !.bans = restrictions])
               PROVE  FALSE
    BY DEF Arrive
  <2>1. PICK h : h = [NewGuest EXCEPT
             !.pc = IF r.scope = "reservation" THEN "banned?" ELSE "bound",
             !.profile = r, !.bound = Concerning(r), !.stood = Concerning(r),
             !.bans = restrictions]
    OBVIOUS
  <2>2. h.pc # "admitted"
    BY <2>1 DEF NewGuest
  <2> QED
    BY <1>6, <2>1, <2>2
<1>8. ~CheckBans(p) /\ ~ReadRules(p)
  <2>1. ASSUME NEW pc \in {"refused", "bound", "rules"}, NEW h,
               \/ h = [guest[p] EXCEPT !.pc = pc]
               \/ \E b : h = [guest[p] EXCEPT !.pc = pc, !.bound = b]
               \/ \E b, r : h = [guest[p] EXCEPT !.pc = pc, !.bound = b, !.rules = r]
        PROVE  ~GuestStep(p, h)
    <3>1. h.pc = pc
      BY <1>5, <2>1 DEF Guests
    <3> QED
      BY <1>6, <3>1
  <2>2. /\ ~GuestStep(p, [guest[p] EXCEPT !.pc = "refused"])
        /\ \A b : ~GuestStep(p, [guest[p] EXCEPT !.pc = "bound", !.bound = b])
        /\ \A b, r : ~GuestStep(p, [guest[p] EXCEPT !.pc = "rules", !.bound = b, !.rules = r])
    BY <2>1
  <2> QED
    BY <2>2 DEF CheckBans, ReadRules
<1>9. AssertRules(p)
  BY <1>4, <1>7, <1>8 DEF Ask
<1>10. p = q /\ g.pc = "rules"
       /\ \A r \in g.bound : Applies(g.rules[r], g.profile.scope) => Meets(g.rules[r], g.profile)
  <2>1. PICK pc \in {"admitted", "refused"} :
          /\ GuestStep(p, [guest[p] EXCEPT !.pc = pc])
          /\ pc = "admitted" => \A r \in guest[p].bound :
               Applies(guest[p].rules[r], guest[p].profile.scope)
                 => Meets(guest[p].rules[r], guest[p].profile)
    BY <1>9 DEF AssertRules
  <2>2. p = q /\ pc = "admitted"
    BY <1>5, <1>6, <2>1 DEF Guests
  <2> QED
    BY <1>9, <2>1, <2>2 DEF AssertRules
<1>11. \A u \in g.profile.users : u \in User
  BY <1>1, <1>10 DEF Judged, Assumptions
<1> QED
  BY <1>1, <1>10, <1>11 DEF Judged, Deserves

\* At the start nobody is judged.
LEMMA AdmissionInit ==
  ASSUME Assumptions, Init PROVE AdmissionInv
<1>1. BookInv
  BY BookInit
<1>2. \A q \in Guest : guest[q].pc = "new" /\ guest[q].stood = {}
  BY DEF Init, NewGuest
<1> QED
  BY <1>1, <1>2 DEF AdmissionInv, Judged

\* assertReservationRules, assertActivityRules: whoever is admitted meets every active rule
\* that concerned the request from its start and was not changed since, and reserves
\* with nobody who was banned then and still is.
THEOREM AdmissionRight ==
  ASSUME Assumptions PROVE Spec => AdmittedUnderRules
<1>1. Init => AdmissionInv
  BY AdmissionInit
<1>2. AdmissionInv /\ [Next]_vars => AdmissionInv'
  BY AdmissionStep
<1>3. AdmissionInv /\ [Next]_vars => AdmitsRightly
  BY AdmitsRightlyStep
<1> QED
  BY <1>1, <1>2, <1>3, PTL DEF Spec, AdmittedUnderRules
================================================================================
