------------------------------ MODULE RuleBook ------------------------------
(***************************************************************************)
(* The admission rules and their sanctions: administrators who change the  *)
(* rules and their bindings, guests who are judged by what they read of    *)
(* them, and evaluations of missed reservations, which ban their           *)
(* participants.  The restrictions are those of one reservation category;  *)
(* the credit score that a penalty lowers is the subject of Attendance.    *)
(***************************************************************************)
EXTENDS Integers, FiniteSets, FiniteSetsExt

CONSTANTS
    RuleId,       \* bound: the rules there can ever be
    ResourceId,
    InitialRules, \* the rows there may be at the start: functions on RuleId
    Admin,        \* administrators' requests in flight
    Payload,      \* what they may ask for
    Guest,        \* requests to be admitted, each made once
    Profile,      \* whom they may come from and what for
    User,
    Evaluation,   \* evaluations of missed reservations of one resource each
    MaxTime,      \* bound: how often the clock advances
    None

VARIABLES
    now,
    rules,        \* Rule rows
    bindings,     \* ResourceRuleBinding rows, as <<rule, resource>>
    profiles,     \* UserRuleProfile rows, as <<rule, user>>
    used,         \* ids of deleted rules, which are never given again
    restrictions, \* UserReservationRestriction rows; count 0 where there is none
    desk,         \* the administrators' requests
    guest,        \* the guests' requests
    evaluation,   \* the evaluations' transactions
    penalties     \* history: the penalties of committed evaluations

rows == <<rules, bindings, profiles, used>>
vars == <<now, rows, restrictions, desk, guest, evaluation, penalties>>

Kind == [min_credit_score                     |-> "min",
         max_duration_minutes                 |-> "max",
         max_active_reservations_per_category |-> "max",
         allowed_user_roles                   |-> "roles",
         no_show_credit_penalty               |-> "penalty"]
RuleType == DOMAIN Kind

\* The scopes in which a type is evaluated.
Scopes == [min_credit_score                     |-> {"reservation", "activity_registration"},
           max_duration_minutes                 |-> {"reservation"},
           max_active_reservations_per_category |-> {"reservation"},
           allowed_user_roles                   |-> {"reservation", "activity_registration"},
           no_show_credit_penalty               |-> {}]

Idle == [pc |-> "idle", rule |-> None, row |-> None, payload |-> None, resource |-> None]
NewGuest == [pc |-> "new", profile |-> None, bound |-> {}, rules |-> <<>>, stood |-> {},
             bans |-> <<>>]
NewEvaluation == [pc |-> "new", party |-> {}, at |-> 0, todo |-> {}, current |-> None,
                  rows |-> [u \in User |-> None], log |-> {}]
NoRestriction == [count |-> 0, until |-> 0]

Exists(r) == rules[r] # None

TypeOK ==
    /\ now \in 1..MaxTime
    /\ \A r \in RuleId : Exists(r) =>
         /\ rules[r].type \in RuleType
         /\ rules[r].status \in {"ACTIVE", "INACTIVE"}
    /\ bindings \subseteq {r \in RuleId : Exists(r)} \X ResourceId
    /\ profiles \subseteq {r \in RuleId : Exists(r)} \X User
    /\ used \subseteq {r \in RuleId : ~Exists(r)}
    /\ restrictions \in [User -> [count : Nat, until : Nat]]
    /\ \A a \in Admin : desk[a].pc \in {"idle", "update", "bind", "unbind", "delete"}
    /\ \A q \in Guest : guest[q].pc \in {"new", "banned?", "bound", "rules", "admitted", "refused"}
    /\ \A e \in Evaluation :
         evaluation[e].pc \in {"new", "next", "restrict", "committed", "failed"}

Init ==
    /\ now = 1
    /\ rules \in InitialRules
    /\ bindings \in SUBSET ({r \in RuleId : Exists(r)} \X ResourceId)
    /\ profiles = {}
    /\ used = {}
    /\ restrictions = [u \in User |-> NoRestriction]
    /\ desk = [a \in Admin |-> Idle]
    /\ guest = [q \in Guest |-> NewGuest]
    /\ evaluation = [e \in Evaluation |-> NewEvaluation]
    /\ penalties = {}

Tick ==
    /\ now < MaxTime
    /\ now' = now + 1
    /\ UNCHANGED <<rows, restrictions, desk, guest, evaluation, penalties>>

-----------------------------------------------------------------------------
(* Administrators *)

\* normalizeRuleDefinition: a type takes one kind of expression.
Valid(row) == Kind[row.type] = row.kind

\* What a payload makes of a row: the type, the expression and the status it gives.
Merged(p, row) ==
    [type   |-> IF p.type # None THEN p.type ELSE row.type,
     kind   |-> IF p.kind # None THEN p.kind ELSE row.kind,
     value  |-> IF p.kind # None THEN p.value ELSE row.value,
     status |-> IF p.status # None THEN p.status ELSE row.status]

Fresh == [type |-> None, kind |-> None, value |-> None, status |-> "ACTIVE"]

\* Writes rule r.  A guest in flight may have read it before, which the properties know.
WriteRule(r, row) ==
    /\ rules' = [rules EXCEPT ![r] = row]
    /\ guest' = [q \in Guest |-> [guest[q] EXCEPT !.stood = @ \ {r}]]

CreateRule(a) ==
    /\ desk[a] = Idle
    /\ \E r \in RuleId \ used, p \in Payload :
         /\ ~Exists(r)
         /\ p.type # None /\ p.kind # None
         /\ Valid(Merged(p, Fresh))
         /\ WriteRule(r, Merged(p, Fresh))
    /\ UNCHANGED <<now, bindings, profiles, used, restrictions, desk, evaluation, penalties>>

\* updateRule, bindRuleToResource, unbindRuleFromResource and deleteRule find the rule
\* first; the last one with the numbers of its bindings and profiles.
FindRule(a) ==
    \E r \in RuleId :
        LET then(h) == desk' = [desk EXCEPT ![a] = [h EXCEPT !.rule = r]] IN
        /\ desk[a] = Idle
        /\ Exists(r)
        /\ \/ \E p \in Payload : /\ Valid(Merged(p, rules[r]))
                                 /\ then([Idle EXCEPT !.pc = "update", !.row = rules[r],
                                                      !.payload = p])
           \/ \E s \in ResourceId, pc \in {"bind", "unbind"} :
                then([Idle EXCEPT !.pc = pc, !.resource = s])
           \/ /\ \A s \in ResourceId : <<r, s>> \notin bindings
              /\ \A u \in User : <<r, u>> \notin profiles
              /\ then([Idle EXCEPT !.pc = "delete"])
        /\ UNCHANGED <<now, rows, restrictions, guest, evaluation, penalties>>

\* Mutant: only what the payload gives is written.
UpdateRuleMutant(a) ==
    LET h == desk[a] IN
    /\ h.pc = "update"
    /\ desk' = [desk EXCEPT ![a] = Idle]
    /\ IF Exists(h.rule) THEN WriteRule(h.rule, Merged(h.payload, rules[h.rule]))
       ELSE UNCHANGED <<rules, guest>>
    /\ UNCHANGED <<now, bindings, profiles, used, restrictions, evaluation, penalties>>

\* The type and the expression are written as merged with the row that was read; the
\* status is left alone unless it is given.
UpdateRule(a) ==
    LET h == desk[a] IN
    /\ h.pc = "update"
    /\ desk' = [desk EXCEPT ![a] = Idle]
    /\ IF Exists(h.rule)
       THEN WriteRule(h.rule, [Merged(h.payload, h.row) EXCEPT
                !.status = IF h.payload.status # None THEN h.payload.status
                           ELSE rules[h.rule].status])
       ELSE UNCHANGED <<rules, guest>>
    /\ UNCHANGED <<now, bindings, profiles, used, restrictions, evaluation, penalties>>

\* An upsert, which needs the rule, or a deletion of what there is.
Bind(a) ==
    LET h == desk[a] IN
    /\ h.pc \in {"bind", "unbind"}
    /\ desk' = [desk EXCEPT ![a] = Idle]
    /\ bindings' = IF h.pc = "bind"
                   THEN IF Exists(h.rule) THEN bindings \cup {<<h.rule, h.resource>>} ELSE bindings
                   ELSE bindings \ {<<h.rule, h.resource>>}
    /\ guest' = [q \in Guest |-> [guest[q] EXCEPT !.stood = @ \ {h.rule}]]
    /\ UNCHANGED <<now, rules, profiles, used, restrictions, evaluation, penalties>>

\* Mutant: the rows that refer to the rule are thought to be those counted before.
DeleteRuleMutant(a) ==
    LET r == desk[a].rule IN
    /\ desk[a].pc = "delete"
    /\ \A e \in Evaluation : \A l \in evaluation[e].log : l.rule # r
    /\ desk' = [desk EXCEPT ![a] = Idle]
    /\ IF Exists(r)
       THEN WriteRule(r, None) /\ used' = used \cup {r}
       ELSE UNCHANGED <<rules, used, guest>>
    /\ UNCHANGED <<now, bindings, profiles, restrictions, evaluation, penalties>>

\* The bindings and profiles that came after the count go with the rule.  A
\* transaction that has written a profile of the rule is waited for.
DeleteRule(a) ==
    LET r == desk[a].rule IN
    /\ desk[a].pc = "delete"
    /\ \A e \in Evaluation : \A l \in evaluation[e].log : l.rule # r
    /\ desk' = [desk EXCEPT ![a] = Idle]
    /\ IF Exists(r)
       THEN /\ WriteRule(r, None)
            /\ bindings' = {b \in bindings : b[1] # r}
            /\ profiles' = {p \in profiles : p[1] # r}
            /\ used' = used \cup {r}
       ELSE UNCHANGED <<rows, guest>>
    /\ UNCHANGED <<now, restrictions, evaluation, penalties>>

-----------------------------------------------------------------------------
(* Guests *)

Applies(row, scope) == row.status = "ACTIVE" /\ scope \in Scopes[row.type]

BoundTo(s) == {r \in RuleId : <<r, s>> \in bindings}

\* The rules that concern a profile: those of its resource, or all for an activity.
Concerning(p) == IF p.scope = "reservation" THEN BoundTo(p.resource)
                 ELSE {r \in RuleId : Exists(r)}

\* assertRuleSatisfied
Meets(row, p) ==
    CASE row.type = "min_credit_score"                     -> p.score >= row.value
      [] row.type = "max_duration_minutes"                 -> p.duration <= row.value
      [] row.type = "max_active_reservations_per_category" -> p.active < row.value
      [] row.type = "allowed_user_roles"                   -> p.role \in row.value
      [] OTHER                                             -> TRUE

GuestStep(q, g) ==
    /\ guest' = [guest EXCEPT ![q] = g]
    /\ UNCHANGED <<now, rows, restrictions, desk, evaluation, penalties>>

\* A reservation of some users begins, or a registration for an activity.
Arrive(q) ==
    /\ guest[q].pc = "new"
    /\ \E p \in Profile :
         GuestStep(q, [NewGuest EXCEPT
             !.pc = IF p.scope = "reservation" THEN "banned?" ELSE "bound",
             !.profile = p, !.bound = Concerning(p), !.stood = Concerning(p),
             !.bans = restrictions])

\* assertReservationCategoryAvailable, of everybody who takes part, and then the
\* bindings of the resource.
CheckBans(q) ==
    LET g == guest[q] IN
    /\ g.pc = "banned?"
    /\ IF \E u \in g.profile.users : restrictions[u].until > now
       THEN GuestStep(q, [g EXCEPT !.pc = "refused"])
       ELSE GuestStep(q, [g EXCEPT !.pc = "bound", !.bound = Concerning(g.profile)])

\* The rows of those bindings, where a rule that is gone makes the query fail; for an
\* activity one query reads all the rules there are.  The host's score, role and number
\* of active reservations are read next.
ReadRules(q) ==
    LET g    == guest[q]
        read == IF g.profile.scope = "reservation" THEN g.bound ELSE Concerning(g.profile)
    IN
    /\ g.pc = "bound"
    /\ IF \A r \in read : Exists(r)
       THEN GuestStep(q, [g EXCEPT !.pc = "rules", !.bound = read,
                                   !.rules = [r \in read |-> rules[r]]])
       ELSE GuestStep(q, [g EXCEPT !.pc = "refused"])

\* Mutant: the rules are asserted of reservations only.
AssertRulesMutant(q) ==
    LET g == guest[q]
        admits == g.profile.scope = "reservation" => \A r \in g.bound :
            Applies(g.rules[r], g.profile.scope) => Meets(g.rules[r], g.profile)
    IN /\ g.pc = "rules"
       /\ GuestStep(q, [g EXCEPT !.pc = IF admits THEN "admitted" ELSE "refused"])

\* assertActivityRules, assertReservationRules
AssertRules(q) ==
    LET g == guest[q]
        admits == \A r \in g.bound :
            Applies(g.rules[r], g.profile.scope) => Meets(g.rules[r], g.profile)
    IN /\ g.pc = "rules"
       /\ GuestStep(q, [g EXCEPT !.pc = IF admits THEN "admitted" ELSE "refused"])

-----------------------------------------------------------------------------
(* applyReservationNoShowRules, in the transaction of an evaluation *)

EvaluationStep(e, x) ==
    /\ evaluation' = [evaluation EXCEPT ![e] = x]
    /\ UNCHANGED <<now, rules, bindings, used, desk, guest>>

\* The active penalties of the resource, each for each participant.
NoShowTasks(s, party) ==
    {[rule |-> r, user |-> u, days |-> rules[r].value] :
        r \in {b \in BoundTo(s) : /\ rules[b].status = "ACTIVE"
                                  /\ rules[b].type = "no_show_credit_penalty"},
        u \in party}

BeginNoShow(e) ==
    /\ evaluation[e].pc = "new"
    /\ \E s \in ResourceId, party \in (SUBSET User) \ {{}} :
         EvaluationStep(e, [NewEvaluation EXCEPT !.pc = "next", !.party = party, !.at = now,
                                                 !.todo = NoShowTasks(s, party)])
    /\ UNCHANGED <<profiles, restrictions, penalties>>

\* The transaction that has written user u's row, which keeps others from writing it.
Holds(e, u) == /\ evaluation[e].pc \in {"next", "restrict"}
               /\ evaluation[e].rows[u] # None

BanEnd(t, at) == IF t.days > 0 THEN at + t.days ELSE 0

\* The user's score is written, and the log and the profile inserted, which needs the
\* rule.
Penalise(e) ==
    LET x == evaluation[e] IN
    /\ x.pc = "next"
    /\ \E t \in x.todo :
         /\ \A f \in Evaluation \ {e} : ~Holds(f, t.user)
         /\ Exists(t.rule)
         /\ EvaluationStep(e, [x EXCEPT
              !.pc = "restrict", !.todo = @ \ {t}, !.current = t,
              !.log = @ \cup {[evaluation |-> e, rule |-> t.rule, user |-> t.user,
                               until |-> BanEnd(t, x.at)]},
              !.rows[t.user] = IF @ = None THEN restrictions[t.user] ELSE @])
    /\ UNCHANGED <<profiles, restrictions, penalties>>

\* Mutant: a ban is what the last penalty makes it.
NextBanMutant(old, until) == until

\* A ban never gets shorter, and a penalty without days leaves it.
NextBan(old, until) == IF until > old THEN until ELSE old

\* The restriction is read, and written or created.
WriteRestriction(e) ==
    LET x == evaluation[e] IN
    /\ x.pc = "restrict"
    /\ EvaluationStep(e, [x EXCEPT !.pc = "next", !.current = None,
         !.rows[x.current.user] = [count |-> @.count + 1,
                                   until |-> NextBan(@.until, BanEnd(x.current, x.at))]])
    /\ UNCHANGED <<profiles, restrictions, penalties>>

CommitNoShow(e) ==
    LET x == evaluation[e] IN
    /\ x.pc = "next" /\ x.todo = {}
    /\ EvaluationStep(e, [NewEvaluation EXCEPT !.pc = "committed"])
    /\ restrictions' = [u \in User |-> IF x.rows[u] # None THEN x.rows[u] ELSE restrictions[u]]
    /\ profiles' = profiles \cup {<<l.rule, l.user>> : l \in x.log}
    /\ penalties' = penalties \cup x.log

\* A query fails, the rule is gone, or the database ends a deadlock.
FailNoShow(e) ==
    /\ evaluation[e].pc \in {"next", "restrict"}
    /\ EvaluationStep(e, [NewEvaluation EXCEPT !.pc = "failed"])
    /\ UNCHANGED <<profiles, restrictions, penalties>>

-----------------------------------------------------------------------------
Administer(a) ==
    \/ CreateRule(a) \/ FindRule(a)
    \/ UpdateRule(a) \/ Bind(a) \/ DeleteRule(a)

Ask(q) == Arrive(q) \/ CheckBans(q) \/ ReadRules(q) \/ AssertRules(q)

Evaluate(e) ==
    \/ BeginNoShow(e) \/ Penalise(e) \/ WriteRestriction(e)
    \/ CommitNoShow(e) \/ FailNoShow(e)

Next ==
    \/ Tick
    \/ \E a \in Admin : Administer(a)
    \/ \E q \in Guest : Ask(q)
    \/ \E e \in Evaluation : Evaluate(e)

Spec == Init /\ [][Next]_vars

-----------------------------------------------------------------------------
(* Properties *)

\* Whatever administrators change at once, the expression of a rule is one that its
\* type can take: no rule makes every request that meets it fail.
RulesAreValid == \A r \in RuleId : Exists(r) => Valid(rules[r])

\* A user's restriction counts exactly the penalties of the evaluations that were
\* committed, and bans the user until the last of their ends, in whichever order the
\* evaluations began, overlapped, failed and committed.
BansMatch ==
    \A u \in User :
        LET mine == {p \in penalties : p.user = u} IN
        /\ restrictions[u].count = Cardinality(mine)
        /\ restrictions[u].until = Max({0} \cup {p.until : p \in mine})

Deserves(q) ==
    LET g == guest[q] IN
    /\ \A r \in g.stood : Applies(rules[r], g.profile.scope) => Meets(rules[r], g.profile)
    /\ g.profile.scope = "reservation" =>
         \A u \in g.profile.users : g.bans[u].until <= now

AdmitsRightly ==
    \A q \in Guest : guest[q].pc # "admitted" /\ guest[q]'.pc = "admitted" => Deserves(q)

\* Whoever is admitted meets every active rule that concerned the request from its
\* start and that nobody has changed since, and reserves with nobody who was banned
\* then and still is.
AdmittedUnderRules == [][AdmitsRightly]_vars
=============================================================================
