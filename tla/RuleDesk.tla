------------------------------ MODULE RuleDesk ------------------------------
(***************************************************************************)
(* The rules workspace: the rules of one business domain, the editor of    *)
(* the selected one, and the changes that are sent from it.  Each kind of  *)
(* change may be in flight beside the others, and the answers arrive in    *)
(* any order.  What the handlers do between their queries is the subject   *)
(* of RuleBook; which text the editor holds does not matter here, but of   *)
(* which rule it is.                                                       *)
(***************************************************************************)
EXTENDS Integers, FiniteSets

CONSTANTS
    RuleId,  \* bound: the rules there can be, numbered as created
    MaxCall, \* bound: the changes in flight
    New,     \* NEW_RULE_ID
    None

VARIABLES
    rows, \* Rule rows: the domains of the resources a rule is bound to
    used, \* ids of deleted rules, which are never given again
    page, \* cached list, domain, selection and editor
    call  \* the changes in flight

vars == <<rows, used, page, call>>

Domain == {"academic", "sports"}

NewPage == [list |-> [r \in RuleId |-> None], domain |-> "academic", selected |-> New,
            of |-> New]

Listed(list) == {r \in RuleId : list[r] # None}

\* ruleBelongsToDomain: an unbound rule belongs to both.
Visible(p) == {r \in Listed(p.list) : \/ p.list[r] = {}
                                      \/ p.domain \in p.list[r]}

TypeOK ==
    /\ \A r \in RuleId : rows[r] \in (SUBSET Domain) \cup {None}
    /\ used \subseteq RuleId \ Listed(rows)
    /\ page.domain \in Domain /\ page.selected \in RuleId \cup {New}
    /\ page.of \in RuleId \cup {New}
    /\ \A c \in call :
         /\ c.kind \in {"create", "update", "status", "delete", "bind", "unbind"}
         /\ c.answered \in BOOLEAN
         /\ c.rule \in RuleId \cup {New}

Init ==
    /\ rows \in [RuleId -> (SUBSET Domain) \cup {None}]
    /\ \A r, s \in RuleId : r < s /\ rows[s] # None => rows[r] # None
    /\ used = {}
    /\ page = NewPage
    /\ call = {}

-----------------------------------------------------------------------------
(* Rendering *)

\* listRules orders by creation.
FirstOf(S) == IF S = {} THEN New ELSE CHOOSE r \in S : \A s \in S : r <= s

\* selectedRule
Shown(p) == IF p.selected \in Visible(p) THEN p.selected ELSE New

\* A selected rule that is not in the list gives way to the first one.
Reselected(p) == IF p.selected = New \/ p.selected \in Visible(p) THEN p
                 ELSE [p EXCEPT !.selected = FirstOf(Visible(p))]

\* The editor follows the rule that is shown.
Filled(old, new) ==
    IF Shown(new) = Shown(old) THEN new ELSE [new EXCEPT !.of = Shown(new)]

\* What is rendered after a change of p: the editor is filled for the selection as it is,
\* and again when it has been replaced.
Rendered(old, p) ==
    LET once == Filled(old, p) IN Filled(once, Reselected(once))

Turn(p) == page' = Rendered(page, p)

Refetch ==
    /\ Turn([page EXCEPT !.list = rows])
    /\ UNCHANGED <<rows, used, call>>

SelectDomain ==
    /\ \E d \in Domain : Turn([page EXCEPT !.domain = d])
    /\ UNCHANGED <<rows, used, call>>

SelectRule ==
    /\ \E r \in Visible(page) \cup {New} : Turn([page EXCEPT !.selected = r])
    /\ UNCHANGED <<rows, used, call>>

-----------------------------------------------------------------------------
(* Changes *)

Button(kind) == CASE kind \in {"create", "update"} -> "save"
                  [] kind \in {"bind", "unbind"}   -> "binding"
                  [] OTHER                         -> kind

\* A button is disabled while its change is in flight.
Send(kind, domain) ==
    /\ Cardinality(call) < MaxCall
    /\ \A c \in call : Button(c.kind) # Button(kind)
    /\ call' = call \cup {[kind |-> kind, rule |-> Shown(page), domain |-> domain,
                            answered |-> FALSE]}
    /\ UNCHANGED <<rows, used, page>>

\* handleSaveRule creates a rule when none is shown.
SaveRule == Send(IF Shown(page) = New THEN "create" ELSE "update", None)

\* handleToggleRuleStatus
ToggleStatus == Shown(page) # New /\ Send("status", None)

DeleteRule == Shown(page) # New /\ Send("delete", None)

\* handleToggleBinding: the resources of the displayed domain are listed.
ToggleBinding ==
    LET r == Shown(page) IN
    /\ r # New
    /\ Send(IF page.domain \in page.list[r] THEN "unbind" ELSE "bind", page.domain)

\* The row that a change leads to, which is known when it is answered.
Answer(c, row, r) ==
    /\ rows' = [rows EXCEPT ![r] = row]
    /\ call' = (call \ {c}) \cup {[c EXCEPT !.answered = TRUE, !.rule = r]}
    /\ UNCHANGED page

\* The handlers, each as a whole: a rule that is gone, or is bound when it is to be
\* deleted, makes a change fail, which is Fails.
Handle(c) ==
    /\ ~c.answered
    /\ \/ /\ c.kind = "create"
          /\ \E r \in RuleId \ used :
               /\ rows[r] = None
               /\ \A s \in RuleId : s < r => rows[s] # None \/ s \in used
               /\ Answer(c, {}, r)
          /\ UNCHANGED used
       \/ /\ c.kind # "create" /\ rows[c.rule] # None
          /\ \/ /\ c.kind \in {"update", "status"}
                /\ Answer(c, rows[c.rule], c.rule)
                /\ UNCHANGED used
             \/ /\ c.kind = "bind"
                /\ Answer(c, rows[c.rule] \cup {c.domain}, c.rule)
                /\ UNCHANGED used
             \/ /\ c.kind = "unbind"
                /\ Answer(c, rows[c.rule] \ {c.domain}, c.rule)
                /\ UNCHANGED used
             \/ /\ c.kind = "delete" /\ rows[c.rule] = {}
                /\ Answer(c, None, c.rule)
                /\ used' = used \cup {c.rule}

Fails(c) ==
    /\ ~c.answered
    /\ call' = call \ {c}
    /\ UNCHANGED <<rows, used, page>>

\* onSuccess: what was saved becomes the selection, before any list has it; after a
\* deletion nothing is selected.
Receive(c) ==
    /\ c.answered
    /\ CASE c.kind \in {"create", "update", "status"} -> Turn([page EXCEPT !.selected = c.rule])
         [] c.kind = "delete" -> Turn([page EXCEPT !.selected = New])
         [] OTHER -> UNCHANGED page
    /\ call' = call \ {c}
    /\ UNCHANGED <<rows, used>>

Next ==
    \/ Refetch \/ SelectDomain \/ SelectRule
    \/ SaveRule \/ ToggleStatus \/ DeleteRule \/ ToggleBinding
    \/ \E c \in call : Handle(c) \/ Fails(c) \/ Receive(c)

Spec == Init /\ [][Next]_vars

-----------------------------------------------------------------------------
(* Properties *)

\* The editor is that of the rule whose name, status and bindings are shown, and no
\* rule is selected that the list of the domain does not have, whichever answers and
\* lists arrive.
EditorIsOfSelected == page.of = Shown(page) /\ page.selected = Shown(page)

\* The selection leaves a rule that is still listed in its domain only if the
\* administrator selects, or is answered.
KeepsSelected ==
    (page.selected # page'.selected /\ page.selected \in Visible(page)')
    => \/ SelectRule
       \/ \E c \in call : Receive(c)

-----------------------------------------------------------------------------
(* For the proofs: what is assumed of the constants, and the inductive invariant *)

\* Rules are numbered, New is none of them, and None is no set of domains.
Assumptions == RuleId \subseteq Nat /\ New \notin RuleId /\ \A D \in SUBSET Domain : D # None

Rows == [RuleId -> (SUBSET Domain) \cup {None}]

PageRecord == [list : Rows, domain : Domain, selected : RuleId \cup {New},
               of : RuleId \cup {New}]

\* A change other than a creation, and an answer, are about a rule.
CallSound(c) ==
    /\ c \in [kind : {"create", "update", "status", "delete", "bind", "unbind"},
              rule : RuleId \cup {New}, domain : Domain \cup {None}, answered : BOOLEAN]
    /\ c.kind # "create" \/ c.answered => c.rule \in RuleId
    /\ c.kind \in {"bind", "unbind"} => c.domain \in Domain

EditorInv ==
    /\ rows \in Rows /\ used \subseteq RuleId \ Listed(rows)
    /\ page \in PageRecord /\ EditorIsOfSelected
    /\ \A c \in call : CallSound(c)
=============================================================================
