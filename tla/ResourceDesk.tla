---------------------------- MODULE ResourceDesk ----------------------------
(***************************************************************************)
(* The resources workspace: the resources of one area, one inline panel    *)
(* that creates or edits a resource or a unit, and the changes that are    *)
(* sent from it.  Opening or cancelling a panel resets its mutation, which *)
(* then no longer disables the button, but still runs and is answered.     *)
(* What the handlers do between their queries is the subject of            *)
(* ResourceCatalogue.  The other fields of a form are not modelled, but    *)
(* from which row they were filled; a workspace without areas is one whose *)
(* codes have the same area.                                               *)
(***************************************************************************)
EXTENDS Integers, FiniteSets

CONSTANTS
    ResourceId, UnitId, Code,
    AreaOf,  \* extractAcademicAreaKey: the place of a code's area among the tabs
    Kind,    \* bound: the changes that are sent
    MaxCall, \* bound: the changes in flight
    None

VARIABLES
    rows, \* Resource and ResourceUnit rows: the code of a resource, the resource of a unit
    used, \* ids of deleted rows, which are never given again
    page, \* cached list, area, inline panel and edit forms
    call  \* the changes in flight

vars == <<rows, used, page, call>>

NoPanel == [kind |-> "none", resource |-> None, unit |-> None]
Panel(kind, r, u) == [kind |-> kind, resource |-> r, unit |-> u]

NoRows == [code |-> [r \in ResourceId |-> None], owner |-> [u \in UnitId |-> None]]

Resources(tables) == {r \in ResourceId : tables.code[r] # None}
Areas(list) == {AreaOf[list.code[r]] : r \in Resources(list)}

\* getVisibleResources
Visible(p) == {r \in Resources(p.list) : AreaOf[p.list.code[r]] = p.area}
Units(p) == {u \in UnitId : p.list.owner[u] # None}

PanelKinds == {"none", "createResource", "editResource", "createUnit", "editUnit"}

TypeOK ==
    /\ \A r \in ResourceId : rows.code[r] \in Code \cup {None}
    /\ \A u \in UnitId : rows.owner[u] \in Resources(rows) \cup {None}
    /\ \A r, s \in Resources(rows) : r # s => rows.code[r] # rows.code[s]
    /\ used \cap Resources(rows) = {}
    /\ page.panel.kind \in PanelKinds
    /\ page.form \in ResourceId \cup {None} /\ page.unitForm \in UnitId \cup {None}
    /\ \A c \in call : c.kind \in Kind /\ c.n \in 1..MaxCall

Init ==
    /\ \E code \in [ResourceId -> Code \cup {None}], owner \in [UnitId -> ResourceId \cup {None}] :
         rows = [code |-> code, owner |-> owner]
    /\ \A r, s \in Resources(rows) : r # s => rows.code[r] # rows.code[s]
    /\ \A u \in UnitId : rows.owner[u] \in Resources(rows) \cup {None}
    /\ used = {}
    /\ page = [list |-> NoRows, area |-> None, panel |-> NoPanel, form |-> None,
               unitForm |-> None]
    /\ call = {}

-----------------------------------------------------------------------------
(* Rendering *)

\* useActiveInlinePanelSync: what a panel is about is among the visible resources.
Stands(panel, p) ==
    /\ panel.kind \notin {"none", "createResource"} => panel.resource \in Visible(p)
    /\ panel.kind = "editUnit" => p.list.owner[panel.unit] = panel.resource

\* useAcademicAreaSync: an area that has no resources any more gives way to the first.
SyncedArea(p) ==
    IF p.area \in Areas(p.list) THEN p.area
    ELSE IF Areas(p.list) = {} THEN None
    ELSE CHOOSE a \in Areas(p.list) : \A b \in Areas(p.list) : a <= b

\* Both effects see the area that was rendered.
Rendered(p) ==
    [p EXCEPT !.area = SyncedArea(p), !.panel = IF Stands(@, p) THEN @ ELSE NoPanel]

Turn(p) == page' = Rendered(p)

Refetch ==
    /\ Turn([page EXCEPT !.list = rows])
    /\ UNCHANGED <<rows, used, call>>

SelectArea ==
    /\ \E a \in Areas(page.list) : Turn([page EXCEPT !.area = a])
    /\ UNCHANGED <<rows, used, call>>

-----------------------------------------------------------------------------
(* Panels *)

\* mutation.reset(): what is in flight is no longer watched.
Unwatched(kind) == {IF c.kind = kind THEN [c EXCEPT !.watched = FALSE] ELSE c : c \in call}

\* The button of a panel that is open cancels it instead.
OpenPanel(mutation, panel, p) ==
    /\ panel # page.panel
    /\ Turn([p EXCEPT !.panel = panel])
    /\ call' = Unwatched(mutation)
    /\ UNCHANGED <<rows, used>>

OpenCreateResource ==
    OpenPanel("createResource", Panel("createResource", None, None), page)

OpenEditResource ==
    \E r \in Visible(page) :
        OpenPanel("saveResource", Panel("editResource", r, None), [page EXCEPT !.form = r])

OpenCreateUnit ==
    \E r \in Visible(page) : OpenPanel("createUnit", Panel("createUnit", r, None), page)

OpenEditUnit ==
    \E u \in Units(page) :
        /\ page.list.owner[u] \in Visible(page)
        /\ OpenPanel("saveUnit", Panel("editUnit", page.list.owner[u], u),
                     [page EXCEPT !.unitForm = u])

MutationOf(panel) ==
    CASE panel.kind = "editResource" -> "saveResource"
      [] panel.kind = "editUnit"     -> "saveUnit"
      [] OTHER                       -> panel.kind

\* The handleCancel functions fill the form from the row once more.
CancelPanel ==
    LET panel == page.panel IN
    /\ panel # NoPanel
    /\ OpenPanel(MutationOf(panel), NoPanel,
                 [page EXCEPT
                    !.form = IF panel.kind = "editResource" THEN panel.resource ELSE @,
                    !.unitForm = IF panel.kind = "editUnit" THEN panel.unit ELSE @])

-----------------------------------------------------------------------------
(* Changes *)

\* A button is disabled while its change is in flight and watched.
Send(kind, r, u, code) ==
    /\ kind \in Kind
    /\ Cardinality(call) < MaxCall
    /\ ~\E c \in call : c.kind = kind /\ c.watched
    /\ LET n == CHOOSE i \in 1..MaxCall : \A c \in call : c.n # i IN
       call' = call \cup {[n |-> n, kind |-> kind, resource |-> r, unit |-> u, code |-> code,
                           watched |-> TRUE, answered |-> FALSE]}
    /\ UNCHANGED <<rows, used, page>>

\* The codes that may be in the field of a panel's form.
Typed(panel) == IF panel.kind \in {"createResource", "editResource"} THEN Code ELSE {None}

\* The four forms,
SubmitPanel ==
    LET panel == page.panel IN
    /\ panel # NoPanel
    /\ \E code \in Typed(panel) :
         Send(MutationOf(panel), panel.resource, panel.unit, code)

\* and the buttons of the cards.
DeleteResource == \E r \in Visible(page) : Send("deleteResource", r, None, None)

DeleteUnit ==
    \E u \in Units(page) :
        /\ page.list.owner[u] \in Visible(page)
        /\ page.panel # Panel("editUnit", page.list.owner[u], u)
        /\ Send("deleteUnit", page.list.owner[u], u, None)

CodeIsFree(code, r) == \A s \in Resources(rows) \ {r} : rows.code[s] # code

SetCode(r, code) == rows' = [rows EXCEPT !.code[r] = code]
SetOwner(u, r) == rows' = [rows EXCEPT !.owner[u] = r]

\* What a handler changes, as a whole; any other refusal is Fails.
Effect(c, r, u) ==
    \/ /\ c.kind = "createResource" /\ CodeIsFree(c.code, None)
       /\ SetCode(r, c.code) /\ UNCHANGED used
    \/ /\ c.kind = "saveResource" /\ rows.code[r] # None /\ CodeIsFree(c.code, r)
       /\ SetCode(r, c.code) /\ UNCHANGED used
    \/ /\ c.kind = "deleteResource" /\ rows.code[r] # None
       /\ \A v \in UnitId : rows.owner[v] # r
       /\ SetCode(r, None) /\ used' = used \cup {r}
    \/ /\ c.kind = "createUnit" /\ rows.code[r] # None
       /\ SetOwner(u, r) /\ UNCHANGED used
    \/ /\ c.kind = "saveUnit" /\ rows.owner[u] = r
       /\ UNCHANGED <<rows, used>>
    \/ /\ c.kind = "deleteUnit" /\ rows.owner[u] = r
       /\ SetOwner(u, None) /\ used' = used \cup {u}

NewResources == {r \in ResourceId \ used : rows.code[r] = None}
NewUnits == {u \in UnitId \ used : rows.owner[u] = None}

Handle(c) ==
    /\ ~c.answered
    /\ \E r \in IF c.kind = "createResource" THEN NewResources ELSE {c.resource} :
       \E u \in IF c.kind = "createUnit" THEN NewUnits ELSE {c.unit} :
         /\ Effect(c, r, u)
         /\ call' = (call \ {c})
                    \cup {[c EXCEPT !.answered = TRUE, !.resource = r, !.unit = u]}
    /\ UNCHANGED page

Fails(c) ==
    /\ ~c.answered
    /\ call' = call \ {c}
    /\ UNCHANGED <<rows, used, page>>

\* onSuccess: the area follows a saved code, the forms are filled with what was saved,
\* and the panel of a deleted row is closed, whatever has been opened since.
Received(c) ==
    CASE c.kind = "createResource" -> [page EXCEPT !.area = AreaOf[c.code]]
      [] c.kind = "saveResource"   -> [page EXCEPT !.area = AreaOf[c.code], !.form = c.resource]
      [] c.kind = "saveUnit"       -> [page EXCEPT !.unitForm = c.unit]
      [] c.kind = "deleteResource" ->
           [page EXCEPT !.panel = IF @.resource = c.resource THEN NoPanel ELSE @]
      [] c.kind = "deleteUnit"     ->
           [page EXCEPT !.panel =
               IF @ = Panel("editUnit", c.resource, c.unit) THEN NoPanel ELSE @]
      [] OTHER                     -> page

Receive(c) ==
    /\ c.answered
    /\ Turn(Received(c))
    /\ call' = call \ {c}
    /\ UNCHANGED <<rows, used>>

Next ==
    \/ Refetch \/ SelectArea
    \/ OpenCreateResource \/ OpenEditResource \/ OpenCreateUnit \/ OpenEditUnit
    \/ CancelPanel
    \/ SubmitPanel \/ DeleteResource \/ DeleteUnit
    \/ \E c \in call : Handle(c) \/ Fails(c) \/ Receive(c)

Spec == Init /\ [][Next]_vars

-----------------------------------------------------------------------------
(* Properties *)

\* Whichever answers and lists arrive, the area that is shown has resources, and the
\* open panel is about a resource and a unit that are shown, so that what is submitted
\* is sent for a row the administrator sees.
PanelStands ==
    /\ Stands(page.panel, page)
    /\ page.area \in Areas(page.list) \/ (page.area = None /\ Areas(page.list) = {})

\* A panel whose rows are still shown in its area closes only by the administrator, by
\* the answer to a deletion, or by that to a code whose area the list does not have yet;
\* a form is filled from another row only when a panel is opened or a save is answered.
KeepsPanel ==
    /\ (page'.area = page.area /\ page'.panel # page.panel /\ Stands(page.panel, page')) =>
         \/ OpenCreateResource \/ OpenEditResource \/ OpenCreateUnit \/ OpenEditUnit
         \/ CancelPanel
         \/ \E c \in call :
              /\ Receive(c)
              /\ \/ c.kind \in {"deleteResource", "deleteUnit"}
                 \/ c.code # None /\ AreaOf[c.code] \notin Areas(page.list)
    /\ (page'.panel = page.panel /\ <<page.form, page.unitForm>>' # <<page.form, page.unitForm>>)
         => \E c \in call : c.kind \in {"saveResource", "saveUnit"} /\ Receive(c)

-----------------------------------------------------------------------------
(* For the proofs: what is assumed of the constants, and the inductive invariant *)

\* Ids are of one table, areas are numbered, and None is no id, no code and no area.
Assumptions ==
    /\ ResourceId \cap UnitId = {}
    /\ AreaOf \in [Code -> Nat] /\ MaxCall \in Nat
    /\ None \notin ResourceId \cup UnitId \cup Code \cup Nat

Tables == [code : [ResourceId -> Code \cup {None}], owner : [UnitId -> ResourceId \cup {None}]]

PanelRecord == [kind : PanelKinds, resource : ResourceId \cup {None}, unit : UnitId \cup {None}]

PageRecord == [list : Tables, area : Nat \cup {None}, panel : PanelRecord,
               form : ResourceId \cup {None}, unitForm : UnitId \cup {None}]

\* What a panel and a change are about: a unit is edited or deleted, and all but a new
\* resource have one.
PanelSound(panel) ==
    /\ panel \in PanelRecord
    /\ panel.kind = "none" => panel = NoPanel
    /\ panel.kind \notin {"none", "createResource"} => panel.resource \in ResourceId
    /\ panel.kind = "editUnit" => panel.unit \in UnitId

CallRecord == [n : 1..MaxCall, kind : Kind, resource : ResourceId \cup {None},
               unit : UnitId \cup {None}, code : Code \cup {None},
               watched : BOOLEAN, answered : BOOLEAN]

CallSound(c) ==
    /\ c \in CallRecord
    /\ c.kind \in {"createResource", "saveResource"} => c.code \in Code
    /\ c.kind # "createResource" => c.resource \in ResourceId
    /\ c.kind \in {"saveUnit", "deleteUnit"} => c.unit \in UnitId

\* Units have a resource, resources have codes of their own, and ids are not given again.
RowsSound ==
    /\ rows \in Tables
    /\ \A u \in UnitId : rows.owner[u] \in Resources(rows) \cup {None}
    /\ \A r, s \in Resources(rows) : r # s => rows.code[r] # rows.code[s]
    /\ used \cap Resources(rows) = {}

PanelInv ==
    /\ RowsSound
    /\ page \in PageRecord /\ PanelSound(page.panel) /\ PanelStands
    /\ IsFiniteSet(call) /\ \A c \in call : CallSound(c)
=============================================================================
