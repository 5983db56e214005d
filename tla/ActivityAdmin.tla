---------------------------- MODULE ActivityAdmin ----------------------------
(***************************************************************************)
(* The administration of activities: the handlers that create an activity, *)
(* change it and add a ticket to it, and the workspace of the web client   *)
(* that calls them, with its cached list, its selection and its forms.     *)
(***************************************************************************)
EXTENDS Integers, FiniteSets, FiniteSetsExt

CONSTANTS
    ActivityId, \* bound: the activities there can be, numbered as lists order them
    TicketId,   \* bound: the tickets there can be
    Amount,     \* the quotas and stocks that administrators enter
    Default,    \* the quota of an empty form
    Browser,    \* open workspaces; bound: each has one request in flight
    Author,     \* bound: those of them in which activities are created
    None

VARIABLES
    quota,    \* Activity.totalQuota, or None if there is no such activity
    tickets,  \* ActivityTicket rows; one that is not committed names its transaction
    page,     \* the workspaces
    call      \* their requests

vars == <<quota, tickets, page, call>>

NoTicket == [activity |-> None, stock |-> 0, tx |-> None]
EmptyForm == [quota |-> Default, custom |-> FALSE, stock |-> Default]
NewPage == [list |-> {}, chosen |-> None, form |-> EmptyForm]
NoCall == [pc |-> "idle", activity |-> None, amount |-> None, stock |-> 0]

Exists(a) == quota[a] # None

TypeOK ==
    /\ quota \in [ActivityId -> Nat \cup {None}]
    /\ tickets \in [TicketId -> [activity : ActivityId \cup {None}, stock : Nat,
                                 tx : Browser \cup {None}]]
    /\ \A b \in Browser :
         /\ page[b].list \subseteq ActivityId
         /\ page[b].chosen \in ActivityId \cup {None}
         /\ call[b].pc \in {"idle", "create", "created", "insert", "sum", "commit", "find",
                            "update", "answered"}

Init ==
    /\ quota = [a \in ActivityId |-> None]
    /\ tickets = [t \in TicketId |-> NoTicket]
    /\ page = [b \in Browser |-> NewPage]
    /\ call = [b \in Browser |-> NoCall]

\* What there is to sell of an activity as transaction b sees it, None being outside of
\* any: the places of its tickets; and the stock, which is how many they are.
Places(a, b) ==
    UNION {{t} \X (1..tickets[t].stock) :
             t \in {u \in TicketId : tickets[u].activity = a /\ tickets[u].tx \in {None, b}}}

StockOf(a, b) == Cardinality(Places(a, b))

-----------------------------------------------------------------------------
(* The workspace *)

\* getSelectedActivity: the chosen one, or the first while that is not in the list.
Shown(b) ==
    IF page[b].chosen \in page[b].list THEN page[b].chosen
    ELSE IF page[b].list # {} THEN Min(page[b].list) ELSE None

\* Mutant: nothing is chosen until the administrator does.
RefetchMutant(b) ==
    /\ page' = [page EXCEPT ![b].list = {a \in ActivityId : Exists(a)}]
    /\ UNCHANGED <<quota, tickets, call>>

\* The list is fetched, at first or after an invalidation; without a choice the first
\* of it is chosen.
Refetch(b) ==
    LET list == {a \in ActivityId : Exists(a)} IN
    /\ page' = [page EXCEPT ![b].list = list,
            ![b].chosen = IF page[b].chosen = None /\ list # {} THEN Min(list) ELSE @]
    /\ UNCHANGED <<quota, tickets, call>>

Select(b) ==
    /\ \E a \in page[b].list : page' = [page EXCEPT ![b].chosen = a]
    /\ UNCHANGED <<quota, tickets, call>>

\* setActivityForm, setFirstTicketForm
EditForm(b) ==
    /\ b \in Author
    /\ \E n \in Amount :
         \/ page' = [page EXCEPT ![b].form.quota = n]
         \/ page[b].form.custom /\ page' = [page EXCEPT ![b].form.stock = n]
    /\ UNCHANGED <<quota, tickets, call>>

\* The form of the first ticket is shown with the quota of this moment as its stock,
\* or hidden.
ToggleCustom(b) ==
    /\ b \in Author
    /\ page' = [page EXCEPT ![b].form =
         IF @.custom THEN [@ EXCEPT !.custom = FALSE]
         ELSE [@ EXCEPT !.custom = TRUE, !.stock = page[b].form.quota]]
    /\ UNCHANGED <<quota, tickets, call>>

\* resolveEffectiveFirstTicket
EffectiveStock(form) == IF form.custom THEN form.stock ELSE form.quota

Start(b, c) ==
    /\ call[b].pc = "idle"
    /\ call' = [call EXCEPT ![b] = c]
    /\ UNCHANGED <<quota, tickets, page>>

Submit(b) ==
    \/ /\ b \in Author
       /\ Start(b, [NoCall EXCEPT !.pc = "create", !.amount = page[b].form.quota,
                                  !.stock = EffectiveStock(page[b].form)])
    \/ /\ Shown(b) # None
       /\ \/ \E n \in Amount :
               Start(b, [NoCall EXCEPT !.pc = "insert", !.activity = Shown(b), !.stock = n])
          \/ Start(b, [NoCall EXCEPT !.pc = "find", !.activity = Shown(b)])
    \* Not the workspace, but a caller of the same route may change the quota.
    \/ \E a \in ActivityId, n \in Amount :
          Exists(a) /\ Start(b, [NoCall EXCEPT !.pc = "find", !.activity = a, !.amount = n])

\* onSuccess: what was created is chosen and the form is as new.  A failure leaves both.
Receive(b) ==
    /\ call[b].pc \in {"created", "answered"}
    /\ page' = IF call[b].pc = "created"
               THEN [page EXCEPT ![b].chosen = call[b].activity, ![b].form = EmptyForm]
               ELSE page
    /\ call' = [call EXCEPT ![b] = NoCall]
    /\ UNCHANGED <<quota, tickets>>

-----------------------------------------------------------------------------
(* The handlers *)

Go(b, pc) == call' = [call EXCEPT ![b].pc = pc]

\* assertTotalQuotaMatchesTickets, and the rows.  It may fail for its times or title.
CreateActivity(b) ==
    LET c == call[b] IN
    /\ c.pc = "create"
    /\ \/ /\ c.amount = c.stock
          /\ \E a \in ActivityId, t \in TicketId :
               /\ ~Exists(a) /\ tickets[t] = NoTicket
               /\ quota' = [quota EXCEPT ![a] = c.amount]
               /\ tickets' =
                    [tickets EXCEPT ![t] = [activity |-> a, stock |-> c.stock, tx |-> None]]
               /\ call' = [call EXCEPT ![b] = [NoCall EXCEPT !.pc = "created", !.activity = a]]
       \/ Go(b, "answered") /\ UNCHANGED <<quota, tickets>>
    /\ UNCHANGED page

\* The transaction of createActivityTicket inserts the ticket,
InsertTicket(b) ==
    /\ call[b].pc = "insert"
    /\ \E t \in TicketId :
         /\ tickets[t] = NoTicket
         /\ tickets' = [tickets EXCEPT ![t] = [activity |-> call[b].activity,
                                               stock |-> call[b].stock, tx |-> b]]
    /\ Go(b, "sum")
    /\ UNCHANGED <<quota, page>>

\* sums the stock it can see,
SumStock(b) ==
    /\ call[b].pc = "sum"
    /\ call' = [call EXCEPT ![b].pc = "commit", ![b].amount = StockOf(call[b].activity, b)]
    /\ UNCHANGED <<quota, tickets, page>>

\* writes the sum, for which it may wait, and commits.
CommitTicket(b) ==
    LET c == call[b] IN
    /\ c.pc = "commit"
    /\ quota' = [quota EXCEPT ![c.activity] = c.amount]
    /\ tickets' = [t \in TicketId |-> IF tickets[t].tx = b THEN [tickets[t] EXCEPT !.tx = None]
                                      ELSE tickets[t]]
    /\ Go(b, "answered")
    /\ UNCHANGED page

\* The name is taken, or a query fails.
TicketFails(b) ==
    /\ call[b].pc \in {"insert", "sum", "commit"}
    /\ tickets' = [t \in TicketId |-> IF tickets[t].tx = b THEN NoTicket ELSE tickets[t]]
    /\ Go(b, "answered")
    /\ UNCHANGED <<quota, page>>

\* Mutant: the quota is not compared.
FindActivityMutant(b) ==
    /\ call[b].pc = "find"
    /\ Go(b, "update")
    /\ UNCHANGED <<quota, tickets, page>>

\* updateActivity reads the activity with its tickets,
FindActivity(b) ==
    /\ call[b].pc = "find"
    /\ Go(b, IF call[b].amount \in {None, StockOf(call[b].activity, None)}
             THEN "update" ELSE "answered")
    /\ UNCHANGED <<quota, tickets, page>>

\* and writes what it was given, a status or a quota.
UpdateActivity(b) ==
    LET c == call[b] IN
    /\ c.pc = "update"
    /\ quota' = IF c.amount = None THEN quota ELSE [quota EXCEPT ![c.activity] = c.amount]
    /\ Go(b, "answered")
    /\ UNCHANGED <<tickets, page>>

-----------------------------------------------------------------------------
Work(b) == Refetch(b) \/ Select(b) \/ EditForm(b) \/ ToggleCustom(b) \/ Submit(b) \/ Receive(b)

Handle(b) ==
    \/ CreateActivity(b)
    \/ InsertTicket(b) \/ SumStock(b) \/ CommitTicket(b) \/ TicketFails(b)
    \/ FindActivity(b) \/ UpdateActivity(b)

Next == \E b \in Browser : Work(b) \/ Handle(b)

Spec == Init /\ [][Next]_vars

-----------------------------------------------------------------------------
(* Properties *)

\* activities.service.ts refuses a quota that is not the sum of the stocks.  Tickets
\* added at once, or while a quota is set, may leave it below that sum, never above.
QuotaWithinStock ==
    \A a \in ActivityId : Exists(a) => quota[a] <= StockOf(a, None)

KeepsShown ==
    \A b \in Browser :
        page'[b].chosen = page[b].chosen /\ Shown(b) # None =>
            Shown(b)' \in {Shown(b), page[b].chosen}

\* As long as nobody selects or creates in a workspace, what it shows, and so what its
\* buttons act on, stays: an activity of somebody else that sorts first changes nothing.
ShownIsStable == [][KeepsShown]_vars

-----------------------------------------------------------------------------
(* For the proofs: what is assumed of the constants, and the inductive invariant *)

\* Activities are numbered and tickets finitely many; None is no number and no workspace.
Assumptions ==
    /\ ActivityId \subseteq Nat /\ IsFiniteSet(TicketId)
    /\ Amount \subseteq Nat /\ Default \in Nat
    /\ None \notin Nat \cup Browser

TicketRecord == [activity : ActivityId \cup {None}, stock : Nat, tx : Browser \cup {None}]

PageRecord == [list : SUBSET ActivityId, chosen : ActivityId \cup {None},
               form : [quota : Nat, custom : BOOLEAN, stock : Nat]]

CallRecord == [pc : {"idle", "create", "created", "insert", "sum", "commit", "find", "update",
                     "answered"},
               activity : ActivityId \cup {None}, amount : Nat \cup {None}, stock : Nat]

RowsSound ==
    /\ quota \in [ActivityId -> Nat \cup {None}]
    /\ tickets \in [TicketId -> TicketRecord]

\* What a workspace lists or has chosen exists, and without a choice the list is empty.
PageSound(p) ==
    /\ p \in PageRecord
    /\ \A a \in p.list : Exists(a)
    /\ p.chosen # None => Exists(p.chosen)
    /\ p.chosen = None => p.list = {}

\* A request is about an activity that exists, and what it will write is at most the
\* stock of the tickets that will then be committed.
CallSound(b, c) ==
    /\ c \in CallRecord
    /\ c.pc = "create" => c.amount # None
    /\ c.pc \in {"created", "insert", "sum", "commit", "find", "update"} =>
         c.activity \in ActivityId /\ Exists(c.activity)
    /\ c.pc = "commit" => c.amount # None /\ c.amount <= StockOf(c.activity, b)
    /\ c.pc = "update" /\ c.amount # None => c.amount <= StockOf(c.activity, None)

PagesSound == page \in [Browser -> PageRecord] /\ \A b \in Browser : PageSound(page[b])
CallsSound == call \in [Browser -> CallRecord] /\ \A b \in Browser : CallSound(b, call[b])

\* A step of workspace b: it removes no activity, and no ticket of another transaction.
Keeps(b) ==
    /\ \A a \in ActivityId : Exists(a) => Exists(a)'
    /\ \A t \in TicketId :
         tickets[t].activity # None /\ tickets[t].tx \in {None} \cup (Browser \ {b}) =>
            tickets'[t] = tickets[t]

ActivityInv == RowsSound /\ PagesSound /\ CallsSound /\ QuotaWithinStock
=============================================================================
