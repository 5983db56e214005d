----------------------------- MODULE NoticeBoard -----------------------------
(***************************************************************************)
(* Notices: administrators write and publish them in the workspace of the  *)
(* web client, the handler derives the time of publication from the row it *)
(* has read, and the home page shows the newest.                           *)
(***************************************************************************)
EXTENDS Integers, FiniteSets

CONSTANTS
    NoticeId, \* bound: the notices there can be, numbered as created
    Browser,  \* the workspaces; bound: one request in flight in each
    MaxTime,  \* bound: how often the clock advances
    None      \* null; no notice

VARIABLES
    now,
    rows,  \* Notification rows
    page,  \* the workspaces: cached list, selection and edit form
    call   \* their requests

vars == <<now, rows, page, call>>

Status == {"draft", "published"}
Time == 1..MaxTime
Row == [status : Status, publishedAt : Time \cup {None}, updatedAt : Time]

NewPage == [list |-> [n \in NoticeId |-> None], chosen |-> None, of |-> None, status |-> "draft"]
NoCall == [pc |-> "idle", id |-> None, status |-> None, row |-> None]

TypeOK ==
    /\ now \in Time
    /\ \A n \in NoticeId :
         rows[n] \in {None} \cup Row
    /\ \A b \in Browser :
         /\ page[b].chosen \in NoticeId \cup {None} /\ page[b].of \in NoticeId \cup {None}
         /\ page[b].status \in Status
         /\ call[b].pc \in {"idle", "create", "created", "find", "update", "answered"}

Init ==
    /\ now = 1
    /\ rows = [n \in NoticeId |-> None]
    /\ page = [b \in Browser |-> NewPage]
    /\ call = [b \in Browser |-> NoCall]

Tick == now < MaxTime /\ now' = now + 1 /\ UNCHANGED <<rows, page, call>>

-----------------------------------------------------------------------------
(* The workspace *)

Listed(list) == {n \in NoticeId : list[n] # None}

\* listAdminNotifications: the last one updated comes first, and the last one created
\* of those.
Before(list, n, m) ==
    \/ list[n].updatedAt > list[m].updatedAt
    \/ list[n].updatedAt = list[m].updatedAt /\ n > m

First(list) == IF Listed(list) = {} THEN None
               ELSE CHOOSE n \in Listed(list) : \A m \in Listed(list) \ {n} : Before(list, n, m)

Place(list, n) == Cardinality({m \in Listed(list) : Before(list, m, n)})

ShownIn(p) == IF p.chosen \in Listed(p.list) THEN p.chosen ELSE First(p.list)

FillFrom(p, n) == [p EXCEPT !.of = n, !.status = p.list[n].status]

\* Mutant: the form is filled when something is chosen, not when something is shown.
FilledMutant(old, new) ==
    IF new.chosen # old.chosen /\ ShownIn(new) # None THEN FillFrom(new, ShownIn(new)) ELSE new

\* The edit form is filled when another notice is shown, or a new object: one that was
\* updated, or has another place in the list.
Filled(old, new) ==
    LET n == ShownIn(new) IN
    IF n # None /\ (\/ n # ShownIn(old) \/ new.list[n] # old.list[n]
                    \/ Place(new.list, n) # Place(old.list, n))
    THEN FillFrom(new, n) ELSE new

Refetch(b) ==
    /\ page' = [page EXCEPT ![b] = Filled(@,
         [@ EXCEPT !.list = rows,
                   !.chosen = IF page[b].chosen = None THEN First(rows) ELSE page[b].chosen])]
    /\ UNCHANGED <<now, rows, call>>

Select(b) ==
    /\ \E n \in Listed(page[b].list) :
         page' = [page EXCEPT ![b] = Filled(@, [@ EXCEPT !.chosen = n])]
    /\ UNCHANGED <<now, rows, call>>

EditStatus(b) ==
    /\ ShownIn(page[b]) # None
    /\ \E s \in Status : page' = [page EXCEPT ![b].status = s]
    /\ UNCHANGED <<now, rows, call>>

\* The create form keeps its contents after a success, so that it may be sent again.
Submit(b) ==
    /\ call[b] = NoCall
    /\ \/ \E s \in Status :
            call' = [call EXCEPT ![b] = [NoCall EXCEPT !.pc = "create", !.status = s]]
       \/ /\ ShownIn(page[b]) # None
          \* The form always has a status; another caller of the route may send none.
          /\ \E s \in {page[b].status, None} :
               call' = [call EXCEPT ![b] = [NoCall EXCEPT !.pc = "find", !.id = ShownIn(page[b]),
                                                          !.status = s]]
    /\ UNCHANGED <<now, rows, page>>

\* onSuccess: what was created is selected, before any list has it.
Receive(b) ==
    /\ call[b].pc \in {"created", "answered"}
    /\ page' = IF call[b].pc = "created"
               THEN [page EXCEPT ![b] = Filled(@, [@ EXCEPT !.chosen = call[b].id])]
               ELSE page
    /\ call' = [call EXCEPT ![b] = NoCall]
    /\ UNCHANGED <<now, rows>>

-----------------------------------------------------------------------------
(* The handlers *)

CreateNotification(b) ==
    LET c == call[b] IN
    /\ c.pc = "create"
    /\ \E n \in NoticeId :
         /\ rows[n] = None /\ \A m \in NoticeId : m < n => rows[m] # None
         /\ rows' = [rows EXCEPT ![n] =
              [status |-> c.status, updatedAt |-> now,
               publishedAt |-> IF c.status = "published" THEN now ELSE None]]
         /\ call' = [call EXCEPT ![b] = [NoCall EXCEPT !.pc = "created", !.id = n]]
    /\ UNCHANGED <<now, page>>

FindNotification(b) ==
    /\ call[b].pc = "find"
    /\ call' = [call EXCEPT ![b].pc = "update", ![b].row = rows[call[b].id]]
    /\ UNCHANGED <<now, rows, page>>

\* The time of a publication that the row had when it was read is kept.
PublishedAt(id, status, row) ==
    IF status = "draft" THEN None
    ELSE IF row.status # "published" THEN now ELSE row.publishedAt

UpdateNotification(b) ==
    LET c == call[b] IN
    /\ c.pc = "update"
    /\ rows' = [rows EXCEPT ![c.id] =
         IF c.status = None THEN [@ EXCEPT !.updatedAt = now]
         ELSE [status |-> c.status, updatedAt |-> now,
               publishedAt |-> PublishedAt(c.id, c.status, c.row)]]
    /\ call' = [call EXCEPT ![b] = [NoCall EXCEPT !.pc = "answered"]]
    /\ UNCHANGED <<now, page>>

\* A query fails, or the payload is refused.
Fails(b) ==
    /\ call[b].pc \in {"create", "find", "update"}
    /\ call' = [call EXCEPT ![b] = [NoCall EXCEPT !.pc = "answered"]]
    /\ UNCHANGED <<now, rows, page>>

-----------------------------------------------------------------------------
Next ==
    \/ Tick
    \/ \E b \in Browser :
         \/ Refetch(b) \/ Select(b) \/ EditStatus(b) \/ Submit(b) \/ Receive(b)
         \/ CreateNotification(b) \/ FindNotification(b) \/ UpdateNotification(b) \/ Fails(b)

Spec == Init /\ [][Next]_vars

-----------------------------------------------------------------------------
(* Properties *)

Agrees(row) ==
    /\ row.status = "published" <=> row.publishedAt # None
    /\ row.publishedAt # None => row.publishedAt <= row.updatedAt

\* Whatever two administrators save at once, a notice has a time of publication if and
\* only if it is published, no later than its last update: listPublishedNotifications
\* orders by that time.
PublishedAgrees == \A n \in Listed(rows) : Agrees(rows[n])

\* The edit form is that of the notice that is shown, as it is saved to that one.
EditsShown == \A b \in Browser : page[b].of = ShownIn(page[b])

-----------------------------------------------------------------------------
(* For the proofs: what is assumed of the constants, and the inductive invariant *)

\* Notices are numbered, and of any notices one is the newest; there is a time at which
\* it all begins; and None is no notice, no time, no status and no row.
Assumptions ==
    /\ NoticeId \subseteq Int
    /\ \A S \in SUBSET NoticeId : S # {} => \E n \in S : \A m \in S : m <= n
    /\ MaxTime \in Nat \ {0}
    /\ None \notin Int \cup Status \cup Row

\* A row that agrees with its status, and was written in the past.
RowSound(row) == Agrees(row) /\ row.updatedAt <= now

CallRecord == [pc : {"idle", "create", "created", "find", "update", "answered"},
               id : NoticeId \cup {None}, status : Status \cup {None}, row : Row \cup {None}]

\* A request that will write is about a notice that exists, and has read a row of the
\* past.
CallSound(c) ==
    /\ c \in CallRecord
    /\ c.pc = "create" => c.status # None
    /\ c.pc \in {"created", "find", "update"} => c.id \in NoticeId
    /\ c.pc \in {"find", "update"} => rows[c.id] # None
    /\ c.pc = "update" => c.row \in Row /\ RowSound(c.row)

RowsSound ==
    /\ now \in Time
    /\ rows \in [NoticeId -> {None} \cup Row]
    /\ \A n \in Listed(rows) : RowSound(rows[n])
    /\ DOMAIN call = Browser
    /\ \A b \in Browser : CallSound(call[b])

PageRecord == [list : [NoticeId -> {None} \cup Row], chosen : NoticeId \cup {None},
               of : NoticeId \cup {None}, status : Status]

\* The pages, which list only notices that exist.
PagesSound ==
    /\ page \in [Browser -> PageRecord]
    /\ \A b \in Browser : Listed(page[b].list) \subseteq Listed(rows)

BoardInv == RowsSound /\ PagesSound /\ EditsShown
=============================================================================
