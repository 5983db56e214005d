----------------------------- MODULE ServiceDesk -----------------------------
(***************************************************************************)
(* Repair requests: students submit them, administrators move them between *)
(* their statuses in the workspace of the web client, and the handler      *)
(* derives the time stamps from the row it has read.                       *)
(***************************************************************************)
EXTENDS Integers, FiniteSets

CONSTANTS
    RequestId, \* bound: the requests there can be, numbered as submitted
    Browser,   \* the workspaces of administrators; bound: one save in flight in each
    MaxTime,   \* bound: how often the clock advances
    Offered,   \* bound: the statuses that administrators choose
    None       \* null; no request

VARIABLES
    now,
    rows, \* ServiceRequest rows
    page, \* the workspaces: cached list, selection and form
    call  \* the saves in flight

vars == <<now, rows, page, call>>

Status == {"submitted", "received", "in_progress", "resolved", "closed"}
Received == Status \ {"submitted"}
Resolved == {"resolved", "closed"}
Time == 1..MaxTime

NoRow == [status |-> None, receivedAt |-> None, resolvedAt |-> None]
NewRow == [NoRow EXCEPT !.status = "submitted"]
Row == [status : Status, receivedAt : Time \cup {None}, resolvedAt : Time \cup {None}]
NewPage == [list |-> [r \in RequestId |-> None], chosen |-> None, of |-> None,
            status |-> "submitted"]
NoCall == [pc |-> "idle", id |-> None, status |-> None, row |-> NoRow]
CallRecord == {NoCall} \cup
    [pc : {"find"}, id : RequestId, status : Status \cup {None}, row : {NoRow}] \cup
    [pc : {"update"}, id : RequestId, status : Status \cup {None}, row : Row]

TypeOK ==
    /\ now \in Time
    /\ rows \in [RequestId -> {NoRow} \cup Row]
    /\ page \in [Browser -> [list : [RequestId -> Status \cup {None}],
                             chosen : RequestId \cup {None}, of : RequestId \cup {None},
                             status : Status]]
    /\ call \in [Browser -> CallRecord]

Init ==
    /\ now = 1
    /\ rows = [r \in RequestId |-> NoRow]
    /\ page = [b \in Browser |-> NewPage]
    /\ call = [b \in Browser |-> NoCall]

Tick == now < MaxTime /\ now' = now + 1 /\ UNCHANGED <<rows, page, call>>

\* createServiceRequest
Create(r) ==
    /\ rows[r] = NoRow
    /\ rows' = [rows EXCEPT ![r] = NewRow]
    /\ UNCHANGED <<now, page, call>>

-----------------------------------------------------------------------------
(* The workspace *)

\* The newest request of a list comes first.
First(list) == IF \A r \in RequestId : list[r] = None THEN None
               ELSE CHOOSE r \in RequestId :
                      list[r] # None /\ \A q \in RequestId : list[q] # None => q <= r

ShownIn(p) == IF p.chosen # None /\ p.list[p.chosen] # None THEN p.chosen ELSE First(p.list)

Place(list, r) == Cardinality({q \in RequestId : list[q] # None /\ q > r})

\* The request that is shown is another one, or a new object: its row has changed, or
\* its place in the list, by which the cache compares the old list with the new one.
IsNew(old, new, r) ==
    \/ r # ShownIn(old)
    \/ new.list[r] # old.list[r]
    \/ Place(new.list, r) # Place(old.list, r)

FillFrom(p, r) == [p EXCEPT !.of = r, !.status = p.list[r]]

\* The form is filled then, and otherwise what was entered stays.
Filled(old, new) ==
    LET r == ShownIn(new) IN
    IF r # None /\ IsNew(old, new, r) THEN FillFrom(new, r) ELSE new

Render(b, new) ==
    /\ page' = [page EXCEPT ![b] = Filled(page[b], new)]
    /\ UNCHANGED <<now, rows, call>>

\* The list comes, at first, after a save or when the window has the focus again;
\* without a choice the first of it is chosen.  The row may have been saved with the
\* same status, which makes it new too.
Refetch(b) ==
    LET list == [r \in RequestId |-> rows[r].status]
        new  == [page[b] EXCEPT !.list = list, !.chosen = IF @ = None THEN First(list) ELSE @]
    IN \/ Render(b, new)
       \/ ShownIn(new) # None /\ Render(b, FillFrom(new, ShownIn(new)))

Select(b) ==
    \E r \in RequestId : page[b].list[r] # None /\ Render(b, [page[b] EXCEPT !.chosen = r])

EnterStatus(b) ==
    /\ ShownIn(page[b]) # None
    /\ \E s \in Offered : page' = [page EXCEPT ![b].status = s]
    /\ UNCHANGED <<now, rows, call>>

\* The form always has a status; another caller of the route may send a note alone.
Save(b) ==
    /\ call[b] = NoCall
    /\ ShownIn(page[b]) # None
    /\ \E s \in {page[b].status, None} :
         call' = [call EXCEPT ![b] = [NoCall EXCEPT !.pc = "find", !.id = ShownIn(page[b]),
                                                    !.status = s]]
    /\ UNCHANGED <<now, rows, page>>

-----------------------------------------------------------------------------
(* updateServiceRequest *)

Find(b) ==
    /\ call[b].pc = "find"
    /\ call' = [call EXCEPT ![b].pc = "update", ![b].row = rows[call[b].id]]
    /\ UNCHANGED <<now, rows, page>>

OrNow(t) == IF t = None THEN now ELSE t

\* Mutant: a time stamp that does not apply is left as it is in the row.
WithStatusMutant(id, status, row) ==
    [status     |-> status,
     receivedAt |-> IF status \in Received THEN OrNow(row.receivedAt) ELSE rows[id].receivedAt,
     resolvedAt |-> IF status \in Resolved THEN OrNow(row.resolvedAt) ELSE rows[id].resolvedAt]

\* What is written to a request with a status, from the row that was read.
WithStatus(id, status, row) ==
    [status     |-> status,
     receivedAt |-> IF status \in Received THEN OrNow(row.receivedAt) ELSE None,
     resolvedAt |-> IF status \in Resolved THEN OrNow(row.resolvedAt) ELSE None]

Update(b) ==
    LET c == call[b] IN
    /\ c.pc = "update"
    /\ rows' = IF c.status = None THEN rows
               ELSE [rows EXCEPT ![c.id] = WithStatus(c.id, c.status, c.row)]
    /\ call' = [call EXCEPT ![b] = NoCall]
    /\ UNCHANGED <<now, page>>

\* A query fails.
Fails(b) ==
    /\ call[b] # NoCall
    /\ call' = [call EXCEPT ![b] = NoCall]
    /\ UNCHANGED <<now, rows, page>>

-----------------------------------------------------------------------------
Next ==
    \/ Tick
    \/ \E r \in RequestId : Create(r)
    \/ \E b \in Browser :
         \/ Refetch(b) \/ Select(b) \/ EnterStatus(b) \/ Save(b)
         \/ Find(b) \/ Update(b) \/ Fails(b)

Spec == Init /\ [][Next]_vars

-----------------------------------------------------------------------------
(* Properties *)

Agrees(row) ==
    /\ row.receivedAt # None <=> row.status \in Received
    /\ row.resolvedAt # None <=> row.status \in Resolved
    /\ row.resolvedAt # None => row.receivedAt <= row.resolvedAt

\* Whatever two administrators save at once from rows they have read before, the time
\* stamps of a request agree with its status, and it was received before it was
\* resolved.
TimestampsAgree == \A r \in RequestId : rows[r] # NoRow => Agrees(rows[r])

\* The form is that of the request that is shown: a save never moves one request to
\* the status another one has, whichever list arrives or selection is made before.
FormIsOfShown == \A b \in Browser : page[b].of = ShownIn(page[b])

-----------------------------------------------------------------------------
(* For the proofs: what is assumed of the constants, and the inductive invariant *)

\* None is no time, no status and no request; there is a time at which it all begins;
\* administrators choose statuses; and of any requests one is the newest.
Assumptions ==
    /\ None \notin Int \cup Status \cup RequestId
    /\ MaxTime \in Nat \ {0}
    /\ Offered \subseteq Status
    /\ \A S \in SUBSET RequestId : S # {} => \E r \in S : \A q \in S : q <= r

\* The request was received in the past, if it was.
Past(row) == row.receivedAt # None => row.receivedAt <= now

\* The rows, and what a save has read of one.
RowsSound ==
    /\ now \in Time
    /\ rows \in [RequestId -> {NoRow} \cup Row]
    /\ call \in [Browser -> CallRecord]
    /\ \A r \in RequestId : rows[r] # NoRow => Agrees(rows[r]) /\ Past(rows[r])
    /\ \A b \in Browser : call[b].pc = "update" => Agrees(call[b].row) /\ Past(call[b].row)
    /\ \A b \in Browser : call[b].pc = "find" => rows[call[b].id] # NoRow

PageRecord == [list : [RequestId -> Status \cup {None}], chosen : RequestId \cup {None},
               of : RequestId \cup {None}, status : Status]

\* The pages, which list only requests that exist.
PagesSound ==
    /\ page \in [Browser -> PageRecord]
    /\ \A b \in Browser, r \in RequestId : page[b].list[r] # None => rows[r] # NoRow

DeskInv == RowsSound /\ PagesSound /\ FormIsOfShown
=============================================================================
