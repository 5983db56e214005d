# CampusBook, specified

TLA+ specifications, TLC checks and TLAPS proofs for CampusBook: a campus booking
system in which students grab activity tickets, pay for them, reserve study spaces and
sports slots and report repairs, and administrators keep resources, rules, activities
and notices. Paths below are relative to the repository.

| file | what it is |
|---|---|
| `ActivityGrab.tla` | the ticket grab: API handler, Redis cache, BullMQ queue, worker, cancellation, recovery |
| `TicketSale.tla` | what a grab promises, abstractly; implemented by `ActivityGrab` |
| `OrderLifecycle.tla` | order transitions, mock payments, the expiration job and its rehydration |
| `OrderTable.tla` | what the order centre promises, abstractly; implemented by `OrderLifecycle` |
| `Reservation.tla` | reservations of rooms and courts: checks, row inserts, the constraints of PostgreSQL |
| `Calendar.tla` | what reservations promise, abstractly; implemented by `Reservation` |
| `Attendance.tla` | check-in, cancellation and the evaluation of missed reservations, penalties, the attendance job |
| `PenaltyBook.tla` | what the evaluation promises, abstractly; implemented by `Attendance` |
| `ReleaseCalendar.tla`, `ResourceChannel.tla` | release cycles and closures as functions of the rows and the time; their administration, and the reservations they let through |
| `ResourceCatalogue.tla` | resources, units and groups, their deletion, and the reservations that refer to them |
| `RuleBook.tla` | admission rules, their bindings and administration, admissions, the bans of missed reservations |
| `ActivityAdmin.tla` | creation of activities and tickets, quotas, the activities workspace |
| `ServiceDesk.tla`, `NoticeBoard.tla` | repair requests and notices: handlers and workspaces |
| `RuleDesk.tla`, `ResourceDesk.tla` | the administrators' workspaces for rules and for resources |
| `SpacesPage.tla`, `SportsPage.tla` | the pages on which rooms and courts are booked |
| `Desks.tla` | the catalogue, the workspaces and the booking pages together, each with a setting of its constants |
| `Campus.tla` | all components around the bookings, one at a time, and their properties |
| `MC*.tla` | instances for TLC (model values, symmetry, scopes, settings) |
| `*_proofs.tla` | the theorems about a module, and their proofs |
| `*.cfg` | one configuration per run |

To check: `tlc -config GrabRaces.cfg MCGrabScopes`, `tlapm ActivityGrab_proofs.tla`.

## 1. Inventory

The system is a NestJS API process (`apps/api`), a worker process of the same code base
(`apps/api/src/worker.ts`), PostgreSQL through Prisma, Redis (the inventory cache, and
BullMQ's queues) and a React client (`apps/web`). Any number of requests run at once in
the API; each BullMQ worker runs up to five jobs at once. Handlers interact only through
rows, keys and jobs, and every `await` is a point where the others may run. The client
keeps a cached list per query, which is fetched again after a change or when the window
has the focus; its answers arrive in any order.

| component | state | operations | hard behaviour | what makes it correct |
|---|---|---|---|---|
| Activity grab (`modules/activities/activity-registration*`, `activity-inventory-*`) | `ActivityTicket.reserved`, `ActivityRegistration` rows; Redis `remaining`, `pending`, `failure` keys; registration jobs | grab, poll, process a job, recover the cached stock | cache against database, job redelivery, claims that expire, failure after the commit, a recovery that runs beside the traffic | no overselling, one active registration per user, the cache never lets through too many, a claim keeps its work, the cache heals |
| Orders (`modules/orders`) | `Order.status`, `version`, `expireAt`; child rows; expiration and attendance jobs | confirm, cancel, no-show, expire, finalise attendance, rehydrate | five kinds of transition race; jobs lost, stalled, replaced while active | each transition follows the table, one of the racers wins, no overdue order stays pending |
| Payments (`modules/payment`) | `PaymentRecord`, `PaymentCompensationLog` | start, callback | callback against cancellation; repeated callbacks; parallel starts | paid exactly when confirmed by the payment, never twice; a late callback is logged |
| Reservations (`modules/reservation`) | `AcademicReservation`, `SportsReservationSlot`, participants | reserve a space, reserve slots or a group, check in | check-then-insert backed by an exclusion constraint and a unique index; buffers | no two reservations overlap; a group is booked whole or not at all |
| Attendance (`orders.service.ts`, `reservation-attendance-*`) | order status, `checkedInAt`, jobs | check in, finalise, rehydrate | a check-in that races with the finalisation | nobody who checked in is punished; every missed reservation is found |
| Rule engine (`modules/rules`) | rules, bindings, profiles, credit score, restrictions | admit, punish, administer | limits and rows read before they are used; a rule deleted under a penalty; overlapping evaluations | a rule's expression fits its type; every penalty counts; bans hold; whoever is admitted meets the rules |
| Resources (`modules/resource`) | resources, units, groups, release rules, closures | create, change, delete, open, close, release | month lengths, open-ended closures, rows counted before the deletion, reservations meanwhile | a channel is open exactly after its release and outside closures; no reservation and no group refers to a row that is gone |
| Activity administration (`activities.service.ts`) | activities, tickets, `totalQuota` | create, update, add a ticket | two tickets added at once | `totalQuota` never exceeds the stock |
| Service requests, notices | rows with time stamps | create, update, list | read-then-write by two administrators | time stamps agree with the status |
| Administrators' workspaces (`ui/pages/admin/workspaces`) | cached list, selection, open panel, forms, changes in flight | select, edit, save, receive | lists and answers that arrive between a selection and a click | what is sent is for the row that is shown |
| Booking pages (`spaces-page.tsx`, `sports-page.tsx`) | displayed window, what is picked, the schedule | pick, move, submit | window against range, buffers, groups | the page and the handler agree, but for the cases section 7 names |
| Authentication, infrastructure, scripts, the rest of the client | tokens, connections, views | | none that a model checker reaches | not modelled |

`PROJECT.json` lists, at its line, each hazard this code is exposed to and the property
that would catch it, or says why none does.

## 2. How the project is built

What is contended most was modelled first, each component with an abstract specification it
is shown to implement, a run for its safety, one for its liveness where the code loops or
retries, and proofs: grab, orders and payments, reservations, attendance (sections 3 to 6).
The components around the bookings came next (section 7), one module each, checked together
in one run. `Reservation` abstracts what `RuleBook`, `ResourceChannel` and
`ResourceCatalogue` refuse to a single step that may refuse any request; these three model
that step in detail, and what they let through is what `Reservation` begins with.

A behaviour of a specification with *scopes* (`MCGrabScopes`, `Campus`) chooses at its start one
of several instances and keeps to it. It is a run of each instance, in one state space. In
`Campus` an instance's constants are the fields of a record, its *setting*, and all settings are
one constant: TLC checks the settings of `MCCampus`, the theorems are about all that meet
`SettingAssumption`.

## 3. ActivityGrab

One action is one round trip: a Lua script, a Redis command, a query, a transaction or a
BullMQ call. A handler is a record with a `pc` and what it read earlier.

| state | code |
|---|---|
| `regs`, `reserved`, `onSale` | `ActivityRegistration` with its order's status; `ActivityTicket.reserved`; the conditions of `getAvailableTicket` |
| `remaining`, `pending`, `failure` | the three kinds of keys of `activity-registration.constants.ts` |
| `job`, `stalled` | the registration job of a user and a ticket (its id is built from them), `retained` once finished |
| `req`, `run`, `rec` | `queueRegistration` in flight; the worker's slots in `processQueuedRegistration`; `rehydrateActiveTickets` |
| `release` | cancellations that have committed and have still to run `RELEASE_CONFIRMED_LUA` |

The handler's steps are `GrabReadTicket`, `GrabAssertNotRegistered`, `EnsureExists` ..
`EnsureSetNX` (the four round trips of `ensureTicketRemaining`), `Reserve`, `Enqueue` or
`EnqueueFails`, `CompensateRequest`. The worker's are `TakeJob`, `LookupExisting`,
`ReadTicket` and `BookTx` (the transaction at PostgreSQL's read-committed level: the sale
may close between the two statements; the row lock of the conditional update makes the rest
one step), `ScheduleExpiration`, `CompleteRun`, and on the error paths `ReadDuplicated`,
`CompleteThenCompensate`, `CompensateRun`, `RunFails`. Recovery is `RehydrateSnapshot`, then
`ReconcileScan`, `ReconcileMGet`, `ReconcileSet` per ticket.

`faults`, chosen once from `FaultSets`, says what may go wrong in a behaviour; every other
interleaving is always there.
`JobStalls` is BullMQ's: a job whose lock runs out is delivered once more while its first
delivery may go on running, the second time it is failed.

Abstractions: one activity; user, rules and roles are read without effect, so
`GrabAssertNotRegistered` may refuse any request; time is only that keys expire and that
the sale opens and closes at any moment; a SCAN is one step; recovery reads every ticket
(the code reads the 200 changed last) and one round runs at a time; a registration that
was cancelled stays in `regs`; `Poll` is a poll whose three reads are not overtaken.

### Runs

| run | instance | checks | size |
|---|---|---|---|
| `GrabRaces` | three scopes: *contention* (2 users, 1 free ticket with 1 place, 2 handlers, 2 slots, 1 cancellation; enqueue and transaction failures); *redelivery* (2 users, 1 paid ticket, 1 handler, 2 slots; stalled jobs, lost stock key, failing worker calls); *two tickets* (1 user, a free and a paid ticket, 1 handler, 2 slots, 1 cancellation; expiring claims, evicted jobs) | `TypeOK`, `ReservedIsExact`, `OneActivePerUser`, `ImplementsSale`; `ClaimKeepsItsWork`; `CacheLetsNoMoreThrough` (not *redelivery*); `GrabIsVisible` (not *two tickets*) | 507 000 states |
| `GrabHealing` | 1 user, 1 ticket, recovery on, two scopes: *reposting* (2 handlers, 1 slot, 1 cancellation; expiry, dying handlers, failing transactions) and *redelivered* (1 handler, 2 slots; stalls, failing enqueues and worker calls); fair | `CacheHeals`, `JobsFinish` | 189 000 |
| `GrabRecoveryLosesClaim` | recovery on, no fault | `CacheNeverOverAdmits` violated | |
| `GrabSwallowed` | no fault, one grab after the other while the sale stays open (`OneByOneSpec`) | `QueuedClaimIsWorkedOn` violated | |

The bounds: with one place, the smallest number of users and slots that can contend is two,
and a third would only repeat what one of them does; a second handler is needed for a
stale snapshot, a second ticket for two jobs of one user, and one cancellation for a place
that comes back. Deadlock is not checked because the instance's cancellations and
registration rows run out.

`CacheNeverOverAdmits` is about the cache alone, the database being protected by
`ReservedIsExact`. It is genuinely lost when a job is redelivered, when a call after the
commit fails (`compensatePendingReservation` of a place that is sold), when the stock key
is lost under a stale snapshot, and in a recovery round. `CacheLetsNoMoreThrough` states it
of the behaviours without these, and `GrabHealing` checks that the recovery makes good what
they did. `AcceptedGrabIsVisible` is lost when a key reaches its TTL: `GrabIsVisible` states it of
the other behaviours.

`ClaimKeepsItsWork` is about steps, because claims without work do exist. A claim is worked on
(`WorkedOn`) while its job waits or is active, a slot runs it, or the handler that reserved it has
not left; a job that has ended and is retained is no work. Two kinds of step leave a claim without
work: its own handler or run breaks off (`BreaksOff`: the process dies, a call fails where nothing
catches it, a job fails as stalled), and its job is added under the id of a retained one
(`MeetsRetainedJob`), which `GrabSwallowed` shows without any fault. No other step does, whoever
takes it and whatever fails, expires or is evicted.

`AcceptedGrabIsVisible` says that at every moment one of the three places a poll looks at
knows the grab. A poll that is overtaken between its reads can still answer 404.

**Fairness** (`HealingFairness`, only in `GrabHealing`): a live handler or worker slot takes its
next step, a free slot takes a waiting job, the recovery's interval fires and its round
goes on. That is what a running Node process, BullMQ's polling and `setInterval` give.
Nothing is assumed of requests, orders, expiries or faults. `CacheHeals` is conditional:
if the traffic stops and no claim remains, the cache becomes exact and stays so.

### What the violations show

* `GrabRecoveryLosesClaim`: a recovery round reads all ticket rows first, each ticket's claims
  later, and then sets the stock. In the shortest trace a claim is reserved between the scan of the
  claims and the `SET`, which counts its place as free; nothing is booked yet. A claim that is booked
  and cleared between the two reads is lost in the same way. The extra claims fail in the worker, so
  the user sees "queued" and then "sold out"; `comp-006-activity-inventory-recovery.test.ts:113`
  promises that rebuilding does not lose active claims.
* `GrabSwallowed`: grab, cancel, grab again. The retained first job has the second one's id,
  `enqueueRegistration` returns it, the answer is "queued", and nobody books or compensates
  the new claim until its TTL (`docs/product-architecture.md`, 6.1). `OneByOneSpec` keeps the sale
  open and starts a request only when no job and no release of an earlier one is left, so that the
  trace is this story. Without it TLC finds a shorter one, in which the first grab is compensated
  because the sale closed.

## 4. OrderLifecycle

| state | code |
|---|---|
| `status`, `version`, `overdue` | the `Order` row; whether `expireAt` has passed |
| `record`, `compensated` | its `PaymentRecord` rows (status, whether `transactionNo` is set); the late-callback log |
| `creating`, `job` | orders whose worker has still to call `scheduleExpiration`; the expiration job |
| `act` | API handlers and expiration slots: what they want and which status and version they read |
| `timer` | the loop of `rehydratePendingOrders` |

`transitionOrder` is `Load` (read, `assertTransitionAllowed`), then `Commit` or `Conflict`
(the transaction with the condition on status and version, the child rows and payments),
then `Unschedule`. All five callers use the same steps with different `AllowedFrom` and
`Target`. A callback reads its record and its order with two queries (Prisma's `include`),
decides, and on a conflict reads again. `scheduleExpiration` is a removal and an addition;
the removal of an active job throws, which nothing catches in the rehydration timer, so the
worker process ends there (`RehydrateRemove`).

Abstractions: activity orders only, created before the behaviour starts; the ticket and
cache effects of a cancellation are `ActivityGrab`'s; `transactionNo` is the order's, so one
record of an order at most has it; who may call is not modelled; rehydration has no limit
of 100; a blocked slot whose job was redelivered is not modelled here (two handlers with
the same transition are the same race); `expirePendingOrders` is a transition asked for any
order its query may find.

| run | instance | checks | size |
|---|---|---|---|
| `OrderRaces` | 1 paid order, 2 handlers, 1 slot, 3 records; handlers, database, Redis and worker fail; fair | `TypeOK`, `PaymentsAgree`, `AnswersAreTrue`, `ImplementsOrders`, `OverdueIsResolved` | 312 000 states |
| `OrderLateCallback` | 1 paid order, 2 handlers, no fault | `LateCallbackIsLogged` violated | |

One order suffices for the races because no two orders share a row or a job; two handlers
and a slot are three racers, enough for each of two to overtake the third; three records
are one more than two parallel starts can create. That the rehydration, which goes on from one
order to the next, does not starve one of two is checked in `AttendanceEvaluation`, whose job
queue has the same code. Deadlock is not checked: a settled order with no caller is the end of
the work.

**Fairness** (`ExpiryFairness`): the rehydration timer fires; BullMQ finds a stalled job; a
slot's step for an order, and the timer's, is taken if it is possible again and again. It
is strong fairness because the worker process may end, by the timer's own error, while a
step is due: the process is restarted by its supervisor and is not killed at the same step
of the same order's work for ever.
The assumption says nothing of faults, which may come again and again; a job that failed
or was lost is brought back by the timer, and that is what the property is about.

`OrderLateCallback` shows a callback refused without a compensation log: a cancellation that
commits after the callback's read and before `loadOrderForTransition` makes
`assertTransitionAllowed` throw a `BadRequestException`, while the callback's catch handles a
`ConflictException` only (`docs/product-architecture.md:289`).

## 5. Reservation

| state | code |
|---|---|
| `wish` | the payload: user, units in the order of their group, start times, length |
| `pc`, `answer` | the handler of the request and what it answers |
| `rows` | its `AcademicReservation` or `SportsReservationSlot` rows, the uncommitted ones included |
| `status` | the order's status, and its rows'; `"none"` until the transaction commits |

`createAcademicReservation` and `createSportsReservation` are the same steps with different
conditions: `Submit` (what the payload and its target must be), `AssertRules` (the count of
active reservations), `FindConflict` (the pre-check), the inserts, `Commit`. A transaction is
not one step here, because how PostgreSQL enforces the constraints is what the component
rests on. `InsertSlot` is a row under `sports_active_slot_unique`: it is refused by a
committed row, waits for an uncommitted one, and is inserted otherwise, unit by unit as
`createMany` lists them. `InsertRange` and `VerifyRange` are the row under
`academic_reservation_no_overlap`, which PostgreSQL checks after the row is there, so that two
of them can wait for each other. `DeadlockVictim` is PostgreSQL's way out; its error matches
neither catch of the service, and the request is answered 500. `Release` is what a committed
cancellation or no-show does to the order and its rows; how they race is `OrderLifecycle`'s.

Abstractions: a request is handled once; the release channel, bans, other rules and companions
may refuse any request (`AssertRules`); times are minutes; scheduling the attendance job has
no effect here; a commit whose acknowledgement is lost is not modelled.

| run | instance | checks | size |
|---|---|---|---|
| `ReservationBooking` | 3 requests, 1 room, 2 courts, a limit of one active reservation; handlers die, orders are cancelled; fair | `TypeOK`, `NoOverlap`, `WholeOrNothing`, `ImplementsCalendar`, `RefusalsAreReal`, `IsAnswered` | 29 000 states |
| `ReservationGap` | the same, without fairness | `FiveMinutesSuffice` violated | |

The wishes of the instance are chosen for the cases that matter: the same time of a room, gaps
of five and of ten minutes, a group and its reverse (which deadlock), one court out of a group,
two slots of one court, a slot off the hour, an hour spelled twice, an empty interval. Two
requests make every race of the constraints; the third one lets a rival commit, fail or be
cancelled while another waits. Deadlock is not checked because each request is handled once.

**Fairness**: a handler whose query can return takes its next step, and PostgreSQL resolves
deadlocks. An insert that waits is not enabled, so nothing is assumed of waiting.

`ReservationGap` shows a request that starts five minutes after a reservation of the room: the
pre-check, which widens one of the two intervals, finds nothing, and the constraint, whose
ranges hold the buffers of both, refuses it. `docs/product-architecture.md:63` says that five
minutes are let through; the test of the exact boundary (`guardrail-0.test.ts:91`) uses ten.

## 6. Attendance

| state | code |
|---|---|
| `status`, `version`, `missed` | the reservation's `Order`; whether its log has `reservation-check-in-missed` |
| `closed` | whether ten minutes have passed since its start |
| `checked`, `late` | `ReservationParticipant` rows with a `checkedInAt`; those written after the window closed |
| `score`, `penalties` | `User.creditScore`; a user's `UserCreditLog` rows, and `violationCount` |
| `job`, `act`, `timer` | the attendance job; API handlers and worker slots; the loop of `rehydrateReservationAttendances` |

`checkInReservation` is `CheckIn` (the order), `LookAtWindow` (its participants and the clock),
`Stamp` (the update). `cancelOrder` and `markNoShow` are `Transit` and `CommitTransit`, the
steps of `OrderLifecycle` without payments, then `Unschedule`. `finalizeReservationAttendance`
is `ReadOrder` and `LookAtParty` (Prisma's two queries), then its transaction: `UpdateOrder` (the
conditional update, which waits for another transaction's), `ReadScore` and `Penalise` for one
participant after the other, `Commit`, and after it `Unschedule`. A transaction's rows are kept
in its slot's record until it commits; a row that is held makes another one's update wait, and
two that wait for each other are resolved by `DeadlockVictim`. The job is never tried again
(`attempts` is not set), so what fails is brought back by the rehydration only, which replaces a
job by a removal and an addition and ends its own process when the removal throws.

Abstractions: reservations exist when the behaviour starts, their creators having scheduled the
evaluation or failed to (`Init`); a check-in that is refused (before the window, by a stranger)
leaves no trace and is left out; one active penalty rule and one category; bans and rule
profiles are left out, they are written under the user's row lock and read by admissions only;
children rows follow the order's status.

| run | instance | checks | size |
|---|---|---|---|
| `AttendanceRaces` | 2 reservations, 2 users, of whom one is in both, 1 handler, 2 slots; handlers die, jobs stall; no rehydration | `TypeOK`, `ScoreWithinLogs`, `InTimeIsSafe`, `ImplementsBook` | 2 000 000 states |
| `AttendanceEvaluation` | 2 reservations the same two users made for each other, no handler, 2 slots; stalls, failing queries and calls, dying worker, rehydration; fair | `PenaltiesMatch`, `MissedIsFinalised` | 105 000 |

Two reservations with a common user are what evaluations can contend for; two users in both,
with different hosts, are what they can deadlock on; two slots are two evaluations at once, of
two orders or, after a stall, of one. A start score of 3 with a penalty of 2 makes the second
penalty meet the floor at zero. Handlers are left out of the second run, because all they can do
is to end an order or to check somebody in, which the property accepts; the rehydration is left
out of the first, where it would only bring jobs back as a stall does. Deadlock is not checked:
orders that have ended are the end of the work.

**Fairness** (`FairSpec`): a slot takes its next step, PostgreSQL and BullMQ find what hangs, the
timer fires and goes on, a job that is due again and again is taken, and mishaps come to an
end: `<>[][~Mishap]_vars`. The last assumption is needed because the rehydration itself takes
jobs out of the queue and kills its process: an adversary that stalls or kills every
evaluation prevents any from ending. Calls to Redis that fail (`Unschedule`) may go on for ever.
`MissedIsFinalised` therefore says that no loss is permanent, not that none happens.

What the properties leave room for, and the code does:

* Two evaluations that overlap read one credit score and each writes it less one penalty: two
  logs, one deduction (`rule-engine.ts:193`). `ScoreWithinLogs` is the bound that remains.
* A check-in accepted in the window can be written after the evaluation has read the
  participants; its user is then marked as checked in and is penalised. `late` tells these
  from the ones written in time.
* With more confirmed reservations than a rehydration reads (100, the newest first), one whose
  job is lost is not evaluated. The instance stays within the limit.

## 7. The components around the bookings

`Campus` composes them, each in a scope of its own: they share no table and no page, so a
behaviour that moves several of them is a shuffle of behaviours of one, and what a scope leaves
alone is `None`. `Desks` has the instances of the catalogue, the workspaces and the pages;
`Campus` adds those of the channel and of the rule book, and the specification. The run `Campus`
(`MCCampus`) has 1 060 000 states; two workspaces that differ in nothing are one by symmetry. The
rows there can be are used up, so deadlock is not checked; none of these components waits for
anything but a query. Of a request's statuses, administrators choose `received` and `resolved`;
`submitted` comes back from a form that was filled before the row changed.

| module | scopes | checks |
|---|---|---|
| `ResourceChannel` | *months*: any two of daily, weekly and monthly rules on the 1st, 29th, 30th and 31st, a closure or none, 295 moments on the 59 days of January and February | `CyclesAreRight`, `OpensOnTime` |
| | *editors*: two administrators change one closure | `ClosuresAreRanges` |
| | *clients*: one administrator changes a rule and a closure while a reservation is made | `ChannelHolds` |
| `ResourceCatalogue` | *catalogue*: 2 resources, 1 unit, 1 group, 2 administrators, 1 reservation | `CatalogueStands` |
| `ActivityAdmin` | *oneActivity*: 3 tickets, 2 workspaces; *twoActivities* | `QuotaWithinStock`; `ShownIsStable` |
| `ServiceDesk`, `NoticeBoard` | one row and two workspaces; two rows and one workspace | `StampsAgree`; `FormsAreOfShown` |
| `RuleBook` | *ruleEditors*: two administrators and one rule | `RulesAreValid` |
| | *admission*: a rule of any type changes while somebody is judged by it | `AdmittedUnderRules` |
| | *penalties*: 2 evaluations, 2 users, 2 rules; *bans*: 2 evaluations, 1 user, 1 rule that is bound, unbound and deleted, and a reservation | `BansMatch`, `AdmittedUnderRules` |
| `RuleDesk`, `ResourceDesk` | 2 rules with 2 changes in flight; 2 resources with 2; their one unit with 1 | `FormsAreOfShown`, `ShownIsStable` |
| `SpacesPage` | *room*: times 0 to 8 in buffers, one other reservation, closures with and without an end | `PagesAgree` |
| `SportsPage` | *courts*: 3 courts in 2 groups that share one, 4 hours | `PagesAgree` |

`TypesAreRight` is the type invariant of all of them.

### ResourceChannel, ReleaseCalendar (`resource-channel.ts`, `resource-write.service.ts`)

| state | code |
|---|---|
| `clock` | the time, one of `Moments` after the other |
| `rules`, `closures` | `ResourceReleaseRule` and `ResourceBookingClosure` rows |
| `desk` | `updateBookingClosure` and `deleteBookingClosure` between their two queries |
| `booking` | a reservation between its queries for the rules and the closures, and the check |

`CurrentRelease` and `NextRelease` are `resolveCycleReleaseMoments`, `Snapshot` is
`buildResourceChannelSnapshot`, `Block` with `AssertResourceChannelOpen` the check of a
reservation. `IsReleaseDay` and `SameCycle` are the reference: the days of a rule, one by one.
`MonthStart` is the calendar: the days on which months begin. Two months, one of them short, with
every day and the times at which anything can change, are what the arithmetic can get wrong. Weeks
that cross the end of a month are among them. Times are minutes of a calendar without daylight
saving; all rules are of one resource.

`OpensOnTime` compares two moments: a channel shown as scheduled is still scheduled for that
moment or closed until then, and no longer scheduled at it, although cycles of other rules end in
between. `ChannelHolds` is what can be promised of a check that reads before it decides: the
closures that nobody wrote meanwhile hold.

`ReleasePatch` (a violation): an administrator deactivates a weekly rule by a payload with the
status alone. The payload is an instance of a class whose fields all exist under the
compiler's target, `undefined` where not given, and the spread of it hides what was read from the
row (`resource-write.service.ts:366`). The check that a weekly rule has its day passes because
the frequency is `undefined`, and the day is erased.

### ResourceCatalogue (`resource-write.service.ts`, the reads of `modules/reservation`)

| state | code |
|---|---|
| `resources`, `units`, `groups` | their rows; a resource is its type, a unit its resource and mode, a group its resource and items |
| `used` | ids of deleted rows |
| `desk`, `guest` | administrators and reservations between their reads and their writes |

A deletion counts references with one query and deletes with another; foreign keys restrict
(reservations) or cascade (units, items, groups) in between. `CatalogueStands` is what the two
make together: a reservation keeps its resource and units; a group has no unit that is gone or of
another resource. A group is *not* sure to keep its units. The count of `deleteResourceUnit`, whose
refusal is `resource-unit-delete-blocked-existing-records`, and the page's question
(`use-resource-workspace-mutation-actions.ts:181-182`) let only a unit without group bindings be
deleted, but an item inserted after the count goes with the unit, and the group stays with fewer
units or with none (`DeleteUnit`). That a unit's mode fits its resource's type is not claimed: the type may be
changed when units exist, and reservations look at both.

### RuleBook (`rules.service.ts`, `rule-engine.ts`)

| state | code |
|---|---|
| `rules`, `bindings`, `profiles` | `Rule`, `ResourceRuleBinding`, `UserRuleProfile` rows |
| `restrictions` | `UserReservationRestriction` rows of one category: violations counted, end of the ban |
| `desk`, `guest`, `evaluation` | administrators, requests to be admitted, transactions of `applyReservationNoShowRules` |
| `penalties` | history: the penalties of committed evaluations |

An evaluation holds a user's row from its first penalty of that user on, as in `Attendance`, so
`WriteRestriction`'s read and write of the restriction are not overtaken; `BansMatch` depends on
it. A reservation reads the bindings of its resource and then their rows, and fails when one is gone
meanwhile; a registration for an activity reads all rules in one query (`ReadRules`). `AdmittedUnderRules` speaks of the rules that stood since the request began; the number of
active reservations is part of the request, as read.

### ActivityAdmin (`activities.service.ts`, the activities workspace)

`quota` and `tickets` are the rows, a ticket of an uncommitted transaction naming it; `page` is
the cached list, the selection and the form of a workspace, `call` its request. Two tickets that
are added at once each write the sum without the other's stock: the quota is then *below* the
stock, and any later update that sends a quota is refused unless it is the sum.
`QuotaWithinStock` is what remains. What else is validated, an activity's times and titles, may refuse
any request.

### ServiceDesk, NoticeBoard (`service-requests.service.ts`, `notifications.service.ts`, their workspaces)

`rows` are the time stamps and the status; `page` is the cached list, the selection, and the form
with the row it was filled from (`of`); `call` is a save between its two queries. The client's
cache keeps an unchanged row's object, so a form is refilled when the shown row is another one, has
changed, or has moved in the list (`IsNew`): what was entered is then lost, but never sent for
another row, which is `FormIsOfShown` and `EditsShown`.

### RuleDesk, ResourceDesk (`workspaces/rules`, `workspaces/resources`)

Here the handlers are one step each and the page is the detail: selection, domain or area, panel,
the row each form was filled from, and several changes in flight, whose answers come in any order.
Effects run after rendering and see what was rendered (`Rendered`). Two things the code does and
the properties leave room for:

* an answer to a save fills the form with its row even if another row's form has been opened
  since (`use-resource-workspace-mutations.ts:84`);
* the area, or the selected rule, is set by an answer before the list has the row
  (`use-resource-workspace-mutations.ts:81`, `rules-workspace.tsx:111`): the effects then
  fall back to the first one, and may close the open panel.

### SpacesPage, SportsPage

The page's own check (`HasConflict`, `Pickable`) is compared with what the API answers and what
the handler refuses (`Accepts`: the closures and the pre-check, `Admits`, and then the exclusion
constraint, `Excludes`, whose violation is answered as a conflict too), on a schedule that is up to
date; what changes after it was loaded is the handler's to refuse. They differ in two cases, which
`PageAgrees` names, and in no other. A range whose distance from a confirmed reservation is one
buffer or more but less than two (`InGap`) is shown as available and refused by the constraint: the
disagreement of `ReservationGap`, seen from the page. The time around a reservation that was missed
(`MeetsMissed`) is forbidden by the page and accepted by the handler. The release of the channel and
the rules are the handler's too, and other modules' subject. On courts, what is picked for a *group* is free
on all of it. For single courts it is not so: a cell of another court becomes the target and the
hours picked before stay (`sports-page.tsx:254`).

## 8. What is proved

TLAPS proves for all values of the constants that the assumptions allow: any numbers of users,
rows, handlers and slots, any payloads, any calendar. Every invariant and action property of a
passing run has a theorem, and so has each refinement. `ActivityGrab`, `OrderLifecycle`,
`Reservation` and `Attendance` state what they assume of their constants (`GrabAssumption`,
`OrderAssumption`, `ReservationAssumption`, `AttendanceAssumption`: finite users and reservations,
natural stocks, scores and buffers, the host is a participant, integer times, `None` outside the
sets, handlers and slots disjoint, an academic wish has one unit and one start). Each component
around the bookings defines `Assumptions`, and `SettingAssumption` of `Campus` is that the setting
of every scope meets them, which TLC evaluates for the settings of `MCCampus`:

* everywhere the null, or `None`, is none of the values it stands beside;
* `ResourceChannel`: months have 28 to 31 days, moments do not go back and are in a month that
  another one follows, rows and patches are typed, a wish has a first start and a last end, the
  closures at the start end after they start, and no time reaches the date that stands for no end
  (`FAR_FUTURE_DATE`, the end of the year 2999);
* `RuleBook`: the rules at the start are valid, payloads give what the columns can hold;
* `ActivityAdmin`: finitely many tickets; `ServiceDesk`, `NoticeBoard`: of any rows one is the
  newest; `ResourceDesk`: ids of two tables differ; the pages: times are numbers, groups have courts.

| theorem | says |
|---|---|
| `ActivityGrab_proofs!TypeCorrect` | `Spec => []TypeOK` |
| `ActivityGrab_proofs!SaleSafe`, `OneActive` | `Spec => [](ReservedIsExact /\ OneActivePerUser)`, and the second part by itself |
| `ActivityGrab_proofs!Implements` | `Spec => ImplementsSale` |
| `ActivityGrab_proofs!CacheSafe`, `GrabSeen` | `Spec => []CacheLetsNoMoreThrough`, `[]GrabIsVisible` |
| `ActivityGrab_proofs!ClaimSafe` | `Spec => ClaimKeepsItsWork` |
| `OrderLifecycle_proofs!TypeCorrect` | `Spec => []TypeOK` |
| `OrderLifecycle_proofs!PaymentsSafe`, `AnswersRight` | `Spec => [](PaymentsAgree /\ AnswersAreTrue)`, and the second part by itself |
| `OrderLifecycle_proofs!Implements` | `Spec => ImplementsOrders` |
| `Reservation_proofs!TypeCorrect` | `Spec => [](TypeOK /\ AllSound)` |
| `Reservation_proofs!BookingsSafe`, `WholeReservations` | `Spec => [](NoOverlap /\ WholeOrNothing)`, and the second part by itself |
| `Reservation_proofs!RefusalsReal` | `Spec => RefusalsAreReal` |
| `Reservation_proofs!Implements` | `Spec => ImplementsCalendar` |
| `Attendance_proofs!TypeCorrect` | `Spec => []TypeOK` |
| `Attendance_proofs!Implements` | `Spec => ImplementsBook` |
| `Attendance_proofs!PenaltiesRight`, `InTimeSafe`, `ScoreSafe` | `Spec => []PenaltiesMatch`, `[]InTimeIsSafe`, `[]ScoreWithinLogs` |
| `ResourceChannel_proofs!TypeCorrect`, `CyclesRight`, `ClosuresRight` | `Spec => []TypeOK`, `[]CyclesAreRight`, `[]ClosuresAreRanges` |
| `ResourceChannel_proofs!OpensRight`, `ChannelRight` | `Spec => OpensOnTime`, `Spec => ChannelHolds` |
| `RuleBook_proofs!TypeCorrect`, `RulesRight`, `BansRight` | `Spec => []TypeOK`, `[]RulesAreValid`, `[]BansMatch` |
| `RuleBook_proofs!AdmissionRight` | `Spec => AdmittedUnderRules` |
| `Campus_proofs!TypeCorrect` | `CampusSpec => []TypesAreRight` |
| `Campus_proofs!CyclesRight`, `ClosuresRight`, `ReferencesRight`, `QuotaRight` | `CampusSpec => []CyclesAreRight`, `[]ClosuresAreRanges`, `[]CatalogueStands`, `[]QuotaWithinStock` |
| `Campus_proofs!StampsRight`, `FormsRight`, `RulesRight`, `BansRight`, `PagesRight` | `CampusSpec => []StampsAgree`, `[]FormsAreOfShown`, `[]RulesAreValid`, `[]BansMatch`, `[]PagesAgree` |
| `Campus_proofs!OpensRight`, `ChannelRight`, `ShownRight`, `AdmissionRight` | `CampusSpec => OpensOnTime`, `ChannelHolds`, `ShownIsStable`, `AdmittedUnderRules` |

*Sale.* `SaleInv` is `TypeOK` with `ReservedIsExact` and `OneActivePerUser`. It is inductive:
only four actions write `regs` or `reserved`. `BookTx` adds one holder and one place under
`reserved[t] < Stock[t]` and under the unique index; `CancelOrder` takes one of each away;
`ConfirmOrder` and `MarkNoShow` change a status within the active ones. The lemmas on
`HoldersOf` state how its cardinality moves when one registration changes. No fact about
Redis or the queue is needed: that is the design's claim (6.2, "the cache is fast, the
database is exact"), and the proof shows it. For the refinement, `Held` and `NoShowUsers` are
computed from `regs`; because a user has one active registration, `reserved[t]` equals the
number of users who hold `t`, so `BookTx` is `Sell`.

*Cache.* `CacheNeverOverAdmits` counts open claims, and a step that opens or closes one does not
say where its place went. `CacheInv` counts places instead (`Underway`): those of the handlers
that took one and have not left a job (`Handing`), of the jobs that may still book or give back
(`Working`), of the claims nobody works on any more (`Abandoned`), and of the cancelled bookings
whose place is not yet back in the cache (`Releasing`). `PlacesKept`: before the stock key is first
filled nothing is under way or booked, afterwards the cached, the booked and the other places never
exceed the stock. A step is `Balanced` when it moves a place between these or fills a missing key
from a snapshot within the stock (`WithinStock`), and there is one lemma for each kind of move
(`PlaceTaken`, `PlaceLeft`, `PlaceGivenBack`, `RunTaken`, `RunStays`, `RunBooks`, `RunEnds`,
`OnlyReleases`). A run may give back or book only once because no other run has its job
(`OneRunPerJob`): that is what a stalled job breaks. An open claim is of one of the first three kinds
(`OpenClaimsUnderway`), so the invariant bounds what the property counts.

*Claims and polls.* `ClaimKeepsItsWork` is shown step by step. A claim that stands was worked on by a
handler, a slot or a job before the step, and there is a lemma for what the step leaves of each. A
handler leaves a job under the claim's id, or has compensated the claim (`HandlerLeavesWork`). A run
ends with an outcome, and every outcome clears the claim
(`RunLeavesWork`). A job that waits or is active stays so until its slot has ended it
(`JobLeavesWork`). What remains are the two exceptions. The invariant it needs beside `TypeOK` is that
only a stall takes a slot's job away (`LostIsStalled`).
`GrabIsVisible` needs `VisInv`: whoever has a handler about to enqueue, a job or a run is `Seen`,
and a run that comes to clear a claim has found or made a registration (`Registered`). Registrations
are never taken away (`RowsStay`), so who is seen stays so until a key expires (`SeenStays`). That a
user with registrations has a latest one for `Poll` to answer with (`LatestExists`) rests on the
least element of a set of numbers, taken from the well-foundedness of the finite sets' inclusion.

*Orders.* `PaymentsAgree` and `AnswersAreTrue` are not inductive: a handler acts on what it
read some steps ago. `TypeOK` already holds that a handler about to commit read a status its
transition may start from (`AtWork`). `PaymentInv` adds that a numbered record exists
(`NumberedExist`) and what each handler may rely on (`Knows`): a callback's record has its
number; a record it read as paid, or paid itself, is paid; an order it is about to compensate
waits no more. What makes `Knows` last is `RowsGrow`: no step takes a number, a record, a
payment or the end of the pending status back. With it, `StillAsRead` at the commit gives the
status the transition was checked against, `PaymentTaken` gives the record's, and each
`Commit` is one move of `OrderTable`.

*Reservations.* `NoOverlap` speaks of committed orders, and a commit checks nothing: what
protects it was checked when the rows went in. `BookingInv` is `TypeOK`, `AllSound` (what one
request's position says of its rows and its order) and `Exclusive`: the rows that are settled
(`Held`: those of an active order, of a transaction about to commit, and the slots of any other
one) do not exclude each other. A row of a room counts only once it is verified, since two
unverified ones may be there at once. A step settles a row only when it has no rival, and no
other request's rows move, so `Exclusive` lasts; at the commit the rows are settled already.
That rows which do not exclude each other are really apart (`AllowedIsApart`) is the buffers'
arithmetic for rooms; for courts, whose index compares starts only, it needs that slots start
on the full hour and last one (`FullHours`). The pre-checks are not used: they only answer
earlier.

*Attendance.* Three effect lemmas say once what a handler, a slot and the environment can do to
the evaluations in progress; three invariants rest on them. `TxInv`: an order is in one
transaction at most (`OneTx`, from the row lock of `UpdateOrder`), and that order is confirmed
until the transaction ends (`TxOwnsOrder`: whoever ends an order by hand waits for the lock). So a
commit is one `Miss` of the penalty book, of an order that was not missed before, and
`PenaltiesMatch` grows with it (`OneMore`). `InTimeInv`: evaluations are of closed windows, and from
`LookAtParty` on, whatever is written as a check-in is late. `CreditInv`: a score that was read
may be old, but the penalties it lacks are among those made since, so what will be written is
never below what the logs account for; `WorthIs` is all the arithmetic it needs.

*Campus.* `CampusInv` says of each scope the inductive invariant of its component. A step is one of
the component that is looked at (`MonthsMove` .. `PanelsMove`), so that what the component's lemmas
say of its steps is all there is to show. Those lemmas are in `Desks_proofs` for the catalogue, the
workspaces and the pages, and in `ResourceChannel_proofs` and `RuleBook_proofs`, where they also
make theorems of the component by itself. The inductive invariants end the components' modules.

*Catalogue.* What a handler read of a unit may be old when it writes. `CatalogueInv` says in which
way: a unit that was read as one of resource r still is, or its id was deleted and is never given again
(`IsOrWasOf`). So a foreign key that finds the unit there finds the one that was read.
`CatalogueDeskStep` states once what a step that only deletes and adds rows leaves true of everybody
in flight.

*Channel.* `ChannelInv` holds `BookingSound`: the closures that nobody wrote since the reservation
began are among those it read, and so are the rules, if nobody wrote one. A write takes its closure out
of `stood` in the same step, so the property survives any administrator, and at the check the closures
read include all that stand (`AssertIsRight`) and the rules read are still those there are
(`AssertIsReleased`); that the range checked covers each slot is `HullIs`.

*Calendar.* A day is of one month because months are of 28 days at least (`MonthIs`). The release of
a cycle is on a release day of it (`CurrentIsRight`) and the next one on the first release day after
that (`NextIsRight`): for weeks by the Sundays, for months because the month after is never skipped.
Up to its release a cycle stays the current one (`ReleaseStays`), and none of the first releases of
the active rules is earlier than the least of them (`FirstRelease`): so a scheduled channel stays
scheduled for that moment (`ScheduleHolds`).

*Rules and bans.* `RowsInv`: an update in flight holds a row that was valid and a payload that was
checked against it. `BansInv`: no user's row is in two transactions, a restriction a transaction has
changed is the committed one with its own penalties added, and the committed one matches the penalties.
`Matches` says of the end of a ban that it is the greatest of the penalties' ends and of zero; its
lemmas add one penalty and join the penalties of a transaction.

*Admission.* The rules and bans a request has read may be old. `AdmissionInv` adds `Judged`: a rule that
stood since the request began is among those that were read as bound to it, with the row it was read
with; the ban that was read of a user ends no later than the committed one, because bans only grow
(`BansGrow`), and it is over for whoever got past the check.

*Quotas.* `QuotaWithinStock` needs what is in flight: a transaction about to write a sum has counted
no more than what its commit will show, and an update no more than what is committed (`CallSound`);
committed tickets are never taken away (`Keeps`), so a count that was read stays a lower bound.

*Stamps.* `DeskInv`, `BoardInv`: the row a save has read agrees with its own status, and its stamps are
in the past.

*Workspaces.* What a list shows exists, since rows that are gone are fetched as gone and their ids are
not given again, so the fallback of a selection is a row (`RequestSomeIsShown`, `NoticeSomeIsShown`,
`RuleRenderedIsRight`, `PanelRenderedIsRight`), and every step that changes the page ends with the effects
that bring form and panel in line with it. `ShownIsStable` is that these effects do nothing to a
selection that is still listed, and that only an answer or a button opens or closes a panel
(`PanelKept`).

*Pages.* That the displayed window holds everything that touches the range a user enters
(`RoomWindowHasRange`) is arithmetic of the buffer and the width; with it, a range without a conflict
is one the pre-check admits, so that only the constraint can refuse it, and a range with one meets a
closure, a confirmed reservation or a missed one: `PageAgrees` follows for every schedule. On courts the invariant is the property: no pick takes an hour that is not free on every
court of the group.

Left to TLC: the liveness properties (`CacheHeals`, `JobsFinish`, `OverdueIsResolved`, `IsAnswered`,
`MissedIsFinalised`), because the proof system has no rule for fairness and ENABLED here; and the
violations, which are single behaviours. No module uses recursion.

## 9. Conventions

An operator named `XMutant`, defined before `X`, is the same step with a plausible mistake
in it (a dropped guard, `SET` for `SET NX`, a missing reset). No specification uses it; put in
the place of `X` it makes TLC violate the property that `PROJECT.json` names, which shows
that the property can fail.

## 10. Not modelled

Authentication and authorisation are stateless checks in front of the handlers; the models let any
caller who may act act. Connections, configuration, bootstrap, seed data, scripts and deployment are
not behaviour of the system. Of the client, the orders and activities pages present what the API
answers and poll it every two seconds while a grab is queued (`Poll` in `ActivityGrab` is such an
answer); wording and layout are left out everywhere. The times of an activity and the listings of orders
are validation and reads of single rows.

Hazards that no property covers, with their reasons, are in `PROJECT.json`: a poll overtaken between
its reads; a payment record left pending, or paid without a refund, on a cancelled order; the limit of
100 rows of a rehydration; active reservations counted before the insert; a credit score written back by
two evaluations at once; hours that stay picked for another court. In each the code does what the hazard says and no document denies it.
