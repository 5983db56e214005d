-------------------------------- MODULE Campus --------------------------------
(***************************************************************************)
(* The components around the bookings, one at a time.  They share no table *)
(* and no page, so that nothing is lost by looking at one of them: a       *)
(* behaviour chooses its scope at the start, and the other components stay *)
(* as they are.  Scopes of one component differ in its constants, which    *)
(* are the fields of the scope's setting.  The two components whose proofs *)
(* are in a module of their own are instantiated with it, for its lemmas.  *)
(***************************************************************************)
EXTENDS Desks, Sequences

\* What the component that is looked at does not have is None.
VARIABLES scope,
    clock, closures, booking,
    bindings, profiles, restrictions, evaluation, penalties,
    rules

channelOnly == <<clock, closures, booking>>
catalogueOnly == <<resources, units, groups>>
activityOnly == <<quota, tickets>>
ruleOnly == <<bindings, profiles, restrictions, evaluation, penalties>>
roomOnly == <<closure, range>>
courtOnly == <<occupied, closed, mode, target, slots>>
shared == <<rules, desk, used, guest, now, rows, page, call, display>>

-----------------------------------------------------------------------------
(* Release rules and closures: two months, two editors, or clients *)

Months == INSTANCE ResourceChannel_proofs WITH
    Null <- None, MonthStart <- Setting.months.MonthStart,
    FirstWeekday <- Setting.months.FirstWeekday, RuleId <- Setting.months.RuleId,
    ClosureId <- Setting.months.ClosureId, InitialRules <- Setting.months.InitialRules,
    InitialClosures <- Setting.months.InitialClosures, Moments <- Setting.months.Moments,
    Admin <- Setting.months.Admin, RulePatches <- Setting.months.RulePatches,
    ClosurePatches <- Setting.months.ClosurePatches, Booking <- Setting.months.Booking,
    Wishes <- Setting.months.Wishes

Editors == INSTANCE ResourceChannel_proofs WITH
    Null <- None, MonthStart <- Setting.editors.MonthStart,
    FirstWeekday <- Setting.editors.FirstWeekday, RuleId <- Setting.editors.RuleId,
    ClosureId <- Setting.editors.ClosureId, InitialRules <- Setting.editors.InitialRules,
    InitialClosures <- Setting.editors.InitialClosures, Moments <- Setting.editors.Moments,
    Admin <- Setting.editors.Admin, RulePatches <- Setting.editors.RulePatches,
    ClosurePatches <- Setting.editors.ClosurePatches, Booking <- Setting.editors.Booking,
    Wishes <- Setting.editors.Wishes

Clients == INSTANCE ResourceChannel_proofs WITH
    Null <- None, MonthStart <- Setting.clients.MonthStart,
    FirstWeekday <- Setting.clients.FirstWeekday, RuleId <- Setting.clients.RuleId,
    ClosureId <- Setting.clients.ClosureId, InitialRules <- Setting.clients.InitialRules,
    InitialClosures <- Setting.clients.InitialClosures, Moments <- Setting.clients.Moments,
    Admin <- Setting.clients.Admin, RulePatches <- Setting.clients.RulePatches,
    ClosurePatches <- Setting.clients.ClosurePatches, Booking <- Setting.clients.Booking,
    Wishes <- Setting.clients.Wishes

-----------------------------------------------------------------------------
(* The rule book in the hands of editors, guests and evaluations *)

RuleEditors == INSTANCE RuleBook_proofs WITH
    RuleId <- Setting.ruleEditors.RuleId, ResourceId <- Setting.ruleEditors.ResourceId,
    InitialRules <- Setting.ruleEditors.InitialRules, Admin <- Setting.ruleEditors.Admin,
    Payload <- Setting.ruleEditors.Payload, Guest <- Setting.ruleEditors.Guest,
    Profile <- Setting.ruleEditors.Profile, User <- Setting.ruleEditors.User,
    Evaluation <- Setting.ruleEditors.Evaluation, MaxTime <- Setting.ruleEditors.MaxTime

Admission == INSTANCE RuleBook_proofs WITH
    RuleId <- Setting.admission.RuleId, ResourceId <- Setting.admission.ResourceId,
    InitialRules <- Setting.admission.InitialRules, Admin <- Setting.admission.Admin,
    Payload <- Setting.admission.Payload, Guest <- Setting.admission.Guest,
    Profile <- Setting.admission.Profile, User <- Setting.admission.User,
    Evaluation <- Setting.admission.Evaluation, MaxTime <- Setting.admission.MaxTime

Penalties == INSTANCE RuleBook_proofs WITH
    RuleId <- Setting.penalties.RuleId, ResourceId <- Setting.penalties.ResourceId,
    InitialRules <- Setting.penalties.InitialRules, Admin <- Setting.penalties.Admin,
    Payload <- Setting.penalties.Payload, Guest <- Setting.penalties.Guest,
    Profile <- Setting.penalties.Profile, User <- Setting.penalties.User,
    Evaluation <- Setting.penalties.Evaluation, MaxTime <- Setting.penalties.MaxTime

Bans == INSTANCE RuleBook_proofs WITH
    RuleId <- Setting.bans.RuleId, ResourceId <- Setting.bans.ResourceId,
    InitialRules <- Setting.bans.InitialRules, Admin <- Setting.bans.Admin,
    Payload <- Setting.bans.Payload, Guest <- Setting.bans.Guest,
    Profile <- Setting.bans.Profile, User <- Setting.bans.User,
    Evaluation <- Setting.bans.Evaluation, MaxTime <- Setting.bans.MaxTime

-----------------------------------------------------------------------------
ChannelScopes == {"months", "editors", "clients"}
ActivityScopes == {"oneActivity", "twoActivities"}
RequestScopes == {"oneRequest", "twoRequests"}
NoticeScopes == {"oneNotice", "twoNotices"}
FormScopes == {"rulesPage", "resourcesPage", "unitsPage"}
RuleScopes == {"ruleEditors", "admission", "penalties", "bans"}
Scopes == ChannelScopes \cup ActivityScopes \cup RequestScopes \cup NoticeScopes
          \cup RuleScopes \cup FormScopes \cup {"catalogue", "room", "courts"}
DeskScopes == ActivityScopes \cup RequestScopes \cup NoticeScopes

\* What each component assumes of its constants holds in the settings of its scopes.
ASSUME SettingAssumption ==
    /\ Months!Assumptions /\ Editors!Assumptions /\ Clients!Assumptions
    /\ Catalogue!Assumptions
    /\ RuleEditors!Assumptions /\ Admission!Assumptions
    /\ Penalties!Assumptions /\ Bans!Assumptions
    /\ \A s \in ActivityScopes : Activities(s)!Assumptions
    /\ \A s \in RequestScopes : Requests(s)!Assumptions
    /\ \A s \in NoticeScopes : Notices(s)!Assumptions
    /\ \A s \in {"resourcesPage", "unitsPage"} : Panels(s)!Assumptions
    /\ RulesPage!Assumptions /\ Room!Assumptions /\ Courts!Assumptions

CampusInit ==
    /\ scope \in Scopes
    /\ scope \notin ChannelScopes => clock = None /\ closures = None /\ booking = None
    /\ scope # "catalogue" => resources = None /\ units = None /\ groups = None
    /\ scope \notin ActivityScopes => quota = None /\ tickets = None
    /\ scope \notin RuleScopes =>
         bindings = None /\ profiles = None /\ restrictions = None /\ evaluation = None
         /\ penalties = None
    /\ scope # "room" => closure = None /\ range = None
    /\ scope # "courts" =>
         occupied = None /\ closed = None /\ mode = None /\ target = None /\ slots = None
    /\ scope \notin ChannelScopes \cup RuleScopes => rules = None
    /\ scope \notin ChannelScopes \cup RuleScopes \cup {"catalogue"} => desk = None
    /\ scope \notin RuleScopes \cup {"catalogue"} => guest = None
    /\ scope \notin RuleScopes \cup FormScopes \cup {"catalogue"} => used = None
    /\ scope \notin RequestScopes \cup NoticeScopes \cup RuleScopes => now = None
    /\ scope \notin RequestScopes \cup NoticeScopes \cup FormScopes \cup {"room"} => rows = None
    /\ scope \notin DeskScopes \cup FormScopes => page = None /\ call = None
    /\ scope \notin {"room", "courts"} => display = None
    /\ CASE scope = "months"        -> Months!Init
         [] scope = "editors"       -> Editors!Init
         [] scope = "clients"       -> Clients!Init
         [] scope = "catalogue"     -> Catalogue!Init
         [] scope = "oneActivity"   -> Activities("oneActivity")!Init
         [] scope = "twoActivities" -> Activities("twoActivities")!Init
         [] scope = "oneRequest"    -> Requests("oneRequest")!Init
         [] scope = "twoRequests"   -> Requests("twoRequests")!Init
         [] scope = "oneNotice"     -> Notices("oneNotice")!Init
         [] scope = "twoNotices"    -> Notices("twoNotices")!Init
         [] scope = "ruleEditors"   -> RuleEditors!Init
         [] scope = "admission"     -> Admission!Init
         [] scope = "penalties"     -> Penalties!Init
         [] scope = "bans"          -> Bans!Init
         [] scope = "rulesPage"     -> RulesPage!Init
         [] scope = "resourcesPage" -> Panels("resourcesPage")!Init
         [] scope = "unitsPage"     -> Panels("unitsPage")!Init
         [] scope = "room"          -> Room!Init
         [] scope = "courts"        -> Courts!Init

ChannelNext ==
    /\ scope \in ChannelScopes
    /\ UNCHANGED <<catalogueOnly, activityOnly, ruleOnly, roomOnly, courtOnly,
                   used, guest, now, rows, page, call, display>>
    /\ \/ scope = "months" /\ Months!Next
       \/ scope = "editors" /\ Editors!Next
       \/ scope = "clients" /\ Clients!Next

CatalogueNext ==
    /\ scope = "catalogue"
    /\ UNCHANGED <<channelOnly, activityOnly, ruleOnly, roomOnly, courtOnly,
                   rules, now, rows, page, call, display>>
    /\ Catalogue!Next

ActivitiesNext ==
    /\ scope \in ActivityScopes
    /\ UNCHANGED <<channelOnly, catalogueOnly, ruleOnly, roomOnly, courtOnly,
                   rules, desk, used, guest, now, rows, display>>
    /\ \/ scope = "oneActivity" /\ Activities("oneActivity")!Next
       \/ scope = "twoActivities" /\ Activities("twoActivities")!Next

OfficeNext ==
    /\ scope \in RequestScopes \cup NoticeScopes
    /\ UNCHANGED <<channelOnly, catalogueOnly, activityOnly, ruleOnly, roomOnly, courtOnly,
                   rules, desk, used, guest, display>>
    /\ \/ scope = "oneRequest" /\ Requests("oneRequest")!Next
       \/ scope = "twoRequests" /\ Requests("twoRequests")!Next
       \/ scope = "oneNotice" /\ Notices("oneNotice")!Next
       \/ scope = "twoNotices" /\ Notices("twoNotices")!Next

RulesNext ==
    /\ scope \in RuleScopes
    /\ UNCHANGED <<channelOnly, catalogueOnly, activityOnly, roomOnly, courtOnly,
                   rows, page, call, display>>
    /\ \/ scope = "ruleEditors" /\ RuleEditors!Next
       \/ scope = "admission" /\ Admission!Next
       \/ scope = "penalties" /\ Penalties!Next
       \/ scope = "bans" /\ Bans!Next

FormsNext ==
    /\ scope \in FormScopes
    /\ UNCHANGED <<channelOnly, catalogueOnly, activityOnly, ruleOnly, roomOnly, courtOnly,
                   rules, desk, guest, now, display>>
    /\ \/ scope = "rulesPage" /\ RulesPage!Next
       \/ scope = "resourcesPage" /\ Panels("resourcesPage")!Next
       \/ scope = "unitsPage" /\ Panels("unitsPage")!Next

RoomNext ==
    /\ scope = "room"
    /\ UNCHANGED <<channelOnly, catalogueOnly, activityOnly, ruleOnly, courtOnly,
                   rules, desk, used, guest, now, page, call>>
    /\ Room!Next

CourtsNext ==
    /\ scope = "courts"
    /\ UNCHANGED <<channelOnly, catalogueOnly, activityOnly, ruleOnly, roomOnly,
                   rules, desk, used, guest, now, rows, page, call>>
    /\ Courts!Next

CampusNext ==
    /\ UNCHANGED scope
    /\ \/ ChannelNext \/ CatalogueNext \/ ActivitiesNext \/ OfficeNext
       \/ RulesNext \/ FormsNext \/ RoomNext \/ CourtsNext

campus == <<scope, channelOnly, catalogueOnly, activityOnly, ruleOnly, roomOnly, courtOnly,
            shared>>

CampusSpec == CampusInit /\ [][CampusNext]_campus

-----------------------------------------------------------------------------
(* Properties, each in the scopes that its component has *)

\* Every row, page and request has its type: no binding, profile or group item is of a
\* rule, a resource or a unit that was deleted.
TypesAreRight ==
    /\ scope = "months" => Months!TypeOK
    /\ scope = "editors" => Editors!TypeOK
    /\ scope = "clients" => Clients!TypeOK
    /\ scope = "catalogue" => Catalogue!TypeOK
    /\ scope = "oneActivity" => Activities("oneActivity")!TypeOK
    /\ scope = "oneRequest" => Requests("oneRequest")!TypeOK
    /\ scope = "oneNotice" => Notices("oneNotice")!TypeOK
    /\ scope = "ruleEditors" => RuleEditors!TypeOK
    /\ scope = "admission" => Admission!TypeOK
    /\ scope = "penalties" => Penalties!TypeOK
    /\ scope = "bans" => Bans!TypeOK
    /\ scope = "rulesPage" => RulesPage!TypeOK
    /\ scope = "resourcesPage" => Panels("resourcesPage")!TypeOK
    /\ scope = "unitsPage" => Panels("unitsPage")!TypeOK
    /\ scope = "room" => Room!TypeOK
    /\ scope = "courts" => Courts!TypeOK

\* Every release is on the release day of its cycle, in months too short for it and in
\* weeks that cross a month too, and the next one is the first after it
\* (resource-channel.ts, resolveCycleReleaseMoments).
CyclesAreRight == scope = "months" => Months!CyclesAreRight

\* A channel that is shown as scheduled for a moment is scheduled for it, or closed, until
\* then, and is no longer scheduled at that moment, whichever cycles end in between and
\* unless rules or closures change (buildResourceChannelSnapshot).
OpensOnTime == [][scope = "months" => Months!KeepsSchedule]_campus

\* Whatever two administrators change at once, a closure ends after it starts
\* (updateBookingClosure).
ClosuresAreRanges == scope = "editors" => Editors!ClosuresAreRanges

\* What assertResourceChannelOpen lets through is in no closure that stood all the time
\* and, if no rule was changed, not before the release of one.
ChannelHolds == [][scope = "clients" => Clients!LetsThroughRightly]_campus

\* Whatever is deleted between the counts and the deletion, a reservation keeps its
\* resource and its units, and those are of that resource.  A group keeps its resource
\* and may lose units, even all of them; those it has are units of that resource.
CatalogueStands == scope = "catalogue" => Catalogue!CatalogueStands

\* An activity's quota never exceeds the stock of its tickets, whichever tickets are
\* added and quotas set at once (createActivityTicket, updateActivity).
QuotaWithinStock == scope = "oneActivity" => Activities("oneActivity")!QuotaWithinStock

\* What a workspace shows, and so what its buttons act on, changes only by a selection,
\* an opened panel or an answer in it, and by a list that does not have it or is the
\* first after a creation; any other list that arrives leaves it.
ShownIsStable ==
    [][/\ scope = "twoActivities" => Activities("twoActivities")!KeepsShown
       /\ scope = "rulesPage" => RulesPage!KeepsSelected
       /\ scope = "resourcesPage" => Panels("resourcesPage")!KeepsPanel
       /\ scope = "unitsPage" => Panels("unitsPage")!KeepsPanel]_campus

\* The time stamps of a service request and of a notice agree with its status, whatever
\* two administrators save at once from rows they have read before.
StampsAgree ==
    /\ scope = "oneRequest" => Requests("oneRequest")!TimestampsAgree
    /\ scope = "oneNotice" => Notices("oneNotice")!PublishedAgrees

\* The form that a save sends is that of the request, of the notice, of the rule that is
\* shown, whichever lists, answers or selections come before.  Of the resource desk, only
\* that an open panel is about a resource and a unit that are shown.
FormsAreOfShown ==
    /\ scope = "twoRequests" => Requests("twoRequests")!FormIsOfShown
    /\ scope = "twoNotices" => Notices("twoNotices")!EditsShown
    /\ scope = "rulesPage" => RulesPage!EditorIsOfSelected
    /\ scope = "resourcesPage" => Panels("resourcesPage")!PanelStands
    /\ scope = "unitsPage" => Panels("unitsPage")!PanelStands

\* The expression of a rule is one that its type can take, whatever administrators
\* change at once (updateRule).
RulesAreValid == scope = "ruleEditors" => RuleEditors!RulesAreValid

\* A restriction counts exactly the committed penalties of its user and bans until the
\* last of their ends (applyNoShow).
BansMatch ==
    /\ scope = "penalties" => Penalties!BansMatch
    /\ scope = "bans" => Bans!BansMatch

\* Whoever is admitted meets every active rule that stood all the time, and reserves
\* with nobody who is banned (assertReservationRules, assertActivityRules).
AdmittedUnderRules ==
    [][/\ scope = "admission" => Admission!AdmitsRightly
       /\ scope = "bans" => Bans!AdmitsRightly]_campus

\* With a schedule that is up to date, the page of a room calls a range available that
\* the handler refuses exactly if a confirmed reservation is in the gap between one
\* buffer and two, where the exclusion constraint refuses it, and forbids one that the
\* handler accepts only for a missed reservation; and what is picked for a group of
\* courts is free on all of them.
PagesAgree ==
    /\ scope = "room" => Room!PageAgrees
    /\ scope = "courts" => Courts!GroupSlotsAreFree
=============================================================================
