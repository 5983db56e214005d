----------------------------- MODULE Campus_proofs -----------------------------
(***************************************************************************)
(* Theorems about the behaviours of Campus, for every setting that meets   *)
(* SettingAssumption: each of its properties, from one invariant that has  *)
(* the inductive invariant of every component in that component's scopes.  *)
(* What a component starts with and what its steps keep is proved of the   *)
(* component (Desks_proofs, ResourceChannel_proofs, RuleBook_proofs); here *)
(* a step of Campus is one of the component that is looked at.             *)
(***************************************************************************)
EXTENDS Campus, Desks_proofs

PanelScopes == {"resourcesPage", "unitsPage"}

CampusInv ==
    /\ scope = "months" => Months!ChannelInv
    /\ scope = "editors" => Editors!ChannelInv
    /\ scope = "clients" => Clients!ChannelInv
    /\ scope = "catalogue" => Catalogue!CatalogueInv
    /\ scope = "ruleEditors" => RuleEditors!BookInv
    /\ scope = "admission" => Admission!AdmissionInv
    /\ scope = "penalties" => Penalties!BookInv
    /\ scope = "bans" => Bans!AdmissionInv
    /\ scope = "rulesPage" => RulesPage!EditorInv
    /\ scope = "room" => Room!RoomInv
    /\ scope = "courts" => Courts!CourtInv
    /\ \A s \in ActivityScopes : scope = s => Activities(s)!ActivityInv
    /\ \A s \in RequestScopes : scope = s => Requests(s)!DeskInv
    /\ \A s \in NoticeScopes : scope = s => Notices(s)!BoardInv
    /\ \A s \in PanelScopes : scope = s => Panels(s)!PanelInv

-----------------------------------------------------------------------------
(* A step of Campus is one of the component that is looked at *)

\* A scope is chosen once.
LEMMA ScopeStays == [CampusNext]_campus => scope' = scope
BY DEF CampusNext, campus

\* In scope months it is a step of Months.
LEMMA MonthsMove ==
  [CampusNext]_campus /\ scope = "months" => [Months!Next]_(Months!vars)
<1>1. CampusNext /\ scope = "months" => Months!Next
  BY DEF CampusNext, ChannelNext, CatalogueNext, ActivitiesNext, OfficeNext, RulesNext, FormsNext,
         RoomNext, CourtsNext
<1>2. UNCHANGED campus => UNCHANGED Months!vars
  BY DEF campus, channelOnly, shared, Months!vars
<1> QED
  BY <1>1, <1>2

\* In scope editors it is a step of Editors.
LEMMA EditorsMove ==
  [CampusNext]_campus /\ scope = "editors" => [Editors!Next]_(Editors!vars)
<1>1. CampusNext /\ scope = "editors" => Editors!Next
  BY DEF CampusNext, ChannelNext, CatalogueNext, ActivitiesNext, OfficeNext, RulesNext, FormsNext,
         RoomNext, CourtsNext
<1>2. UNCHANGED campus => UNCHANGED Editors!vars
  BY DEF campus, channelOnly, shared, Editors!vars
<1> QED
  BY <1>1, <1>2

\* In scope clients it is a step of Clients.
LEMMA ClientsMove ==
  [CampusNext]_campus /\ scope = "clients" => [Clients!Next]_(Clients!vars)
<1>1. CampusNext /\ scope = "clients" => Clients!Next
  BY DEF CampusNext, ChannelNext, CatalogueNext, ActivitiesNext, OfficeNext, RulesNext, FormsNext,
         RoomNext, CourtsNext
<1>2. UNCHANGED campus => UNCHANGED Clients!vars
  BY DEF campus, channelOnly, shared, Clients!vars
<1> QED
  BY <1>1, <1>2

\* In scope catalogue it is a step of Catalogue.
LEMMA CatalogueMove ==
  [CampusNext]_campus /\ scope = "catalogue" => [Catalogue!Next]_(Catalogue!vars)
<1>1. CampusNext /\ scope = "catalogue" => Catalogue!Next
  BY DEF CampusNext, ChannelNext, CatalogueNext, ActivitiesNext, OfficeNext, RulesNext, FormsNext,
         RoomNext, CourtsNext
<1>2. UNCHANGED campus => UNCHANGED Catalogue!vars
  BY DEF campus, catalogueOnly, shared, Catalogue!vars
<1> QED
  BY <1>1, <1>2

\* In scope ruleEditors it is a step of RuleEditors.
LEMMA RuleEditorsMove ==
  [CampusNext]_campus /\ scope = "ruleEditors" => [RuleEditors!Next]_(RuleEditors!vars)
<1>1. CampusNext /\ scope = "ruleEditors" => RuleEditors!Next
  BY DEF CampusNext, ChannelNext, CatalogueNext, ActivitiesNext, OfficeNext, RulesNext, FormsNext,
         RoomNext, CourtsNext
<1>2. UNCHANGED campus => UNCHANGED RuleEditors!vars
  BY DEF campus, ruleOnly, shared, RuleEditors!vars, RuleEditors!rows
<1> QED
  BY <1>1, <1>2

\* In scope admission it is a step of Admission.
LEMMA AdmissionMove ==
  [CampusNext]_campus /\ scope = "admission" => [Admission!Next]_(Admission!vars)
<1>1. CampusNext /\ scope = "admission" => Admission!Next
  BY DEF CampusNext, ChannelNext, CatalogueNext, ActivitiesNext, OfficeNext, RulesNext, FormsNext,
         RoomNext, CourtsNext
<1>2. UNCHANGED campus => UNCHANGED Admission!vars
  BY DEF campus, ruleOnly, shared, Admission!vars, Admission!rows
<1> QED
  BY <1>1, <1>2

\* In scope penalties it is a step of Penalties.
LEMMA PenaltiesMove ==
  [CampusNext]_campus /\ scope = "penalties" => [Penalties!Next]_(Penalties!vars)
<1>1. CampusNext /\ scope = "penalties" => Penalties!Next
  BY DEF CampusNext, ChannelNext, CatalogueNext, ActivitiesNext, OfficeNext, RulesNext, FormsNext,
         RoomNext, CourtsNext
<1>2. UNCHANGED campus => UNCHANGED Penalties!vars
  BY DEF campus, ruleOnly, shared, Penalties!vars, Penalties!rows
<1> QED
  BY <1>1, <1>2

\* In scope bans it is a step of Bans.
LEMMA BansMove ==
  [CampusNext]_campus /\ scope = "bans" => [Bans!Next]_(Bans!vars)
<1>1. CampusNext /\ scope = "bans" => Bans!Next
  BY DEF CampusNext, ChannelNext, CatalogueNext, ActivitiesNext, OfficeNext, RulesNext, FormsNext,
         RoomNext, CourtsNext
<1>2. UNCHANGED campus => UNCHANGED Bans!vars
  BY DEF campus, ruleOnly, shared, Bans!vars, Bans!rows
<1> QED
  BY <1>1, <1>2

\* In scope rulesPage it is a step of RulesPage.
LEMMA RulesPageMove ==
  [CampusNext]_campus /\ scope = "rulesPage" => [RulesPage!Next]_(RulesPage!vars)
<1>1. CampusNext /\ scope = "rulesPage" => RulesPage!Next
  BY DEF CampusNext, ChannelNext, CatalogueNext, ActivitiesNext, OfficeNext, RulesNext, FormsNext,
         RoomNext, CourtsNext
<1>2. UNCHANGED campus => UNCHANGED RulesPage!vars
  BY DEF campus, shared, RulesPage!vars
<1> QED
  BY <1>1, <1>2

\* In scope room it is a step of Room.
LEMMA RoomMove ==
  [CampusNext]_campus /\ scope = "room" => [Room!Next]_(Room!vars)
<1>1. CampusNext /\ scope = "room" => Room!Next
  BY DEF CampusNext, ChannelNext, CatalogueNext, ActivitiesNext, OfficeNext, RulesNext, FormsNext,
         RoomNext, CourtsNext
<1>2. UNCHANGED campus => UNCHANGED Room!vars
  BY DEF campus, roomOnly, shared, Room!vars
<1> QED
  BY <1>1, <1>2

\* In scope courts it is a step of Courts.
LEMMA CourtsMove ==
  [CampusNext]_campus /\ scope = "courts" => [Courts!Next]_(Courts!vars)
<1>1. CampusNext /\ scope = "courts" => Courts!Next
  BY DEF CampusNext, ChannelNext, CatalogueNext, ActivitiesNext, OfficeNext, RulesNext, FormsNext,
         RoomNext, CourtsNext
<1>2. UNCHANGED campus => UNCHANGED Courts!vars
  BY DEF campus, courtOnly, shared, Courts!vars
<1> QED
  BY <1>1, <1>2

\* In a scope of ActivityScopes it is a step of Activities.
LEMMA ActivitiesMove ==
  ASSUME NEW at \in ActivityScopes, [CampusNext]_campus, scope = at
  PROVE  [Activities(at)!Next]_(Activities(at)!vars)
<1>1. CampusNext => Activities(at)!Next
  BY DEF ActivityScopes, CampusNext, ChannelNext, CatalogueNext, ActivitiesNext, OfficeNext,
         RulesNext, FormsNext, RoomNext, CourtsNext
<1>2. UNCHANGED campus => UNCHANGED Activities(at)!vars
  BY DEF campus, activityOnly, shared, Activities!vars
<1> QED
  BY <1>1, <1>2

\* In a scope of RequestScopes it is a step of Requests.
LEMMA RequestsMove ==
  ASSUME NEW at \in RequestScopes, [CampusNext]_campus, scope = at
  PROVE  [Requests(at)!Next]_(Requests(at)!vars)
<1>1. CampusNext => Requests(at)!Next
  BY DEF RequestScopes, CampusNext, ChannelNext, CatalogueNext, ActivitiesNext, OfficeNext,
         RulesNext, FormsNext, RoomNext, CourtsNext
<1>2. UNCHANGED campus => UNCHANGED Requests(at)!vars
  BY DEF campus, shared, Requests!vars
<1> QED
  BY <1>1, <1>2

\* In a scope of NoticeScopes it is a step of Notices.
LEMMA NoticesMove ==
  ASSUME NEW at \in NoticeScopes, [CampusNext]_campus, scope = at
  PROVE  [Notices(at)!Next]_(Notices(at)!vars)
<1>1. CampusNext => Notices(at)!Next
  BY DEF NoticeScopes, CampusNext, ChannelNext, CatalogueNext, ActivitiesNext, OfficeNext,
         RulesNext, FormsNext, RoomNext, CourtsNext
<1>2. UNCHANGED campus => UNCHANGED Notices(at)!vars
  BY DEF campus, shared, Notices!vars
<1> QED
  BY <1>1, <1>2

\* In a scope of PanelScopes it is a step of Panels.
LEMMA PanelsMove ==
  ASSUME NEW at \in PanelScopes, [CampusNext]_campus, scope = at
  PROVE  [Panels(at)!Next]_(Panels(at)!vars)
<1>1. CampusNext => Panels(at)!Next
  BY DEF PanelScopes, CampusNext, ChannelNext, CatalogueNext, ActivitiesNext, OfficeNext,
         RulesNext, FormsNext, RoomNext, CourtsNext
<1>2. UNCHANGED campus => UNCHANGED Panels(at)!vars
  BY DEF campus, shared, Panels!vars
<1> QED
  BY <1>1, <1>2

-----------------------------------------------------------------------------
(* The invariant *)

\* Every component starts sound,
LEMMA CampusStarts == CampusInit => CampusInv
<1> SUFFICES ASSUME CampusInit PROVE CampusInv
  OBVIOUS
<1>1. scope = "months" => Months!ChannelInv
  <2>1. scope = "months" => Months!Init
    BY DEF CampusInit
  <2> QED
    BY <2>1, SettingAssumption, Months!InitSound
<1>2. scope = "editors" => Editors!ChannelInv
  <2>1. scope = "editors" => Editors!Init
    BY DEF CampusInit
  <2> QED
    BY <2>1, SettingAssumption, Editors!InitSound
<1>3. scope = "clients" => Clients!ChannelInv
  <2>1. scope = "clients" => Clients!Init
    BY DEF CampusInit
  <2> QED
    BY <2>1, SettingAssumption, Clients!InitSound
<1>4. scope = "catalogue" => Catalogue!CatalogueInv
  <2>1. scope = "catalogue" => Catalogue!Init
    BY DEF CampusInit
  <2> QED
    BY <2>1, SettingAssumption, CatalogueInitSound
<1>5. scope = "ruleEditors" => RuleEditors!BookInv
  <2>1. scope = "ruleEditors" => RuleEditors!Init
    BY DEF CampusInit
  <2> QED
    BY <2>1, SettingAssumption, RuleEditors!BookInit
<1>6. scope = "admission" => Admission!AdmissionInv
  <2>1. scope = "admission" => Admission!Init
    BY DEF CampusInit
  <2> QED
    BY <2>1, SettingAssumption, Admission!AdmissionInit
<1>7. scope = "penalties" => Penalties!BookInv
  <2>1. scope = "penalties" => Penalties!Init
    BY DEF CampusInit
  <2> QED
    BY <2>1, SettingAssumption, Penalties!BookInit
<1>8. scope = "bans" => Bans!AdmissionInv
  <2>1. scope = "bans" => Bans!Init
    BY DEF CampusInit
  <2> QED
    BY <2>1, SettingAssumption, Bans!AdmissionInit
<1>9. scope = "rulesPage" => RulesPage!EditorInv
  <2>1. scope = "rulesPage" => RulesPage!Init
    BY DEF CampusInit
  <2> QED
    BY <2>1, SettingAssumption, RuleEditorInit
<1>10. scope = "room" => Room!RoomInv
  <2>1. scope = "room" => Room!Init
    BY DEF CampusInit
  <2> QED
    BY <2>1, SettingAssumption, RoomInit
<1>11. scope = "courts" => Courts!CourtInv
  <2>1. scope = "courts" => Courts!Init
    BY DEF CampusInit
  <2> QED
    BY <2>1, SettingAssumption, CourtInit
<1>12. ASSUME NEW at \in ActivityScopes, scope = at PROVE Activities(at)!ActivityInv
  <2>1. Activities(at)!Init
    BY <1>12 DEF CampusInit, ActivityScopes
  <2>2. Activities(at)!Assumptions
    BY SettingAssumption
  <2> QED
    BY <2>1, <2>2, ActivityInit
<1>13. ASSUME NEW at \in RequestScopes, scope = at PROVE Requests(at)!DeskInv
  <2>1. Requests(at)!Init
    BY <1>13 DEF CampusInit, RequestScopes
  <2>2. Requests(at)!Assumptions
    BY SettingAssumption
  <2> QED
    BY <2>1, <2>2, RequestInit
<1>14. ASSUME NEW at \in NoticeScopes, scope = at PROVE Notices(at)!BoardInv
  <2>1. Notices(at)!Init
    BY <1>14 DEF CampusInit, NoticeScopes
  <2>2. Notices(at)!Assumptions
    BY SettingAssumption
  <2> QED
    BY <2>1, <2>2, NoticeInit
<1>15. ASSUME NEW at \in PanelScopes, scope = at PROVE Panels(at)!PanelInv
  <2>1. Panels(at)!Init
    BY <1>15 DEF CampusInit, PanelScopes
  <2>2. Panels(at)!Assumptions
    BY SettingAssumption DEF PanelScopes
  <2> QED
    BY <2>1, <2>2, PanelInit
<1> QED
  BY <1>1, <1>2, <1>3, <1>4, <1>5, <1>6, <1>7, <1>8, <1>9, <1>10, <1>11, <1>12, <1>13, <1>14,
     <1>15 DEF CampusInv

\* and every step keeps it so.
LEMMA CampusKeeps == CampusInv /\ [CampusNext]_campus => CampusInv'
<1> SUFFICES ASSUME CampusInv, [CampusNext]_campus PROVE CampusInv'
  OBVIOUS
<1>1. ASSUME scope = "months" PROVE Months!ChannelInv'
  <2>1. Months!ChannelInv /\ [Months!Next]_(Months!vars)
    BY <1>1, MonthsMove DEF CampusInv
  <2> QED
    BY <2>1, SettingAssumption, Months!NextSound
<1>2. ASSUME scope = "editors" PROVE Editors!ChannelInv'
  <2>1. Editors!ChannelInv /\ [Editors!Next]_(Editors!vars)
    BY <1>2, EditorsMove DEF CampusInv
  <2> QED
    BY <2>1, SettingAssumption, Editors!NextSound
<1>3. ASSUME scope = "clients" PROVE Clients!ChannelInv'
  <2>1. Clients!ChannelInv /\ [Clients!Next]_(Clients!vars)
    BY <1>3, ClientsMove DEF CampusInv
  <2> QED
    BY <2>1, SettingAssumption, Clients!NextSound
<1>4. ASSUME scope = "catalogue" PROVE Catalogue!CatalogueInv'
  <2>1. Catalogue!CatalogueInv /\ [Catalogue!Next]_(Catalogue!vars)
    BY <1>4, CatalogueMove DEF CampusInv
  <2> QED
    BY <2>1, SettingAssumption, CatalogueNextSound
<1>5. ASSUME scope = "ruleEditors" PROVE RuleEditors!BookInv'
  <2>1. RuleEditors!BookInv /\ [RuleEditors!Next]_(RuleEditors!vars)
    BY <1>5, RuleEditorsMove DEF CampusInv
  <2> QED
    BY <2>1, SettingAssumption, RuleEditors!StepKeeps
<1>6. ASSUME scope = "admission" PROVE Admission!AdmissionInv'
  <2>1. Admission!AdmissionInv /\ [Admission!Next]_(Admission!vars)
    BY <1>6, AdmissionMove DEF CampusInv
  <2> QED
    BY <2>1, SettingAssumption, Admission!AdmissionStep
<1>7. ASSUME scope = "penalties" PROVE Penalties!BookInv'
  <2>1. Penalties!BookInv /\ [Penalties!Next]_(Penalties!vars)
    BY <1>7, PenaltiesMove DEF CampusInv
  <2> QED
    BY <2>1, SettingAssumption, Penalties!StepKeeps
<1>8. ASSUME scope = "bans" PROVE Bans!AdmissionInv'
  <2>1. Bans!AdmissionInv /\ [Bans!Next]_(Bans!vars)
    BY <1>8, BansMove DEF CampusInv
  <2> QED
    BY <2>1, SettingAssumption, Bans!AdmissionStep
<1>9. ASSUME scope = "rulesPage" PROVE RulesPage!EditorInv'
  <2>1. RulesPage!EditorInv /\ [RulesPage!Next]_(RulesPage!vars)
    BY <1>9, RulesPageMove DEF CampusInv
  <2> QED
    BY <2>1, SettingAssumption, RuleEditorStep
<1>10. ASSUME scope = "room" PROVE Room!RoomInv'
  <2>1. Room!RoomInv /\ [Room!Next]_(Room!vars)
    BY <1>10, RoomMove DEF CampusInv
  <2> QED
    BY <2>1, SettingAssumption, RoomStep
<1>11. ASSUME scope = "courts" PROVE Courts!CourtInv'
  <2>1. Courts!CourtInv /\ [Courts!Next]_(Courts!vars)
    BY <1>11, CourtsMove DEF CampusInv
  <2> QED
    BY <2>1, SettingAssumption, CourtStep
<1>12. ASSUME NEW at \in ActivityScopes, scope = at PROVE Activities(at)!ActivityInv'
  <2>1. Activities(at)!ActivityInv /\ [Activities(at)!Next]_(Activities(at)!vars)
    BY <1>12, ActivitiesMove DEF CampusInv
  <2>2. Activities(at)!Assumptions
    BY SettingAssumption
  <2> QED
    BY <2>1, <2>2, ActivityStep
<1>13. ASSUME NEW at \in RequestScopes, scope = at PROVE Requests(at)!DeskInv'
  <2>1. Requests(at)!DeskInv /\ [Requests(at)!Next]_(Requests(at)!vars)
    BY <1>13, RequestsMove DEF CampusInv
  <2>2. Requests(at)!Assumptions
    BY SettingAssumption
  <2> QED
    BY <2>1, <2>2, RequestStep
<1>14. ASSUME NEW at \in NoticeScopes, scope = at PROVE Notices(at)!BoardInv'
  <2>1. Notices(at)!BoardInv /\ [Notices(at)!Next]_(Notices(at)!vars)
    BY <1>14, NoticesMove DEF CampusInv
  <2>2. Notices(at)!Assumptions
    BY SettingAssumption
  <2> QED
    BY <2>1, <2>2, NoticeStep
<1>15. ASSUME NEW at \in PanelScopes, scope = at PROVE Panels(at)!PanelInv'
  <2>1. Panels(at)!PanelInv /\ [Panels(at)!Next]_(Panels(at)!vars)
    BY <1>15, PanelsMove DEF CampusInv
  <2>2. Panels(at)!Assumptions
    BY SettingAssumption DEF PanelScopes
  <2> QED
    BY <2>1, <2>2, PanelStep
<1> QED
  BY ScopeStays, <1>1, <1>2, <1>3, <1>4, <1>5, <1>6, <1>7, <1>8, <1>9, <1>10, <1>11, <1>12,
     <1>13, <1>14, <1>15 DEF CampusInv

\* The invariant holds throughout.
LEMMA CampusStays == CampusSpec => []CampusInv
BY CampusStarts, CampusKeeps, PTL DEF CampusSpec

-----------------------------------------------------------------------------
(* Theorems *)

\* Sound components have their types.
LEMMA SoundTypes == CampusInv => TypesAreRight
<1> SUFFICES ASSUME CampusInv PROVE TypesAreRight
  OBVIOUS
<1>1. /\ scope = "months" => Months!TypeOK
      /\ scope = "editors" => Editors!TypeOK
      /\ scope = "clients" => Clients!TypeOK
  BY Months!ChannelTypes, Editors!ChannelTypes, Clients!ChannelTypes DEF CampusInv
<1>2. /\ scope = "ruleEditors" => RuleEditors!TypeOK
      /\ scope = "admission" => Admission!TypeOK
      /\ scope = "penalties" => Penalties!TypeOK
      /\ scope = "bans" => Bans!TypeOK
  BY RuleEditors!BookTypes, Admission!BookTypes, Penalties!BookTypes, Bans!BookTypes
  DEF CampusInv, Admission!AdmissionInv, Bans!AdmissionInv
<1>3. scope = "catalogue" => Catalogue!TypeOK
  BY CatalogueTypes DEF CampusInv
<1>4. ASSUME NEW at \in {"oneActivity"}, scope = at PROVE Activities(at)!TypeOK
  BY <1>4, ActivityTypes DEF CampusInv, ActivityScopes
<1>5. ASSUME NEW at \in {"oneRequest"}, scope = at PROVE Requests(at)!TypeOK
  BY <1>5, RequestImplies DEF CampusInv, RequestScopes
<1>6. ASSUME NEW at \in {"oneNotice"}, scope = at PROVE Notices(at)!TypeOK
  BY <1>6, NoticeImplies DEF CampusInv, NoticeScopes
<1>7. ASSUME NEW at \in PanelScopes, scope = at PROVE Panels(at)!TypeOK
  BY <1>7, PanelTypes DEF CampusInv
<1>8. scope = "rulesPage" => RulesPage!TypeOK
  BY RuleEditorTypes DEF CampusInv
<1>9. /\ scope = "room" => Room!TypeOK
      /\ scope = "courts" => Courts!TypeOK
  BY DEF CampusInv, Room!RoomInv, Courts!CourtInv
<1> QED
  BY <1>1, <1>2, <1>3, <1>4, <1>5, <1>6, <1>7, <1>8, <1>9 DEF TypesAreRight, PanelScopes

\* Rows, pages and requests keep their types in every component: no binding, profile or
\* group item is of a rule, a resource or a unit that was deleted.
THEOREM TypeCorrect == CampusSpec => []TypesAreRight
BY CampusStays, SoundTypes, PTL

\* Every release is on the release day of its cycle, and the next one is the first after
\* it, whatever the calendar, the rules and the moments (resolveCycleReleaseMoments).
THEOREM CyclesRight == CampusSpec => []CyclesAreRight
<1>1. CampusInv => CyclesAreRight
  BY SettingAssumption, Months!CyclesHold DEF CampusInv, CyclesAreRight
<1> QED
  BY <1>1, CampusStays, PTL

\* A channel that is scheduled for a moment opens at that moment
\* (buildResourceChannelSnapshot).
THEOREM OpensRight == CampusSpec => OpensOnTime
<1>1. CampusInv /\ [CampusNext]_campus => (scope = "months" => Months!KeepsSchedule)
  BY SettingAssumption, MonthsMove, Months!ScheduleStays DEF CampusInv
<1> QED
  BY <1>1, CampusStays, PTL DEF CampusSpec, OpensOnTime

\* A closure ends after it starts, whatever administrators change at once
\* (updateBookingClosure).
THEOREM ClosuresRight == CampusSpec => []ClosuresAreRanges
<1>1. CampusInv => ClosuresAreRanges
  BY DEF CampusInv, ClosuresAreRanges, Editors!ChannelInv
<1> QED
  BY <1>1, CampusStays, PTL

\* What the channel lets through is in no closure that stood all the time and, if no rule
\* was changed, not before the release of one (assertResourceChannelOpen).
THEOREM ChannelRight == CampusSpec => ChannelHolds
<1>1. CampusInv /\ [CampusNext]_campus => (scope = "clients" => Clients!LetsThroughRightly)
  BY SettingAssumption, ClientsMove, Clients!PassesRightly DEF CampusInv
<1> QED
  BY <1>1, CampusStays, PTL DEF CampusSpec, ChannelHolds

\* Reservations and groups keep the rows they refer to, though an administrator counts
\* what refers to a row long before it is deleted (resource-write.service.ts).
THEOREM ReferencesRight == CampusSpec => []CatalogueStands
<1>1. CampusInv => CatalogueStands
  BY DEF CampusInv, CatalogueStands, Catalogue!CatalogueInv, Catalogue!CatalogueStands
<1> QED
  BY <1>1, CampusStays, PTL

\* An activity's quota is never above the stock of its tickets, whichever tickets are
\* added and quotas set at once (createActivityTicket, updateActivity).
THEOREM QuotaRight == CampusSpec => []QuotaWithinStock
<1>1. ASSUME CampusInv, NEW at \in {"oneActivity"}, scope = at
      PROVE  Activities(at)!QuotaWithinStock
  BY <1>1 DEF CampusInv, ActivityScopes, Activities!ActivityInv
<1>2. CampusInv => QuotaWithinStock
  BY <1>1 DEF QuotaWithinStock
<1> QED
  BY <1>2, CampusStays, PTL

\* What a workspace shows changes only by a selection, an opened panel or an answer in
\* it, never by a list that arrives meanwhile.
THEOREM ShownRight == CampusSpec => ShownIsStable
<1>1. ASSUME CampusInv, [CampusNext]_campus, NEW at \in {"twoActivities"}, scope = at
      PROVE  Activities(at)!KeepsShown
  <2>1. /\ Activities(at)!Assumptions /\ Activities(at)!ActivityInv
        /\ [Activities(at)!Next]_(Activities(at)!vars)
    BY <1>1, SettingAssumption, ActivitiesMove DEF CampusInv, ActivityScopes
  <2> QED
    BY <2>1, ActivityShownStays
<1>2. ASSUME CampusInv, [CampusNext]_campus, NEW at \in PanelScopes, scope = at
      PROVE  Panels(at)!KeepsPanel
  <2>1. /\ Panels(at)!Assumptions /\ Panels(at)!PanelInv
        /\ [Panels(at)!Next]_(Panels(at)!vars)
    BY <1>2, SettingAssumption, PanelsMove DEF CampusInv, PanelScopes
  <2> QED
    BY <2>1, PanelKept
<1>3. CampusInv /\ [CampusNext]_campus => (scope = "rulesPage" => RulesPage!KeepsSelected)
  BY SettingAssumption, RulesPageMove, RuleSelectionStays DEF CampusInv
<1>4. CampusInv /\ [CampusNext]_campus =>
        /\ scope = "twoActivities" => Activities("twoActivities")!KeepsShown
        /\ scope = "rulesPage" => RulesPage!KeepsSelected
        /\ scope = "resourcesPage" => Panels("resourcesPage")!KeepsPanel
        /\ scope = "unitsPage" => Panels("unitsPage")!KeepsPanel
  BY <1>1, <1>2, <1>3 DEF PanelScopes
<1> QED
  BY <1>4, CampusStays, PTL DEF CampusSpec, ShownIsStable

\* The time stamps of a request and of a notice agree with its status, whatever is saved
\* at once from rows read before (updateServiceRequest, updateNotification).
THEOREM StampsRight == CampusSpec => []StampsAgree
<1>1. ASSUME CampusInv, NEW at \in {"oneRequest"}, scope = at
      PROVE  Requests(at)!TimestampsAgree
  BY <1>1, RequestImplies DEF CampusInv, RequestScopes
<1>2. ASSUME CampusInv, NEW at \in {"oneNotice"}, scope = at
      PROVE  Notices(at)!PublishedAgrees
  BY <1>2, NoticeImplies DEF CampusInv, NoticeScopes
<1>3. CampusInv => StampsAgree
  BY <1>1, <1>2 DEF StampsAgree
<1> QED
  BY <1>3, CampusStays, PTL

\* The form that a save sends is that of what is shown, and an open panel is about a
\* resource and a unit that are shown.
THEOREM FormsRight == CampusSpec => []FormsAreOfShown
<1>1. ASSUME CampusInv, NEW at \in {"twoRequests"}, scope = at
      PROVE  Requests(at)!FormIsOfShown
  BY <1>1, RequestImplies DEF CampusInv, RequestScopes
<1>2. ASSUME CampusInv, NEW at \in {"twoNotices"}, scope = at
      PROVE  Notices(at)!EditsShown
  BY <1>2, NoticeImplies DEF CampusInv, NoticeScopes
<1>3. ASSUME CampusInv, NEW at \in PanelScopes, scope = at
      PROVE  Panels(at)!PanelStands
  BY <1>3 DEF CampusInv, Panels!PanelInv
<1>4. CampusInv => (scope = "rulesPage" => RulesPage!EditorIsOfSelected)
  BY DEF CampusInv, RulesPage!EditorInv
<1>5. CampusInv => FormsAreOfShown
  BY <1>1, <1>2, <1>3, <1>4 DEF FormsAreOfShown, PanelScopes
<1> QED
  BY <1>5, CampusStays, PTL

\* The expression of a rule is one that its type can take (updateRule).
THEOREM RulesRight == CampusSpec => []RulesAreValid
<1>1. CampusInv => RulesAreValid
  BY RuleEditors!BookRules DEF CampusInv, RulesAreValid
<1> QED
  BY <1>1, CampusStays, PTL

\* A restriction counts exactly the committed penalties of its user and bans until the
\* last of their ends (applyNoShow).
THEOREM BansRight == CampusSpec => []BansMatch
<1>1. CampusInv => BansMatch
  BY Penalties!BookBans, Bans!BookBans DEF CampusInv, BansMatch, Bans!AdmissionInv
<1> QED
  BY <1>1, CampusStays, PTL

\* Whoever is admitted meets every active rule that stood all the time, and reserves
\* with nobody who is banned (assertReservationRules, assertActivityRules).
THEOREM AdmissionRight == CampusSpec => AdmittedUnderRules
<1>1. CampusInv /\ [CampusNext]_campus =>
        /\ scope = "admission" => Admission!AdmitsRightly
        /\ scope = "bans" => Bans!AdmitsRightly
  BY SettingAssumption, AdmissionMove, BansMove, Admission!AdmitsRightlyStep,
     Bans!AdmitsRightlyStep DEF CampusInv
<1> QED
  BY <1>1, CampusStays, PTL DEF CampusSpec, AdmittedUnderRules

\* The page of a room lets through what the handler would admit and forbids what it would
\* refuse, and what is picked for a group of courts is free on all of them.
THEOREM PagesRight == CampusSpec => []PagesAgree
<1>1. CampusInv => PagesAgree
  BY SettingAssumption, RoomAgrees DEF CampusInv, PagesAgree, Courts!CourtInv
<1> QED
  BY <1>1, CampusStays, PTL
=============================================================================
