-------------------------------- MODULE Desks --------------------------------
(***************************************************************************)
(* What administrators and users have before them: the catalogue, the      *)
(* workspaces and the booking pages.  They share no table and no page, and *)
(* a variable that several of them have is one variable here, for Campus   *)
(* looks at one of them at a time.  The fields of a setting are the        *)
(* constants of a component.                                               *)
(***************************************************************************)
EXTENDS Integers

CONSTANTS
    None,
    Setting \* a record of settings

VARIABLES
    resources, units, groups,
    quota, tickets,
    closure, range,
    occupied, closed, mode, target, slots,
    desk, used, guest, now, rows, page, call, display

-----------------------------------------------------------------------------
(* The catalogue of resources, units and groups *)

Catalogue == INSTANCE ResourceCatalogue WITH
    NoRow <- None, ResourceId <- Setting.catalogue.ResourceId,
    UnitId <- Setting.catalogue.UnitId, GroupId <- Setting.catalogue.GroupId,
    Admin <- Setting.catalogue.Admin, Guest <- Setting.catalogue.Guest

-----------------------------------------------------------------------------
(* The workspaces: one row of two administrators, or two in one workspace *)

Activities(s) == INSTANCE ActivityAdmin WITH
    ActivityId <- Setting[s].ActivityId, TicketId <- Setting[s].TicketId,
    Amount <- Setting[s].Amount, Default <- Setting[s].Default,
    Browser <- Setting[s].Browser, Author <- Setting[s].Author

Requests(s) == INSTANCE ServiceDesk WITH
    RequestId <- Setting[s].RequestId, Browser <- Setting[s].Browser,
    MaxTime <- Setting[s].MaxTime, Offered <- Setting[s].Offered

Notices(s) == INSTANCE NoticeBoard WITH
    NoticeId <- Setting[s].NoticeId, Browser <- Setting[s].Browser,
    MaxTime <- Setting[s].MaxTime

RulesPage == INSTANCE RuleDesk WITH
    RuleId <- Setting.rulesPage.RuleId, MaxCall <- Setting.rulesPage.MaxCall,
    New <- Setting.rulesPage.New

Panels(s) == INSTANCE ResourceDesk WITH
    ResourceId <- Setting[s].ResourceId, UnitId <- Setting[s].UnitId,
    Code <- Setting[s].Code, AreaOf <- Setting[s].AreaOf, Kind <- Setting[s].Kind,
    MaxCall <- Setting[s].MaxCall

-----------------------------------------------------------------------------
(* The booking pages *)

Room == INSTANCE SpacesPage WITH
    Null <- None, Horizon <- Setting.room.Horizon, Buffer <- Setting.room.Buffer,
    Width <- Setting.room.Width, Stride <- Setting.room.Stride,
    Displays <- Setting.room.Displays, Ranges <- Setting.room.Ranges,
    OrderId <- Setting.room.OrderId, Closures <- Setting.room.Closures

Courts == INSTANCE SportsPage WITH
    Unit <- Setting.courts.Unit, Group <- Setting.courts.Group, Hour <- Setting.courts.Hour,
    Width <- Setting.courts.Width, Occupied <- Setting.courts.Occupied,
    Closed <- Setting.courts.Closed, Threshold <- Setting.courts.Threshold

=============================================================================
