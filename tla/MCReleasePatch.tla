--------------------------- MODULE MCReleasePatch ---------------------------
(***************************************************************************)
(* One administrator who creates a weekly release rule and changes it, by  *)
(* a payload with all its fields or with the status alone.                 *)
(***************************************************************************)
EXTENDS ResourceChannel

CONSTANTS x1, p1

Months == <<0, 31>>
Payload(f, w, t, on) ==
    [frequency |-> f, dayOfWeek |-> w, dayOfMonth |-> Null, time |-> t, isActive |-> on]
Payloads == {Payload("WEEKLY", 3, 540, Null), Payload("WEEKLY", Null, 540, Null),
             Payload("DAILY", Null, 600, Null), Payload(Null, Null, Null, FALSE)}
NoRules == {[i \in RuleId |-> NoRow]}
NoClosures == {[i \in ClosureId |-> NoClosure]}
OneMoment == <<0>>
=============================================================================
