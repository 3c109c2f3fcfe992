----------------------------- MODULE AlertRules -----------------------------
(***************************************************************************)
(* The alerts tab of an endpoint in the dashboard: the table of rules, its *)
(* form to create or edit one, and the routes of the API that write them.  *)
(* A rule is its type, the fields its config has, and whether it is        *)
(* active.  The form keeps what was typed for one type when another is     *)
(* chosen, and an edit starts from the row that the table showed: the save *)
(* writes all of it back.  The rules here are those for all endpoints, and *)
(* one entry of the cache stands for the queries under ["alerts"].         *)
(***************************************************************************)
EXTENDS Dashboard

CONSTANTS
    Alerts, NoAlert,
    Types          (* the types that the user chooses from *)

VARIABLES
    rule,   (* the alerts the API has                                      *)
    form,   (* the create or the edit dialog                               *)
    calls,  (* the mutations: of the form, of a row's menu and of a delete *)
    lost    (* history: an answer was lost                                 *)

alerts == <<rule, form, calls, lost>>
vars == <<dashboard, alerts>>

\* The fields that each config schema requires.
Needs == [DELIVERY_FAILURE_RATE |-> {"threshold", "windowMinutes"},
          DELIVERY_ERROR_CODE |-> {"errorCode"},
          EVENT_FAILED |-> {"statuses"},
          ENDPOINT_SILENCE |-> {"windowMinutes"}]
Fields == UNION {Needs[t] : t \in Types}

FitsInPart(type, config) == Needs[type] \cap config # {}
Fits(type, config) == Needs[type] \subseteq config

DefaultType == "DELIVERY_ERROR_CODE"
NoRule == [is |-> "none", type |-> DefaultType, config |-> {}, active |-> FALSE]
Live == {a \in Alerts : rule[a].is = "live"}

Slots == {"form", "toggle", "delete"}
NoForm == [open |-> FALSE, alert |-> NoAlert,
           config |-> Needs[DefaultType], active |-> TRUE, current |-> FALSE]
NoCall == [at |-> "idle", alert |-> NoAlert, type |-> DefaultType,
           config |-> {}, active |-> TRUE, current |-> FALSE]

AlertRow == [id : Alerts, type : Types, config : SUBSET Fields, active : BOOLEAN]
RowOf(a) == [id |-> a, type |-> rule[a].type, config |-> rule[a].config, active |-> rule[a].active]

ASSUME AlertsAssumption ==
    /\ Types \subseteq DOMAIN Needs /\ DefaultType \in Types
    /\ NoAlert \notin Alerts
    /\ "alerts" \in OtherKeys /\ AlertRow \subseteq OtherRows

Rules == cache["alerts"].rows
OnTab == page.at = "endpoint" /\ page.tab = "alerts"
Quiet == \A s \in Slots : calls[s].at = "idle"

AlertsInit ==
    /\ rule \in [Alerts -> {NoRule} \cup [is : {"live"}, type : Types, config : SUBSET Fields, active : BOOLEAN]]
    /\ \A a \in Live : Fits(rule[a].type, rule[a].config)
    /\ form = NoForm
    /\ calls = [s \in Slots |-> NoCall]
    /\ lost = FALSE

Init == AlertsInit /\ \E came \in SUBSET Active : DashboardInit(came)

-----------------------------------------------------------------------------
(* The user.  A form that is open keeps the page from clicks.              *)

ClickRow == Click /\ OnTab /\ ~form.open
SendCall(s, call) ==
    /\ calls[s].at = "idle"
    /\ calls' = [calls EXCEPT ![s] = [call EXCEPT !.at = "sent"]]

Kept == <<server, queries, route, storage, dialog, request, announced>>

OpenCreate ==
    /\ ClickRow
    /\ form' = [NoForm EXCEPT !.open = TRUE]
    /\ UNCHANGED <<Kept, rule, calls, lost>>

\* The dialog takes a row as it is shown.  The form is current when the list is
\* without a doubt: nothing under way, and fresh, though a fetch that an invalidation
\* overtook off screen leaves old rows that count as fresh.
OpenEdit(row) ==
    /\ ClickRow /\ row \in Rules
    /\ form' = [open |-> TRUE, alert |-> row.id, config |-> row.config,
                active |-> row.active,
                current |-> Quiet /\ ~cache["alerts"].stale /\ ~cache["alerts"].overtaken]
    /\ UNCHANGED <<Kept, rule, calls, lost>>

\* The type chosen and the fields it shows that have a value, beside what the
\* form kept of another type, are sent when zodResolver(alertFormSchema) agrees.
Submit(type, given) ==
    LET config == (form.config \ Needs[type]) \cup given IN
    /\ Move /\ form.open
    /\ given \subseteq Needs[type] /\ Fits(type, config)
    /\ SendCall("form", [NoCall EXCEPT !.alert = form.alert, !.type = type, !.config = config,
                                       !.active = form.active, !.current = form.current])
    /\ UNCHANGED <<Kept, rule, form, lost>>

Cancel ==
    /\ Move /\ form.open
    /\ form' = NoForm
    /\ UNCHANGED <<Kept, rule, calls, lost>>

toggleActive(row) ==
    /\ ClickRow /\ row \in Rules
    /\ calls["toggle"].at = "idle"
    /\ calls' = [calls EXCEPT !["toggle"] = [NoCall EXCEPT !.at = "sent", !.alert = row.id,
                                                            !.active = ~row.active],
                              !["form"].current = FALSE]
    /\ UNCHANGED <<Kept, rule, form, lost>>

handleDelete(row) ==
    /\ ClickRow /\ row \in Rules
    /\ SendCall("delete", [NoCall EXCEPT !.alert = row.id])
    /\ UNCHANGED <<Kept, rule, form, lost>>

-----------------------------------------------------------------------------
(* The API.                                                                *)

Creates(s) == s = "form" /\ calls[s].alert = NoAlert

\* AlertController.create and update.
Save(a) ==
    LET body == calls["form"] IN
    /\ Fits(body.type, body.config)
    /\ IF Creates("form") THEN rule[a].is = "none" ELSE a = body.alert /\ a \in Live
    /\ rule' = [rule EXCEPT ![a] = [is |-> "live", type |-> body.type, config |-> body.config,
                                    active |-> body.active]]

Toggle(a) ==
    /\ a = calls["toggle"].alert /\ a \in Live
    /\ rule' = [rule EXCEPT ![a].active = calls["toggle"].active]

Delete(a) ==
    /\ a = calls["delete"].alert /\ a \in Live
    /\ rule' = [rule EXCEPT ![a].is = "deleted"]

ServeAlert(s) ==
    /\ calls[s].at = "sent"
    /\ \E a \in Alerts : CASE s = "form" -> Save(a)
                           [] s = "toggle" -> Toggle(a)
                           [] s = "delete" -> Delete(a)
    /\ calls' = [calls EXCEPT ![s].at = "served"]
    /\ UNCHANGED <<Kept, moves, form, lost>>

\* 404: the row is gone.
RefuseAlert(s) ==
    /\ calls[s].at = "sent"
    /\ IF Creates(s) THEN \A a \in Alerts : rule[a].is # "none" ELSE calls[s].alert \notin Live
    /\ calls' = [calls EXCEPT ![s] = NoCall]
    /\ UNCHANGED <<Kept, moves, rule, form, lost>>

CallFails(s) ==
    /\ Move /\ calls[s].at \in {"sent", "served"}
    /\ calls' = [calls EXCEPT ![s] = NoCall]
    /\ lost' = (lost \/ calls[s].at = "served")
    /\ UNCHANGED <<Kept, rule, form>>

-----------------------------------------------------------------------------
(* The answers.  An invalidation ends the wait for the refetch before it.  *)

Woken == [s \in Slots |-> IF calls[s].at = "waiting" THEN [calls[s] EXCEPT !.at = "done"] ELSE calls[s]]

AnsweredInTheTable(s) ==
    /\ calls[s].at = "served"
    /\ IF s = "toggle" THEN UNCHANGED queries ELSE Invalidate({"alerts"}, Active, {})
    /\ calls' = [Woken EXCEPT ![s].at = "done"]
    /\ UNCHANGED <<server, route, storage, dialog, request, announced, moves, rule, form, lost>>

AlertAnswered(s) ==
    /\ calls[s].at = "served"
    /\ Invalidate({"alerts"}, Active, {})
    /\ calls' = [Woken EXCEPT ![s].at = IF "alerts" \in Active THEN "waiting" ELSE "done"]
    /\ UNCHANGED <<server, route, storage, dialog, request, announced, moves, rule, form, lost>>

\* A saved edit closes the edit dialog, whichever row it has by then.
AlertContinues(s) ==
    /\ calls[s].at = "done"
    /\ calls' = [calls EXCEPT ![s] = NoCall]
    /\ form' = IF s = "form" /\ (form.alert = NoAlert <=> Creates(s)) THEN NoForm ELSE form
    /\ UNCHANGED <<Kept, moves, rule, lost>>

AlertsRead ==
    /\ Read("alerts", {RowOf(a) : a \in Live}, 1)
    /\ UNCHANGED <<server, route, storage, dialog, request, announced, moves, alerts>>

-----------------------------------------------------------------------------
AlertStep ==
    \/ OpenCreate \/ Cancel \/ AlertsRead
    \/ \E row \in Rules : OpenEdit(row) \/ toggleActive(row) \/ handleDelete(row)
    \/ \E t \in Types, given \in SUBSET Fields : Submit(t, given)
    \/ \E s \in Slots : \/ ServeAlert(s) \/ RefuseAlert(s) \/ CallFails(s)
                        \/ AlertAnswered(s) \/ AlertContinues(s)

\* A step of the rest of the dashboard: who leaves the tab leaves the form,
\* and a refetch that ends wakes who waits for it.
DashboardStep ==
    /\ OtherSteps \/ (~form.open /\ Clicks)
    /\ form' = IF OnTab /\ OnTab' THEN form ELSE NoForm
    /\ calls' = IF InFlight("alerts") /\ fetch'["alerts"].at = "idle" THEN Woken ELSE calls
    /\ UNCHANGED <<rule, lost>>

Next == AlertStep \/ DashboardStep

Spec == Init /\ [][Next]_vars

\* Effects run, the router arrives, the API answers and promises continue.
Fairness == WF_dashboard(Progress \/ AlertsRead)

-----------------------------------------------------------------------------
(* Every alert has the fields that the evaluator reads for its type: a     *)
(* form that kept the config of another type (alert-form-fields.tsx:194)   *)
(* is not saved as it is.                                                  *)
ConfigFitsType == \A a \in Live : Needs[rule[a].type] \subseteq rule[a].config

(* Saving an edit pauses and activates nothing: a form that was opened on  *)
(* a list without a doubt, with no call under way, holds the activity that *)
(* the alert has until its save is served.  alert-edit-dialog.tsx sends    *)
(* isActive back as it read it, and no field of the form shows it.         *)
SaveKeepsActivity ==
    ~lost =>
        /\ form.current /\ form.alert \in Live => form.active = rule[form.alert].active
        /\ calls["form"].at = "sent" /\ calls["form"].current /\ calls["form"].alert \in Live =>
               calls["form"].active = rule[calls["form"].alert].active
=============================================================================
