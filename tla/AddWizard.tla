------------------------------ MODULE AddWizard ------------------------------
(***************************************************************************)
(* Adding an integration: the wizard of the user interface                 *)
(* (AddIntegrationModal.jsx), the OAuth flows the server keeps for it      *)
(* (src/server/_oauth.py), the routes between them, and the supervisor's   *)
(* add at the end of both ways, by password and by consent. One account    *)
(* is added: every flow ends in the same integration id. The user answers  *)
(* at the provider, reloads the popup, or walks away.                      *)
(***************************************************************************)
EXTENDS Integers, FiniteSets

CONSTANTS
    Flow,       \* OAuth flows, one for each state token
    MaxReq,     \* bound: HTTP handlers waiting at once
    MaxRestarts \* bound: restarts of the app server

VARIABLES
    status,     \* of each PendingOAuthIntegration: "unused" before, "stale" when it is pending
                \* and its ten minutes are over, "lost" after a restart
    used,       \* the flows whose authorization code the provider has taken
    added,      \* observed: the flows by which the supervisor added the account
    registered, \* whether the supervisor has the account
    req,        \* the callbacks and password requests being handled
    ui,         \* the wizard: its step, and the flow it polls
    restarts    \* bound: restarts so far

vars == <<status, used, added, registered, req, ui, restarts>>
Req == 1 .. MaxReq
flows == <<status, used>>

Form    == [at |-> "form", flow |-> "none"]
Nothing == [flow |-> "none", at |-> "idle"]

Init ==
    /\ status = [f \in Flow |-> "unused"]
    /\ used = {} /\ added = {} /\ registered = FALSE
    /\ req = [r \in Req |-> Nothing] /\ ui = Form /\ restarts = 0

(* A request takes the first free slot.                                    *)
Free(r) == req[r].at = "idle" /\ \A q \in 1 .. r - 1 : req[q].at # "idle"
Known(f) == status[f] \notin {"unused", "lost"}

-----------------------------------------------------------------------------
(* The flows                                                               *)

(* The wizard asks for a flow and opens the authorize URL in a popup. A    *)
(* flow whose answer is lost is nobody's, and is left out.                 *)
Start(f) ==
    /\ ui.at = "form" /\ status[f] = "unused"
    /\ status' = [status EXCEPT ![f] = "pending"]
    /\ ui' = [Form EXCEPT !.at = "polling", !.flow = f]
    /\ UNCHANGED <<used, added, registered, req, restarts>>

Expire(f) ==
    /\ status[f] = "pending"
    /\ status' = [status EXCEPT ![f] = "stale"]
    /\ UNCHANGED <<used, added, registered, req, ui, restarts>>

(* status() turns a stale pending flow into an expired one.                *)
Refreshed(f) ==
    IF status[f] = "stale" THEN [status EXCEPT ![f] = "expired"] ELSE status

(* _mark_error, _mark_terminal and mark_success look only whether the flow *)
(* is known, never at the status it has.                                   *)
Marked(f, s) == IF f \in Flow /\ Known(f) THEN [status EXCEPT ![f] = s] ELSE status

(* The provider sends the browser back, as often as the user reloads. Only *)
(* a pending flow goes on, to the exchange of the code in a thread.        *)
Callback(r, f, answer) ==
    LET s == Refreshed(f) IN
    /\ Free(r) /\ Known(f)
    /\ IF s[f] = "pending" /\ answer = "code"
       THEN /\ req' = [req EXCEPT ![r] = [flow |-> f, at |-> "exchanging"]]
            /\ status' = s
       ELSE /\ status' = IF s[f] # "pending" THEN s
                         ELSE Marked(f, IF answer = "access_denied" THEN "denied" ELSE "error")
            /\ UNCHANGED req
    /\ UNCHANGED <<used, added, registered, ui, restarts>>

\* Slip: with the tokens in hand the flow has succeeded.
ExchangedMarked(r) ==
    /\ req[r].at = "exchanging" /\ req[r].flow \notin used
    /\ used' = used \cup {req[r].flow}
    /\ req' = [req EXCEPT ![r].at = "sent"]
    /\ status' = Marked(req[r].flow, "success")
    /\ UNCHANGED <<added, registered, ui, restarts>>

(* The provider takes a code once; the tokens go to the supervisor's add.  *)
Exchanged(r) ==
    /\ req[r].at = "exchanging" /\ req[r].flow \notin used
    /\ used' = used \cup {req[r].flow}
    /\ req' = [req EXCEPT ![r].at = "sent"]
    /\ UNCHANGED <<status, added, registered, ui, restarts>>
ExchangeFails(r) ==
    /\ req[r].at = "exchanging"
    /\ used' \in {used, used \cup {req[r].flow}}
    /\ status' = Marked(req[r].flow, "error")
    /\ req' = [req EXCEPT ![r] = Nothing]
    /\ UNCHANGED <<added, registered, ui, restarts>>

-----------------------------------------------------------------------------
(* The supervisor's add, at the end of both ways                           *)

(* The password way: the wizard cannot be closed while it verifies.        *)
Submit(r) ==
    /\ ui.at = "form" /\ Free(r)
    /\ ui' = [Form EXCEPT !.at = "verifying"]
    /\ req' = [req EXCEPT ![r] = [flow |-> "none", at |-> "sent"]]
    /\ UNCHANGED <<flows, added, registered, restarts>>

Took(r) == registered' = TRUE /\ added' = added \cup ({req[r].flow} \cap Flow)

(* An account that is there is refused; another may be, by its service.    *)
Serve(r, willing) ==
    /\ req[r].at = "sent"
    /\ IF ~registered /\ willing
       THEN Took(r) /\ req' = [req EXCEPT ![r].at = "took"]
       ELSE req' = [req EXCEPT ![r].at = "refused"] /\ UNCHANGED <<added, registered>>
    /\ UNCHANGED <<flows, ui, restarts>>

(* The outcome is marked on the flow, or answered to the waiting wizard.   *)
Tell(r, won) ==
    /\ status' = Marked(req[r].flow, IF won THEN "success" ELSE "error")
    /\ ui' = IF req[r].flow \in Flow \/ ui.at # "verifying" THEN ui
             ELSE IF won THEN [Form EXCEPT !.at = "success"] ELSE Form
    /\ req' = [req EXCEPT ![r] = Nothing]
    /\ UNCHANGED <<used, restarts>>
Answered(r) ==
    /\ req[r].at \in {"took", "refused"}
    /\ Tell(r, req[r].at = "took")
    /\ UNCHANGED <<added, registered>>

(* After 60 s the handler gives up, whatever becomes of the request.       *)
GivenUp(r) ==
    /\ req[r].at \in {"sent", "took", "refused"}
    /\ Tell(r, FALSE)
    /\ \/ UNCHANGED <<added, registered>>
       \/ req[r].at = "sent" /\ ~registered /\ Took(r)

(* A connection that closes is none of the exceptions the callback         *)
(* catches: it ends with HTTP 500 and leaves the flow as it is.            *)
CutOff(r) ==
    /\ req[r].at \in {"sent", "took", "refused"} /\ req[r].flow \in Flow
    /\ req' = [req EXCEPT ![r] = Nothing]
    /\ UNCHANGED <<flows, added, registered, ui, restarts>>

Remove ==
    /\ registered /\ registered' = FALSE
    /\ UNCHANGED <<flows, added, req, ui, restarts>>

-----------------------------------------------------------------------------
(* The wizard's polling                                                    *)

(* A tick shows the status it is answered; "lost" is the 404 that a        *)
(* restarted server answers.                                               *)
Poll ==
    /\ ui.at = "polling"
    /\ status' = IF Known(ui.flow) THEN Refreshed(ui.flow) ELSE status
    /\ ui' = CASE status'[ui.flow] \in {"pending", "stale"} -> ui
               [] status'[ui.flow] = "lost" -> [ui EXCEPT !.at = "error"]
               [] OTHER -> [ui EXCEPT !.at = status'[ui.flow]]
    /\ UNCHANGED <<used, added, registered, req, restarts>>

(* Cancel, start over after a failure, or add another after a success.     *)
Again ==
    /\ ui.at \notin {"form", "verifying"}
    /\ ui' = Form
    /\ UNCHANGED <<flows, added, registered, req, restarts>>

(* The flows live in the server's memory only.                             *)
Restart ==
    /\ restarts < MaxRestarts /\ restarts' = restarts + 1
    /\ status' = [f \in Flow |-> IF Known(f) THEN "lost" ELSE status[f]]
    /\ req' = [r \in Req |-> Nothing]
    /\ ui' = IF ui.at = "verifying" THEN Form ELSE ui
    /\ UNCHANGED <<used, added, registered>>

Next ==
    \/ \E f \in Flow : Start(f) \/ Expire(f)
    \/ \E r \in Req, f \in Flow, answer \in {"code", "access_denied", "neither"} :
           Callback(r, f, answer)
    \/ \E r \in Req : Exchanged(r) \/ ExchangeFails(r) \/ Submit(r)
    \/ \E r \in Req, willing \in BOOLEAN : Serve(r, willing)
    \/ \E r \in Req : Answered(r) \/ GivenUp(r) \/ CutOff(r)
    \/ Remove \/ Poll \/ Again \/ Restart

(* The interval ticks, timeouts pass; the user and the provider owe        *)
(* nothing.                                                                *)
Fairness ==
    /\ WF_vars(Poll)
    /\ \A f \in Flow : WF_vars(Expire(f))
    /\ \A r \in Req : WF_vars(GivenUp(r))

Spec == Init /\ [][Next]_vars /\ Fairness

-----------------------------------------------------------------------------
(* Properties                                                              *)

(* The wizard says "added" after a consent only when the supervisor added  *)
(* the account by that very flow, whatever callbacks are repeated, expire  *)
(* or outlive a restart.                                                   *)
ShownIsAdded == (ui.at = "success" /\ ui.flow \in Flow) => ui.flow \in added

(* The wizard neither verifies nor polls forever: "so the UI sees a        *)
(* terminal state instead of polling forever".                             *)
WizardAnswers == []<>(ui.at \notin {"polling", "verifying"})

(* The module's docstring, step 6: "On supervisor success, the route calls *)
(* mark_success and the UI's poll loop sees status=success next tick."     *)
SuccessIsSeen ==
    [][\A f \in Flow : (Poll /\ ui.flow = f /\ status[f] # "lost"
                          /\ f \in added /\ ~\E r \in Req : req[r].flow = f)
          => ui'.at = "success"]_vars
=============================================================================
