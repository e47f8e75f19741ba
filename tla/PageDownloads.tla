----------------------------- MODULE PageDownloads -----------------------------
(***************************************************************************)
(* How a tool of the browser finds out that its action downloaded a file   *)
(* (src/tools/browser/core/browser.py): captures run as tasks of their own *)
(* and leave what they saved in a list that all calls on the page share,   *)
(* and a call looks there three times on its way to its answer. The files  *)
(* and the waits for the page to settle are left out.                      *)
(***************************************************************************)
EXTENDS Naturals, Sequences, FiniteSets

CONSTANTS
    Call,         \* tool calls on the page
    File,         \* downloads that pages may start
    None

VARIABLES
    file,         \* each download: "none", "running", "saved", "failed"
    tab,          \* the tab a download opened in: "page", "new", "closed"
    pending,      \* _pending_downloads
    event,        \* _download_event
    call          \* each call: where it is, and what it has seen

vars == <<file, tab, pending, event, call>>

Idle == [at |-> "idle", saw |-> FALSE, tabs |-> {}, waits |-> {}, onTab |-> FALSE,
         told |-> None, late |-> FALSE, alone |-> TRUE]
Out     == {"idle", "ended", "raised"}
Looking == {"acting", "loading", "tabs", "gather", "first", "settle", "late"}
Running == {c \in Call : call[c].at \notin Out}
Tasks   == {f \in File : file[f] = "running"}

Init ==
    /\ file = [f \in File |-> "none"] /\ tab = [f \in File |-> "page"]
    /\ pending = <<>> /\ event = FALSE /\ call = [c \in Call |-> Idle]

Goto(c, at) == call' = [call EXCEPT ![c].at = at]
End(c, at)  == call' = [call EXCEPT ![c] = [Idle EXCEPT !.at = at, !.told = call[c].told,
                                                       !.late = call[c].late, !.alone = call[c].alone]]

-----------------------------------------------------------------------------
(* The page and the captures                                               *)

(* A page starts a download, in a tab of its own perhaps; calls that still *)
(* listen see the attachment header and the tab.                           *)
Starts(f) ==
    /\ file[f] = "none" /\ Running # {}
    /\ file' = [file EXCEPT ![f] = "running"]
    /\ \E t \in {"page", "new"}, header \in BOOLEAN :
          /\ tab[f] = "new" => t = "new"
          /\ tab' = [tab EXCEPT ![f] = t]
          /\ call' = [c \in Call |-> IF call[c].at # "acting" THEN call[c]
                ELSE [call[c] EXCEPT !.saw = @ \/ header,
                                     !.tabs = IF t = "new" THEN @ \cup {f} ELSE @]]
    /\ UNCHANGED <<pending, event>>

(* A tab opens with no download of its own; its address may be a file's.   *)
PopsUp(f) ==
    /\ file[f] = "none" /\ tab[f] = "page" /\ \E c \in Call : call[c].at = "acting"
    /\ tab' = [tab EXCEPT ![f] = "new"]
    /\ call' = [c \in Call |-> IF call[c].at # "acting" THEN call[c]
                               ELSE [call[c] EXCEPT !.tabs = @ \cup {f}]]
    /\ UNCHANGED <<file, pending, event>>

(* _handle_download: the file is renamed, listed and announced; a download *)
(* that fails is logged.                                                   *)
Saved(f) ==
    /\ file[f] = "running" /\ file' = [file EXCEPT ![f] = "saved"]
    /\ pending' = Append(pending, f) /\ event' = TRUE
    /\ call' = [c \in Call |-> IF call[c].at \in Looking THEN [call[c] EXCEPT !.late = TRUE]
                               ELSE call[c]]
    /\ UNCHANGED tab
CaptureFails(f) ==
    /\ file[f] = "running" /\ file' = [file EXCEPT ![f] = "failed"]
    /\ UNCHANGED <<tab, pending, event, call>>

-----------------------------------------------------------------------------
(* A call                                                                  *)

(* perform_interaction and navigate forget what was left in the list; the  *)
(* first also resets the event.                                            *)
Begin(c, tool) ==
    /\ call[c].at = "idle"
    /\ pending' = <<>> /\ event' = (event /\ tool = "open")
    /\ call' = [x \in Call |->
          IF x = c THEN [Idle EXCEPT !.alone = (Running = {}),
                                     !.at = IF tool = "open" THEN "loading" ELSE "acting"]
          ELSE [call[x] EXCEPT !.alone = @ /\ x \notin Running]]
    /\ UNCHANGED <<file, tab>>

(* An action, or a load, that raises ends the call there and then.         *)
Raises(c) ==
    /\ call[c].at \in {"acting", "loading"} /\ End(c, "raised")
    /\ UNCHANGED <<file, tab, pending, event>>
(* The action is over: the listeners go; a tab that opened meanwhile is    *)
(* waited for.                                                             *)
Acted(c) ==
    /\ call[c].at \in {"acting", "loading"}
    /\ Goto(c, IF call[c].tabs # {} THEN "tabs" ELSE "gather")
    /\ UNCHANGED <<file, tab, pending, event>>
(* The new tab is what the call is about when something came of it, and    *)
(* otherwise its address is fetched: a file found there is listed.         *)
Probe(c) ==
    /\ call[c].at = "tabs"
    /\ \/ /\ pending # <<>> \/ Tasks # {}
          /\ call' = [call EXCEPT ![c].at = "gather", ![c].onTab = TRUE]
          /\ UNCHANGED <<file, pending>>
       \/ pending = <<>> /\ Tasks = {} /\ Goto(c, "gather") /\ UNCHANGED <<file, pending>>
       \/ \E f \in call[c].tabs :
             /\ pending = <<>> /\ Tasks = {} /\ file[f] = "none"
             /\ file' = [file EXCEPT ![f] = "saved"] /\ pending' = <<f>>
             /\ call' = [call EXCEPT ![c].at = "gather", ![c].onTab = TRUE, ![c].late = TRUE]
    /\ UNCHANGED <<tab, event>>

(* _finalize_action first awaits the captures under way, then looks.       *)
Await(c) ==
    /\ \/ call[c].at = "gather" /\ call' = [call EXCEPT ![c].at = "first", ![c].waits = Tasks]
       \/ call[c].at = "grace" /\ event
          /\ call' = [call EXCEPT ![c].at = "last", ![c].waits = Tasks]
    /\ UNCHANGED <<file, tab, pending, event>>
(* wait_for_page_settle: network, fonts, nodes and animations, each waited *)
(* for within its limit; then the captures once more.                      *)
Settle(c) ==
    /\ call[c].at = "settle" /\ call' = [call EXCEPT ![c].at = "late", ![c].waits = Tasks]
    /\ UNCHANGED <<file, tab, pending, event>>

(* drain_downloads: the list is emptied, its first entry reported.         *)
Drain(c, next) ==
    /\ IF pending # <<>>
       THEN call' = [call EXCEPT ![c].told = Head(pending), ![c].at = "frame"]
       ELSE Goto(c, next)
    /\ pending' = <<>>
Look(c, at, next) ==
    /\ call[c].at = at /\ \A f \in call[c].waits : file[f] # "running"
    /\ Drain(c, next)
    /\ UNCHANGED <<file, tab, event>>
First(c) == Look(c, "first", "settle")
(* With nothing in the list, a response that is a file is saved itself.    *)
FromResponse(c) ==
    /\ call[c].at = "first" /\ pending = <<>> /\ \A f \in call[c].waits : file[f] # "running"
    /\ \E f \in File :
          /\ file[f] = "none" /\ file' = [file EXCEPT ![f] = "saved"]
          /\ call' = [call EXCEPT ![c].told = f, ![c].at = "frame"]
    /\ UNCHANGED <<tab, pending, event>>
AfterSettling(c) == IF call[c].saw THEN "grace" ELSE "frame"
\* Slip: what arrived while the page settled is not looked for.
LateUnseen(c) ==
    /\ call[c].at = "late" /\ Goto(c, AfterSettling(c))
    /\ UNCHANGED <<file, tab, pending, event>>
(* While the page settled, a redirect may have become a download.          *)
Late(c) == Look(c, "late", AfterSettling(c))
Last(c) == Look(c, "last", "frame")

(* Two seconds without the announced download.                             *)
GraceEnds(c) ==
    /\ call[c].at = "grace"
    /\ call' = [call EXCEPT ![c].at = "last", ![c].waits = Tasks]
    /\ UNCHANGED <<file, tab, pending, event>>

(* The frame is chosen and the answer given; the tab of a download closes. *)
Answer(c) ==
    /\ call[c].at = "frame"
    /\ tab' = IF call[c].told # None /\ call[c].onTab
              THEN [f \in File |-> IF f \in call[c].tabs THEN "closed" ELSE tab[f]] ELSE tab
    /\ End(c, "ended")
    /\ UNCHANGED <<file, pending, event>>

Next ==
    \/ \E f \in File : Starts(f) \/ PopsUp(f) \/ Saved(f) \/ CaptureFails(f)
    \/ \E c \in Call : \/ Begin(c, "act") \/ Begin(c, "open") \/ Raises(c) \/ Acted(c) \/ Probe(c)
                       \/ Await(c) \/ Settle(c) \/ First(c) \/ FromResponse(c) \/ Late(c) \/ Last(c)
                       \/ GraceEnds(c) \/ Answer(c)

(* Actions and waits come to an end, and so do downloads: path() has no    *)
(* time limit of its own.                                                  *)
Fairness ==
    /\ \A f \in File : WF_vars(Saved(f) \/ CaptureFails(f))
    /\ \A c \in Call : WF_vars(Acted(c) \/ Probe(c) \/ Await(c) \/ Settle(c) \/ First(c) \/ Late(c)
                               \/ Last(c) \/ GraceEnds(c) \/ Answer(c))
Spec == Init /\ [][Next]_vars /\ Fairness

-----------------------------------------------------------------------------
(* A file is reported by one call, though the calls that run side by side  *)
(* look for theirs in one list (drain_downloads).                          *)
ReportedOnce == \A c, d \in Call : call[c].told = call[d].told /\ call[c].told # None => c = d

(* A call that had the page to itself and during which a file was saved,   *)
(* up to the second look, reports a file and no page (the three looks of   *)
(* _finalize_action).                                                      *)
SavedIsReported ==
    \A c \in Call : call[c].at = "ended" /\ call[c].alone /\ call[c].late => call[c].told # None

(* Every call is answered once its downloads are.                          *)
PageCallsEnd == \A c \in Call : []<>(call[c].at \in Out)

(* "Close that tab so the agent returns to the original page."             *)
ReturnsToItsPage ==
    \A c \in Call : call[c].at = "ended" /\ call[c].told # None => tab[call[c].told] # "new"
=============================================================================
