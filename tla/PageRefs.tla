------------------------------- MODULE PageRefs -------------------------------
(***************************************************************************)
(* Which element a tool of the browser acts on. A view of the page stamps  *)
(* the elements it lists with numbers (src/tools/browser/core/page_view.py)*)
(* and a later call names one of them; which document is viewed, the page  *)
(* or a frame that covers much of it, is decided on the way (browser.py).  *)
(* What the elements are, and how a view is worded, is left out.           *)
(***************************************************************************)
EXTENDS Naturals, FiniteSets

CONSTANTS
    Element,      \* numbers, in document order
    Inner,        \* the elements of the iframe
    Shadow,       \* the elements in shadow roots
    Call,         \* tool calls of the agent
    Parallel,     \* whether one answer of the model may hold several calls
    Budget,       \* scroll_hard_limit
    MaxChanges    \* bound: loads, scrolls and other things that change the page

VARIABLES
    url,          \* the page's address, a count of its navigations
    iframe,       \* "none", "small", "large"
    active,       \* _active_frame: "main" for None
    inView,       \* elements that a view would list
    stamp,        \* the data-ct-ref of each element, 0 without one
    listed,       \* what the last view of each document lists: the numbers
    shown,        \* the view the model was answered last
    call,         \* each tool call
    hit,          \* observed: the element each call acted on
    scrolls,      \* observed: scrolls on this address
    changes       \* bound: changes of the page so far

page == <<url, iframe, inView, stamp>>
vars == <<url, iframe, active, inView, stamp, listed, shown, call, hit, scrolls, changes>>

Nothing  == [e \in Element |-> 0]
NoView   == [doc |-> "main", refs |-> Nothing]
Idle     == [at |-> "idle", tool |-> "browse", doc |-> "main", ref |-> 0, from |-> 0, saw |-> NoView]
Docs     == {"main", "frame"}
InDoc(d) == IF d = "main" THEN Element \ Inner ELSE IF iframe = "none" THEN {} ELSE Inner
Running  == {c \in Call : call[c].at \notin {"idle", "done", "error"}}

Init ==
    /\ url = 1 /\ iframe = "none" /\ active = "main" /\ inView \in SUBSET Element
    /\ stamp = Nothing /\ listed = [d \in Docs |-> Nothing] /\ shown = NoView
    /\ call = [c \in Call |-> Idle] /\ hit = [c \in Call |-> 0]
    /\ scrolls = 0 /\ changes = 0

-----------------------------------------------------------------------------
(* The page                                                                *)

(* A new document: none of its elements is stamped, its frames are new.    *)
Loads ==
    /\ url' = url + 1 /\ iframe' \in {"none", "small", "large"} /\ inView' \in SUBSET Element
    /\ stamp' = Nothing /\ listed' = [d \in Docs |-> Nothing] /\ scrolls' = 0
Bounded == changes < MaxChanges /\ changes' = changes + 1

(* Scripts show and hide elements and frames; a frame that goes away takes *)
(* its elements and their stamps along.                                    *)
Changes ==
    /\ Bounded
    /\ inView' \in SUBSET Element /\ iframe' \in {"none", "small", "large"}
    /\ IF iframe' = "none"
       THEN stamp' = [e \in Element |-> IF e \in Inner THEN 0 ELSE stamp[e]]
            /\ listed' = [listed EXCEPT !["frame"] = Nothing]
       ELSE UNCHANGED <<stamp, listed>>
    /\ active' = IF iframe' = "none" THEN "main" ELSE active
    /\ UNCHANGED <<url, shown, hit, scrolls>>
PageChanges == Changes /\ UNCHANGED call
PageNavigates ==
    /\ Bounded /\ Loads
    /\ active' = "main"
    /\ UNCHANGED <<shown, call, hit>>

-----------------------------------------------------------------------------
(* Which document a tool works on                                          *)

(* _detect_dominant_frame: a frame over a quarter of the viewport.         *)
Dominant == IF iframe = "large" THEN "frame" ELSE "main"
(* active_view: the tracked frame while attached, else what is dominant.   *)
ActiveView == IF active = "frame" /\ iframe # "none" THEN "frame" ELSE Dominant
(* _finalize_action: a page that navigated is viewed as a whole.           *)
Settled(c) == IF url # call[c].from THEN "main" ELSE Dominant

\* What a step leaves behind is forgotten; what was clicked stays observed.
Goto(c, at) ==
    call' = [call EXCEPT ![c] =
        CASE at \in {"acted", "found"} -> [call[c] EXCEPT !.at = at]
          [] call[c].tool = "act" -> [call[c] EXCEPT !.at = at, !.from = 0]
          [] OTHER -> [Idle EXCEPT !.at = at]]

-----------------------------------------------------------------------------
(* A view                                                                  *)

(* What is listed: interactive elements that are shown.                    *)
Listed(d) == inView \cap InDoc(d)
Numbered(d) ==
    LET vis == Listed(d)
    IN  [e \in Element |-> IF e \in vis THEN Cardinality({x \in vis : x <= e}) ELSE 0]

\* Slip: stamps of earlier views are left.
StampOver(d) ==
    stamp' = [e \in Element |-> IF Numbered(d)[e] # 0 THEN Numbered(d)[e] ELSE stamp[e]]
(* The snapshot's script: the document's stamps are removed, except those  *)
(* in shadow roots, which querySelectorAll does not enter, and the listed  *)
(* elements are stamped in document order, those in shadow roots too.      *)
Stamp(d) ==
    stamp' = [e \in Element |-> IF Numbered(d)[e] # 0 THEN Numbered(d)[e]
                                ELSE IF e \in InDoc(d) \ Shadow THEN 0 ELSE stamp[e]]

(* build_page_view of the active view, which the model is answered; when   *)
(* the script fails the answer has no elements.                            *)
View(c) ==
    /\ active' = ActiveView
    /\ \/ /\ Stamp(ActiveView)
          /\ listed' = [listed EXCEPT ![ActiveView] = Numbered(ActiveView)]
          /\ shown' = [doc |-> ActiveView, refs |-> Numbered(ActiveView)]
       \/ shown' = [doc |-> ActiveView, refs |-> Nothing] /\ UNCHANGED <<stamp, listed>>
    /\ Goto(c, "done")
    /\ UNCHANGED <<url, iframe, inView, hit, scrolls, changes>>

-----------------------------------------------------------------------------
(* The tools                                                               *)

\* The calls of one answer are all issued before any of them runs.
Issued(c, tool, ref) ==
    /\ call[c].at = "idle" /\ (Parallel \/ Running = {})
    /\ \A x \in Call : call[x].at \in {"idle", "issued"}
    /\ call' = [call EXCEPT ![c] = [Idle EXCEPT !.at = "issued", !.tool = tool, !.ref = ref,
                                                !.saw = IF tool = "act" THEN shown ELSE NoView]]
    /\ UNCHANGED <<url, iframe, active, inView, stamp, listed, shown, hit, scrolls, changes>>
Issue(c) ==
    \/ \E e \in Element : shown.refs[e] # 0 /\ Issued(c, "act", shown.refs[e])
    \/ \E tool \in {"browse", "scroll", "open", "back", "script"} : Issued(c, tool, 0)

(* browse_page: the active view, at once.                                  *)
Browse(c) == call[c].at = "issued" /\ call[c].tool = "browse" /\ View(c)

(* open_url and navigate: the tracked frame is forgotten, then the load.   *)
Open(c) ==
    /\ call[c].at = "issued" /\ call[c].tool = "open"
    /\ Bounded /\ Loads /\ active' = "main"
    /\ call' = [call EXCEPT ![c].from = url, ![c].at = "acted"]
    /\ UNCHANGED <<shown, hit>>

(* go_back: a load, or nothing in ten seconds where scripts do it.         *)
Back(c) ==
    /\ call[c].at = "issued" /\ call[c].tool = "back"
    /\ active' = ActiveView
    /\ \/ Bounded /\ Loads
       \/ UNCHANGED <<page, listed, scrolls, changes>>
    /\ call' = [call EXCEPT ![c].from = url, ![c].at = "acted"]
    /\ UNCHANGED <<shown, hit>>

(* execute_javascript: the answer is the script's result, and no view.     *)
RunScript(c) ==
    /\ call[c].at = "issued" /\ call[c].tool = "script"
    /\ \/ Changes
       \/ active' = ActiveView /\ UNCHANGED <<page, listed, shown, hit, scrolls, changes>>
    /\ Goto(c, "done")

(* click, press_and_hold, drag, fill_field, select_option: the number is   *)
(* looked up in the active view; without a match the tool says so.         *)
Matches(d, n) == {e \in InDoc(d) : stamp[e] = n}
Resolve(c) ==
    /\ call[c].at = "issued" /\ call[c].tool = "act"
    /\ active' = ActiveView
    /\ call' = [call EXCEPT ![c].doc = ActiveView, ![c].from = url,
                            ![c].at = IF Matches(ActiveView, call[c].ref) = {} THEN "error" ELSE "found"]
    /\ UNCHANGED <<page, listed, shown, hit, scrolls, changes>>

(* The locator is lazy: its first match when the action runs.              *)
Target(c) == CHOOSE e \in Matches(call[c].doc, call[c].ref) :
                 \A x \in Matches(call[c].doc, call[c].ref) : e <= x
Act(c) ==
    /\ call[c].at = "found"
    /\ IF Matches(call[c].doc, call[c].ref) = {} THEN Goto(c, "error") /\ UNCHANGED hit
       ELSE Goto(c, "acted") /\ hit' = [hit EXCEPT ![c] = Target(c)]
    /\ UNCHANGED <<page, active, listed, shown, scrolls, changes>>

(* scroll_page: the count is kept in a context variable, and every tool    *)
(* call runs in a task of its own (asyncio.gather), in a copy of the       *)
(* context: the count it reads is the one before the turn's first call.    *)
ScrollCount == 0
Scroll(c) ==
    /\ call[c].at = "issued" /\ call[c].tool = "scroll"
    /\ active' = ActiveView
    /\ IF ScrollCount >= Budget THEN Goto(c, "error") /\ UNCHANGED <<inView, scrolls>>
       ELSE /\ inView' \in SUBSET Element /\ scrolls' = scrolls + 1
            /\ call' = [call EXCEPT ![c].from = url, ![c].at = "acted"]
    /\ Bounded
    /\ UNCHANGED <<url, iframe, stamp, listed, shown, hit>>

(* The end of perform_interaction and of navigate: after a download the    *)
(* answer is the file's name; a detection that fails changes nothing; a    *)
(* page that was loaded again has the address it had.                      *)
Finalize(c) ==
    /\ call[c].at = "acted"
    /\ \/ active' \in {Settled(c), Dominant} /\ Goto(c, "settled")
       \/ url = call[c].from /\ UNCHANGED active /\ Goto(c, "settled")
       \/ active' = "main" /\ Goto(c, "done")
    /\ UNCHANGED <<page, listed, shown, hit, scrolls, changes>>
Answer(c) == call[c].at = "settled" /\ View(c)

(* The model's next answer may hold further calls.                         *)
Again(c) ==
    /\ call[c].at \in {"done", "error"} /\ Running = {}
    /\ call' = [call EXCEPT ![c] = Idle] /\ hit' = [hit EXCEPT ![c] = 0]
    /\ UNCHANGED <<page, active, listed, shown, scrolls, changes>>

Next ==
    \/ PageChanges \/ PageNavigates
    \/ \E c \in Call : \/ Issue(c) \/ Browse(c) \/ Open(c) \/ Back(c) \/ RunScript(c)
                       \/ Resolve(c) \/ Act(c) \/ Scroll(c) \/ Finalize(c) \/ Answer(c) \/ Again(c)
Spec == Init /\ [][Next]_vars

-----------------------------------------------------------------------------
TypeOK ==
    /\ url \in Nat /\ iframe \in {"none", "small", "large"} /\ active \in Docs
    /\ inView \subseteq Element /\ stamp \in [Element -> Nat]
    /\ listed \in [Docs -> [Element -> Nat]]
    /\ \A c \in Call : hit[c] \in Element \cup {0}

(* A number means one element: whatever views, scrolls, scripts and other  *)
(* calls came between, the element a call acts on carries the number in    *)
(* the latest view of its document (the clean-up in the snapshot script).  *)
ActsOnListed ==
    [][(\A c \in Call : hit'[c] # hit[c] /\ hit'[c] # 0 =>
            listed[call[c].doc][hit'[c]] = call[c].ref)]_vars

(* A call acts on the element that the view the model answered to lists    *)
(* under the number ("Ref number from browse_page() output").              *)
ClicksWhatItSaw ==
    \A c \in Call : hit[c] # 0 => call[c].saw.refs[hit[c]] = call[c].ref

(* "After the hard limit, scrolling is refused."                           *)
ScrollsAreLimited == scrolls <= Budget
=============================================================================
