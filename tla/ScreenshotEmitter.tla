-------------------------- MODULE ScreenshotEmitter --------------------------
(***************************************************************************)
(* The live pictures of the browser (src/tools/browser/events.py): tools   *)
(* of all agents ask one emitter for pictures of their pages while they    *)
(* move the pointer, type and scroll (human.py), and wait for the last one *)
(* at the end. The throttle and the pictures themselves are left out.      *)
(***************************************************************************)
EXTENDS Naturals

CONSTANTS
    Agent,        \* agents with a page each
    None

VARIABLES
    tool,         \* each agent's tool: "idle", "acting", "flushing", "ended"
    task,         \* _task: "none", "waiting" in the throttle, "capturing"
    pending,      \* _pending_page: the agent whose page it is
    newer,        \* whether _generation has moved since the capture began
    shot,         \* the page being captured
    context,      \* the agent in whose context the task was created
    due,          \* observed: the agents that asked since their page was last captured
    last,         \* observed: the page and the agent of the picture published last
    asked         \* bound: pictures each tool asked for

vars == <<tool, task, pending, newer, shot, context, due, last, asked>>
capture == <<task, pending, newer, shot, context, due, last>>

CONSTANT MaxAsked \* bound

Init ==
    /\ tool = [a \in Agent |-> "idle"] /\ task = "none" /\ pending = None
    /\ newer = FALSE /\ shot = None /\ context = None /\ due = {}
    /\ last = <<None, None>> /\ asked = [a \in Agent |-> 0]

(* A tool begins its interaction.                                          *)
Begin(a) ==
    /\ tool[a] \in {"idle", "ended"}
    /\ tool' = [tool EXCEPT ![a] = "acting"] /\ asked' = [asked EXCEPT ![a] = 0]
    /\ UNCHANGED capture

(* request: a running task takes up the page, else one is created, which   *)
(* keeps the context (dispatcher and agent) of whoever created it.         *)
Request(a) ==
    /\ tool[a] = "acting" /\ asked[a] < MaxAsked
    /\ asked' = [asked EXCEPT ![a] = @ + 1]
    /\ pending' = a /\ due' = due \cup {a} /\ newer' = TRUE
    /\ IF task # "none" THEN UNCHANGED <<task, context>>
       ELSE task' = "waiting" /\ context' = a
    /\ UNCHANGED <<tool, shot, last>>

(* _run: the latest page is captured, and again while requests came in.    *)
Capture ==
    /\ task = "waiting"
    /\ task' = "capturing" /\ shot' = pending /\ newer' = FALSE /\ due' = due \ {pending}
    /\ UNCHANGED <<tool, pending, context, last, asked>>

Waiting == [a \in Agent |-> IF tool[a] = "flushing" THEN "ended" ELSE tool[a]]
\* Slip: a request that came during the capture is left to the next one.
OnceOnly ==
    /\ task = "capturing" /\ last' = <<shot, context>>
    /\ task' = "none" /\ tool' = Waiting
    /\ UNCHANGED <<pending, newer, shot, context, due, asked>>
(* A picture, or a capture that failed, ends the task unless requests came *)
(* in; the tools that wait for the task go on when it ends.                *)
Captured ==
    /\ task = "capturing" /\ last' = <<shot, context>>
    /\ IF newer THEN task' = "waiting" /\ UNCHANGED tool
       ELSE task' = "none" /\ tool' = Waiting
    /\ UNCHANGED <<pending, newer, shot, context, due, asked>>

(* flush_progressive_screenshot, after the action.                         *)
Flush(a) ==
    /\ tool[a] = "acting"
    /\ tool' = [tool EXCEPT ![a] = IF task = "none" THEN "ended" ELSE "flushing"]
    /\ UNCHANGED <<capture, asked>>

Next == Capture \/ Captured \/ \E a \in Agent : Begin(a) \/ Request(a) \/ Flush(a)

(* The event loop runs the task, each capture is limited to five seconds,  *)
(* and an action comes to its end; that a tool is called again is not.     *)
Fairness == WF_vars(Capture) /\ WF_vars(Captured) /\ \A a \in Agent : WF_vars(Flush(a))
Spec == Init /\ [][Next]_vars /\ Fairness

-----------------------------------------------------------------------------
(* A tool does not return before the picture it asked for last has been    *)
(* taken, unless another tool's page was asked for since (the generation   *)
(* counter against a capture slower than the requests).                    *)
LastFrameIsTaken == \A a \in Agent : tool[a] = "ended" /\ a \in due => pending # a

(* A picture is published as that of the agent whose page it shows.        *)
ShownUnderItsAgent == last[1] = last[2]
(* "The final frame is emitted before the tool returns."                   *)
FinalFrameIsEmitted == \A a \in Agent : tool[a] = "ended" => a \notin due
=============================================================================
