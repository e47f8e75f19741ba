-------------------------------- MODULE Desktop --------------------------------
(***************************************************************************)
(* The user's desktop: the tool calls and the route that check, restart    *)
(* and start it (src/tools/desktop/_lifecycle.py) and the commands they    *)
(* run on it (_exec.py, _tools.py). Resolutions, settling and the          *)
(* accessibility tree are left out; an observation never fails.            *)
(***************************************************************************)
EXTENDS Integers, Sequences

CONSTANTS
    Call,         \* tool calls and requests of the start route
    None,
    MaxFailures   \* bound: hangs, deaths and commands that take too long

VARIABLES
    desk,         \* the processes of the user's desktop: "none", "up" or "hung"
    call,         \* each call: where it is, its step in a script, what it launched
    pointer,      \* the call that the pointer was last moved for
    landed,       \* observed: whose position each call's button press landed on
    failures      \* bound: failures so far

vars == <<desk, call, pointer, landed, failures>>

\* The scripts of stop_desktop and _build_desktop_cmd, a program per step.
StopScript  == <<"websockify", "x11vnc", "startxfce4", "Xvfb">>
StartScript == <<"Xvfb", "startxfce4", "x11vnc", "websockify">>
Program == {"Xvfb", "startxfce4", "x11vnc", "websockify"}

Running == desk["Xvfb"] = "up" /\ desk["x11vnc"] = "up"
Alive   == desk["Xvfb"] # "none" /\ desk["x11vnc"] # "none"

(* Xvfb runs from the container's start; the rest when it is enabled.      *)
Init ==
    /\ \E on \in {"none", "up"} :
          desk = [w \in Program |-> IF w = "Xvfb" THEN "up" ELSE on]
    /\ call = [c \in Call |-> [at |-> "idle", step |-> 1, mine |-> {}, restart |-> FALSE]]
    /\ pointer = None /\ landed = [c \in Call |-> None] /\ failures = 0

Goto(c, at) == call' = [call EXCEPT ![c].at = at]
Leave(c, at) == call' = [call EXCEPT ![c].at = at, ![c].step = 1, ![c].mine = {}]
Fails == failures < MaxFailures /\ failures' = failures + 1

-----------------------------------------------------------------------------
(* Ensuring the desktop                                                    *)

(* A tool call checks the desktop first; the route starts it.              *)
Ensure(c) ==
    /\ call[c].at = "idle" /\ Goto(c, "check")
    /\ UNCHANGED <<desk, pointer, landed, failures>>
StartRoute(c) ==
    /\ call[c].at = "idle" /\ Goto(c, "start")
    /\ UNCHANGED <<desk, pointer, landed, failures>>

(* is_desktop_running: a check that takes five seconds counts as a no.     *)
Check(c) ==
    /\ call[c].at = "check"
    /\ \/ Goto(c, IF Running THEN "ready" ELSE "look") /\ UNCHANGED failures
       \/ Running /\ Goto(c, "look") /\ Fails
    /\ UNCHANGED <<desk, pointer, landed>>

(* _are_desktop_processes_alive: what lives but does not answer is stopped *)
(* and started again, anything else is waited for.                         *)
Look(c) ==
    /\ call[c].at = "look"
    /\ IF Alive THEN call' = [call EXCEPT ![c].at = "stopping", ![c].restart = TRUE]
       ELSE Goto(c, "polling")
    /\ UNCHANGED <<desk, pointer, landed, failures>>

(* A poll finds the desktop, or _STARTUP_TIMEOUT_S passes without it.      *)
Poll(c) ==
    /\ call[c].at = "polling"
    /\ Leave(c, IF Running THEN "ready" ELSE "failed")
    /\ UNCHANGED <<desk, pointer, landed, failures>>

\* The shells whose command line has the word that pkill -f looks for.
Matching(w) == {c \in Call : call[c].at \in {"stopping", "launching"}}

(* stop_desktop: each pkill ends what matches, the shells of these scripts *)
(* and the one it runs in among them; a shell that is killed is no error.  *)
Pkill(c) ==
    LET w == StopScript[call[c].step] IN
    /\ call[c].at = "stopping"
    /\ desk' = [desk EXCEPT ![w] = "none"]
    /\ call' = [d \in Call |->
          IF d \in Matching(w)
          THEN [call[d] EXCEPT !.at = IF @ = "stopping" THEN "start" ELSE "launched", !.step = 1]
          ELSE IF d # c THEN call[d]
          ELSE IF call[c].step < Len(StopScript) THEN [call[c] EXCEPT !.step = @ + 1]
          ELSE [call[c] EXCEPT !.at = "start", !.step = 1]]
    /\ UNCHANGED <<pointer, landed, failures>>

(* start_desktop: nothing is launched when the desktop answers.            *)
Start(c) ==
    /\ call[c].at = "start"
    /\ IF Running THEN Leave(c, "ready") ELSE Goto(c, "launching")
    /\ UNCHANGED <<desk, pointer, landed, failures>>

\* Slip: the script waits for the X server to answer.
LaunchAwaited(c) ==
    LET w == StartScript[call[c].step] IN
    /\ call[c].at = "launching" /\ desk["Xvfb"] # "hung"
    /\ desk' = [desk EXCEPT ![w] = IF @ = "none" THEN "up" ELSE @]
    /\ call' = [call EXCEPT
          ![c].mine = IF desk[w] = "none" THEN @ \cup {w} ELSE @,
          ![c].at = IF call[c].step = Len(StartScript) THEN "launched" ELSE @,
          ![c].step = IF @ = Len(StartScript) THEN 1 ELSE @ + 1]
    /\ UNCHANGED <<pointer, landed, failures>>
(* The script starts its programs one by one; one that finds its display   *)
(* or port taken ends at once.                                             *)
Launch(c) ==
    LET w == StartScript[call[c].step]
        starts == desk[w] = "none" IN
    /\ call[c].at = "launching"
    /\ desk' = [desk EXCEPT ![w] = IF starts THEN "up" ELSE @]
    /\ call' = [call EXCEPT
          ![c].mine = IF starts THEN @ \cup {w} ELSE @,
          ![c].at = IF call[c].step = Len(StartScript) THEN "launched" ELSE @,
          ![c].step = IF @ = Len(StartScript) THEN 1 ELSE @ + 1]
    /\ UNCHANGED <<pointer, landed, failures>>

(* _run_desktop_cmd reads the output to its end, which the programs in the *)
(* background hold open: while one of them lives, it times out.            *)
Launched(c) ==
    /\ call[c].at = "launched"
    /\ IF \E w \in call[c].mine : desk[w] # "none" THEN Leave(c, "failed") ELSE Leave(c, "polling")
    /\ UNCHANGED <<desk, pointer, landed, failures>>

-----------------------------------------------------------------------------
(* Using it                                                                *)

(* xdotool moves the pointer, then presses the button: two requests of one *)
(* command, with the other calls' commands between them.                   *)
Aim(c) ==
    /\ call[c].at = "ready"
    /\ pointer' = c /\ Goto(c, "aimed")
    /\ UNCHANGED <<desk, landed, failures>>
Press(c) ==
    /\ call[c].at \in {"aimed", "late"}
    /\ landed' = [landed EXCEPT ![c] = pointer]
    /\ Goto(c, IF call[c].at = "late" THEN "failed" ELSE "done")
    /\ UNCHANGED <<desk, pointer, failures>>

(* A command that takes too long fails the call, and runs on.              *)
TooLong(c) ==
    /\ call[c].at = "aimed" /\ Fails /\ Goto(c, "late")
    /\ UNCHANGED <<desk, pointer, landed>>

-----------------------------------------------------------------------------
(* Xvfb stops answering, or the desktop's processes are killed.            *)
Hang ==
    /\ desk["Xvfb"] = "up" /\ Fails /\ desk' = [desk EXCEPT !["Xvfb"] = "hung"]
    /\ UNCHANGED <<call, pointer, landed>>
Die ==
    /\ desk["Xvfb"] # "none" /\ Fails /\ desk' = [w \in Program |-> "none"]
    /\ UNCHANGED <<call, pointer, landed>>

Goes(c) ==
    \/ Check(c) \/ Look(c) \/ Poll(c) \/ Pkill(c) \/ Start(c) \/ Launch(c) \/ Launched(c)
    \/ Aim(c) \/ Press(c)
Next ==
    \/ \E c \in Call : Ensure(c) \/ StartRoute(c) \/ Goes(c) \/ TooLong(c)
    \/ Hang \/ Die

(* Commands end and timers go off; nothing need hang or take too long.     *)
Fairness == \A c \in Call : WF_vars(Goes(c))
Spec == Init /\ [][Next]_vars /\ Fairness

-----------------------------------------------------------------------------
TypeOK ==
    /\ desk \in [Program -> {"none", "up", "hung"}]
    /\ \A c \in Call : call[c].step \in 1..4 /\ call[c].mine \subseteq Program
    /\ pointer \in Call \cup {None} /\ landed \in [Call -> Call \cup {None}]

(* Every call comes back, whatever state the desktop is in and whoever     *)
(* else stops and starts it (ensure_desktop_running, start_desktop).       *)
DesktopCallsEnd == \A c \in Call : []<>(call[c].at \in {"idle", "done", "failed"})

(* "Stop the desktop environment processes in the container": a restart    *)
(* begins with the server that did not answer gone (stop_desktop).         *)
StopStopsTheDesktop ==
    \A c \in Call : call[c].at = "start" /\ call[c].restart => desk["Xvfb"] = "none"

(* "Click at the specified coordinates": a click lands where it was aimed. *)
ClicksLandWhereAimed == \A c \in Call : call[c].at = "done" => landed[c] = c
=============================================================================
