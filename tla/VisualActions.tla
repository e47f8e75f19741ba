---------------------------- MODULE VisualActions ----------------------------
(***************************************************************************)
(* An action that a vision model decides: a tool call takes a screenshot,  *)
(* leaves it in a file (src/tools/_grounding.py), runs the client process  *)
(* that finds, starts or restarts the grounding server                     *)
(* (src/container/grounding_client.py), and carries out what the server    *)
(* (src/container/grounding_server.py) reads off the file. The prompt, the *)
(* parsing and the coordinates of the answer are left out.                 *)
(***************************************************************************)
EXTENDS Integers, FiniteSets

CONSTANTS
    Call,         \* tool calls, of any agent
    Tool,         \* the tool of each: "desktop" or "browser"
    Server,       \* process ids of servers
    None,
    MaxStarts,    \* _MAX_START_ATTEMPTS
    MaxFailures   \* bound: servers that die, answers that fail, deadlines that pass

VARIABLES
    shot,         \* whether scrot's file for the display exists
    picture,      \* whose screenshot the file of each tool in .vision holds
    server,       \* "none", "loading", "serving"
    recorded,     \* what grounding_server.pid names
    busy,         \* the call whose inference holds _lock, or "orphan"
    call,         \* each call: where it is, on which server, its starts and retries
    seen,         \* whose screenshot the answer to each call is about
    failures      \* bound: failures so far

vars == <<shot, picture, server, recorded, busy, call, seen, failures>>
procs == <<server, recorded, busy>>

Alive   == {p \in Server : server[p] # "none"}
Serving == {p \in Server : server[p] = "serving"}
Ended   == {"done", "failed"}
On(p)   == {c \in Call : call[c].on = p /\ call[c].at \in {"queued", "inferring"}}

(* A server may be up from an earlier call.                                *)
Init ==
    /\ \E up \in SUBSET {CHOOSE p \in Server : TRUE} :
          /\ server = [p \in Server |-> IF p \in up THEN "serving" ELSE "none"]
          /\ recorded = IF up = {} THEN None ELSE CHOOSE p \in Server : TRUE
    /\ shot = FALSE /\ picture = [t \in {"desktop", "browser"} |-> None]
    /\ busy = [p \in Server |-> "free"]
    /\ call = [c \in Call |-> [at |-> "idle", on |-> None, starts |-> 0, again |-> FALSE]]
    /\ seen = [c \in Call |-> None] /\ failures = 0

Goto(c, at) == call' = [call EXCEPT ![c].at = at]
Leave(c, at) ==
    call' = [call EXCEPT ![c] = [at |-> at, on |-> None, starts |-> 0,
                                 again |-> call[c].again /\ at \notin Ended]]
Fails == failures < MaxFailures /\ failures' = failures + 1

\* A process that ends resets the connections of its requests.
Disconnected(c) == [call[c] EXCEPT !.at = "refused", !.on = None]
Cut(p) == [c \in Call |-> IF c \in On(p) THEN Disconnected(c) ELSE call[c]]
Ends(p) ==
    /\ server' = [server EXCEPT ![p] = "none"] /\ busy' = [busy EXCEPT ![p] = "free"]
    /\ call' = Cut(p)

-----------------------------------------------------------------------------
(* The tool                                                                *)

(* run_grounding: the screenshot goes to the tool's file in .vision.       *)
Write(c) == picture' = [picture EXCEPT ![Tool[c]] = c]

(* capture_screenshot of the desktop: every call writes the file of the    *)
(* display, reads it when scrot has returned, and removes it.              *)
Shoot(c) ==
    /\ call[c].at = "idle" /\ Tool[c] = "desktop"
    /\ shot' = TRUE /\ Goto(c, "shot")
    /\ UNCHANGED <<picture, procs, seen, failures>>
Take(c) ==
    /\ call[c].at = "shot"
    /\ IF shot
       THEN Write(c) /\ Goto(c, "ensure")
       ELSE Goto(c, "failed") /\ UNCHANGED picture
    /\ shot' = FALSE
    /\ UNCHANGED <<procs, seen, failures>>

(* browser_visual_action: the page is captured, then the file is written.  *)
Capture(c) ==
    /\ call[c].at = "idle" /\ Tool[c] = "browser"
    /\ Write(c) /\ Goto(c, "ensure")
    /\ UNCHANGED <<shot, procs, seen, failures>>

(* The answer is carried out on the caller's own page or display, or the   *)
(* action is one that cannot be.                                           *)
Act(c) ==
    /\ call[c].at = "answered"
    /\ \/ Leave(c, "done") /\ UNCHANGED failures
       \/ Leave(c, "failed") /\ Fails
    /\ UNCHANGED <<shot, picture, procs, seen>>

-----------------------------------------------------------------------------
(* The client process                                                      *)

(* _ensure_server: the health check, then a look at the pid file.          *)
Check(c) ==
    /\ call[c].at = "ensure"
    /\ Goto(c, IF Serving # {} THEN "post" ELSE "look")
    /\ UNCHANGED <<shot, picture, procs, seen, failures>>
Look(c) ==
    /\ call[c].at = "look"
    /\ Goto(c, IF recorded \in Alive THEN "waiting" ELSE "kill")
    /\ UNCHANGED <<shot, picture, procs, seen, failures>>

(* _wait_for_healthy: the server answers, the process the file names is    *)
(* gone and another attempt is made or not, or STARTUP_TIMEOUT passes.     *)
Wait(c) ==
    /\ call[c].at = "waiting"
    /\ \/ Serving # {} /\ Leave(c, "post") /\ UNCHANGED failures
       \/ /\ Serving = {} /\ recorded \notin Alive
          /\ IF call[c].starts < MaxStarts THEN Goto(c, "kill") ELSE Leave(c, "failed")
          /\ UNCHANGED failures
       \/ Serving = {} /\ recorded \in Alive /\ Fails /\ Leave(c, "failed")
    /\ UNCHANGED <<shot, picture, procs, seen>>

(* _kill_server: before each attempt to start one, and before the retry of *)
(* a request. Whatever process the file names by now is killed.            *)
KillServer(c) ==
    LET next == IF call[c].at = "kill" THEN "start" ELSE "ensure" IN
    /\ call[c].at \in {"kill", "rekill"}
    /\ recorded' = None
    /\ IF recorded \in Alive
       THEN /\ server' = [server EXCEPT ![recorded] = "none"]
            /\ busy' = [busy EXCEPT ![recorded] = "free"]
            /\ call' = [Cut(recorded) EXCEPT ![c].at = next]
       ELSE Goto(c, next) /\ UNCHANGED <<server, busy>>
    /\ UNCHANGED <<shot, picture, seen, failures>>

\* A process id is not reused while the file or a client still has it.
Fresh == {p \in Server \ (Alive \cup {recorded}) : \A c \in Call : call[c].on # p}

(* _start_server: the process runs and the file names it.                  *)
Start(c) ==
    /\ call[c].at = "start" /\ Fresh # {}
    /\ LET p == CHOOSE p \in Fresh : TRUE IN
          /\ server' = [server EXCEPT ![p] = "loading"] /\ recorded' = p
          /\ call' = [call EXCEPT ![c].at = "waiting", ![c].starts = @ + 1]
    /\ UNCHANGED <<shot, picture, busy, seen, failures>>

\* Slip: the server reads the one file it was last given.
PostLatest(c) ==
    /\ call[c].at = "post"
    /\ IF Serving = {} THEN Goto(c, "refused") /\ UNCHANGED seen
       ELSE /\ call' = [call EXCEPT ![c].at = "queued", ![c].on = CHOOSE p \in Serving : TRUE]
            /\ seen' = [seen EXCEPT ![c] = picture[IF picture["browser"] # None
                                                   THEN "browser" ELSE "desktop"]]
    /\ UNCHANGED <<shot, picture, procs, failures>>
(* _post_ground: the handler reads the file when the request arrives.      *)
Post(c) ==
    /\ call[c].at = "post"
    /\ IF Serving = {} THEN Goto(c, "refused") /\ UNCHANGED seen
       ELSE /\ call' = [call EXCEPT ![c].at = "queued", ![c].on = CHOOSE p \in Serving : TRUE]
            /\ seen' = [seen EXCEPT ![c] = picture[Tool[c]]]
    /\ UNCHANGED <<shot, picture, procs, failures>>

(* REQUEST_TIMEOUT: the handler goes on without the client.                *)
Timeout(c) ==
    /\ call[c].at \in {"queued", "inferring"} /\ Fails
    /\ call' = [call EXCEPT ![c] = Disconnected(c)]
    /\ busy' = [p \in Server |-> IF busy[p] = c THEN "orphan" ELSE busy[p]]
    /\ UNCHANGED <<shot, picture, server, recorded, seen>>

(* A request without an answer is tried once more, with the server killed. *)
Retry(c) ==
    /\ call[c].at = "refused"
    /\ IF call[c].again THEN Leave(c, "failed")
       ELSE call' = [call EXCEPT ![c].at = "rekill", ![c].again = TRUE]
    /\ UNCHANGED <<shot, picture, procs, seen, failures>>

-----------------------------------------------------------------------------
(* The server                                                              *)

(* main: the model is loaded, then the port is bound, which only one       *)
(* process can have. That main writes the pid a second time is left out.   *)
Bind(p) ==
    /\ server[p] = "loading"
    /\ server' = [server EXCEPT ![p] = IF Serving = {} THEN "serving" ELSE "none"]
    /\ UNCHANGED <<shot, picture, recorded, busy, call, seen, failures>>

(* _handle_ground: one inference at a time, whose answer may be an error.  *)
Infer(c) ==
    /\ call[c].at = "queued" /\ busy[call[c].on] = "free"
    /\ busy' = [busy EXCEPT ![call[c].on] = c] /\ Goto(c, "inferring")
    /\ UNCHANGED <<shot, picture, server, recorded, seen, failures>>
Answer(c) ==
    /\ call[c].at = "inferring"
    /\ \/ Leave(c, "answered") /\ UNCHANGED failures
       \/ Leave(c, "failed") /\ Fails
    /\ busy' = [busy EXCEPT ![call[c].on] = "free"]
    /\ UNCHANGED <<shot, picture, server, recorded, seen>>
OrphanEnds(p) ==
    /\ busy[p] = "orphan" /\ busy' = [busy EXCEPT ![p] = "free"]
    /\ UNCHANGED <<shot, picture, server, recorded, call, seen, failures>>

(* _idle_watchdog counts from the start of the last inference, or of the   *)
(* process: the server goes down at once, its pid file stays.              *)
Idle(p) ==
    /\ server[p] = "serving" /\ Ends(p)
    /\ UNCHANGED <<shot, picture, recorded, seen, failures>>

(* The process is killed for memory.                                       *)
Dies(p) ==
    /\ p \in Alive /\ Fails /\ Ends(p)
    /\ UNCHANGED <<shot, picture, recorded, seen>>

-----------------------------------------------------------------------------
Goes(c) ==
    \/ Take(c) \/ Check(c) \/ Look(c) \/ Wait(c) \/ KillServer(c) \/ Start(c) \/ Post(c)
    \/ Retry(c) \/ Infer(c) \/ Answer(c) \/ Act(c)
Next ==
    \/ \E c \in Call : Shoot(c) \/ Capture(c) \/ Goes(c) \/ Timeout(c)
    \/ \E p \in Server : Bind(p) \/ OrphanEnds(p) \/ Idle(p) \/ Dies(p)

(* Processes run and an inference ends; nothing need time out or die.      *)
Fairness ==
    /\ \A c \in Call : WF_vars(Goes(c))
    /\ \A p \in Server : WF_vars(Bind(p) \/ OrphanEnds(p))
Spec == Init /\ [][Next]_vars /\ Fairness

-----------------------------------------------------------------------------
TypeOK ==
    /\ shot \in BOOLEAN /\ picture \in [{"desktop", "browser"} -> Call \cup {None}]
    /\ server \in [Server -> {"none", "loading", "serving"}]
    /\ recorded \in Server \cup {None}
    /\ busy \in [Server -> Call \cup {"free", "orphan"}]
    /\ seen \in [Call -> Call \cup {None}]
    /\ \A c \in Call : call[c].starts \in 0..MaxStarts /\ call[c].on \in Server \cup {None}

(* "Distinct per caller to avoid concurrent-write races" (run_grounding):  *)
(* what a call does is decided from the screenshot of that call, however   *)
(* often the server was restarted meanwhile.                               *)
ActsOnItsScreenshot == \A c \in Call : call[c].at = "done" => seen[c] = c

(* A visual action ends, with the action or an error, whoever kills whose  *)
(* server meanwhile.                                                       *)
VisualActionsEnd == \A c \in Call : []<>(call[c].at \in {"idle"} \cup Ended)

(* "Grounding server failed to start (possible OOM)": a call fails only    *)
(* when something did.                                                     *)
FailsForCause == \A c \in Call : call[c].at = "failed" => failures > 0
=============================================================================
