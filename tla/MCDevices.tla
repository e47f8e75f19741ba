------------------------------- MODULE MCDevices -------------------------------
(***************************************************************************)
(* The machines that agents' tools work with, each in a behaviour of its   *)
(* own: the displays, the user's desktop, the actions that a vision model  *)
(* decides, and the server that makes pictures and music.                  *)
(***************************************************************************)
EXTENDS AgentDisplays

CONSTANTS Call, MaxFailures, Tool, Server, MaxStarts, Client, Pid, Model, Weights, Nothing

VARIABLES part,
    desk, deskCall, pointer, landed, deskFailures,
    shot, picture, server, recorded, busy, visualCall, seen, visualFailures,
    proc, loaded, weights, adapters, lock, pidfile, client, made, madeFailures

Desk   == INSTANCE Desktop WITH call <- deskCall, failures <- deskFailures
Visual == INSTANCE VisualActions WITH call <- visualCall, failures <- visualFailures
Infer  == INSTANCE InferenceServer WITH Base <- Weights, failures <- madeFailures

\* A request is not a mark of a lock, and no model is called "none".
ASSUME RequestsAreNotMarks == Client \cap {"free", "orphan"} = {}
ASSUME NothingIsNoModel == Nothing \notin Model
ASSUME CallsAreNotMarks == Call \cap {"free", "orphan"} = {} /\ None \notin Call

deskVars   == <<desk, deskCall, pointer, landed, deskFailures>>
visualVars == <<shot, picture, server, recorded, busy, visualCall, seen, visualFailures>>
inferVars  == <<proc, loaded, weights, adapters, lock, pidfile, client, made, madeFailures>>
allVars    == <<part, vars, deskVars, visualVars, inferVars>>

\* One agent acts on the desktop while another acts in its browser.
MCTool == [c \in Call |-> IF c = CHOOSE x \in Call : TRUE THEN "desktop" ELSE "browser"]
\* Two models on one base, and one on another.
MCModel == {"quality", "photo", "fast"}
MCWeights == [m \in MCModel |-> IF m = "fast" THEN "schnell" ELSE "dev"]

AllInit ==
    /\ part \in {"displays", "desktop", "visual", "inference"}
    /\ Init /\ Desk!Init /\ Visual!Init /\ Infer!Init
    /\ part # "desktop" => desk["x11vnc"] = "up"
    /\ part # "visual" => recorded = None
    /\ part # "inference" => pidfile = Nothing

AllNext ==
    /\ UNCHANGED part
    /\ \/ part = "displays" /\ Next /\ UNCHANGED <<deskVars, visualVars, inferVars>>
       \/ part = "desktop" /\ Desk!Next /\ UNCHANGED <<vars, visualVars, inferVars>>
       \/ part = "visual" /\ Visual!Next /\ UNCHANGED <<vars, deskVars, inferVars>>
       \/ part = "inference" /\ Infer!Next /\ UNCHANGED <<vars, deskVars, visualVars>>

AllSpec ==
    /\ AllInit /\ [][AllNext]_allVars
    /\ Desk!Fairness /\ Visual!Fairness /\ Infer!Fairness

(* Every call on the desktop comes back; see Desktop.                      *)
DesktopCallsEnd == Desk!DesktopCallsEnd
(* A restart begins with the server that did not answer gone; see Desktop. *)
StopStopsTheDesktop == Desk!StopStopsTheDesktop
(* What a call does is decided from its screenshot; see VisualActions.     *)
ActsOnItsScreenshot == Visual!ActsOnItsScreenshot
(* Every visual action ends; see VisualActions.                            *)
VisualActionsEnd == Visual!VisualActionsEnd
(* An answer comes from the weights of its model; see InferenceServer.     *)
MadeByItsWeights == Infer!MadeByItsWeights
(* An answer is made with the adapters of its model; see InferenceServer.  *)
MadeByItsModel == Infer!MadeByItsModel
(* Every generation ends; see InferenceServer.                             *)
GenerationsEnd == Infer!GenerationsEnd
=============================================================================
