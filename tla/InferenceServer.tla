--------------------------- MODULE InferenceServer ---------------------------
(***************************************************************************)
(* Image and music generation: the tools that run the client as a process  *)
(* of their own (src/tools/generation/), the client that starts, restarts  *)
(* and asks the server (src/container/inference_client.py), and the server *)
(* processes (src/container/inference_server.py), which may share the port *)
(* and find each other only by the pid file. GPU choice, previews and the  *)
(* diffusion itself are left out; a generation can outlast the idle limit. *)
(***************************************************************************)
EXTENDS Integers, FiniteSets

CONSTANTS
    Client,      \* generation tool calls
    Pid,         \* process ids of servers
    Model,       \* the models by name, _MODELS and the audio model
    Base,        \* the weights a model is built on
    Nothing,     \* no model, no weights, no process
    MaxFailures  \* bound: downloads, loads, generations and servers that fail

VARIABLES
    proc,        \* the server processes: "none", "starting", "serving", ...
    loaded,      \* _loaded_model of each
    weights,     \* the weights behind its _pipe
    adapters,    \* the model whose LoRA adapters the pipe has
    lock,        \* the request that holds its _lock, or "orphan"
    pidfile,     \* what inference_server.pid names
    client,      \* what each call is doing, for which model, on which server
    made,        \* observed: what a complete answer was made with
    failures     \* bound: failures so far

vars == <<proc, loaded, weights, adapters, lock, pidfile, client, made, failures>>
pipe == <<loaded, weights, adapters>>

Listening == {p \in Pid : proc[p] \in {"serving", "closing", "unloaded"}}
Alive     == {p \in Pid : proc[p] # "none"}

\* The requests a process serves or queues.
InServer == {"queued", "loading", "swapping", "ready", "making"}
On(p) == {c \in Client : client[c].at \in InServer /\ client[c].on = p}

(* There may be a server with a model that an earlier call has asked for.  *)
Init ==
    /\ \E up \in SUBSET {CHOOSE p \in Pid : TRUE}, m \in Model :
          /\ proc = [p \in Pid |-> IF p \in up THEN "serving" ELSE "none"]
          /\ loaded = [p \in Pid |-> IF p \in up THEN m ELSE Nothing]
          /\ weights = [p \in Pid |-> IF p \in up THEN Base[m] ELSE Nothing]
          /\ adapters = loaded
          /\ pidfile = IF up = {} THEN Nothing ELSE CHOOSE p \in Pid : TRUE
    /\ lock = [p \in Pid |-> "free"]
    /\ client = [c \in Client |-> [at |-> "idle", model |-> Nothing, on |-> Nothing]]
    /\ made = [c \in Client |-> Nothing] /\ failures = 0

Goto(c, at) == client' = [client EXCEPT ![c].at = at]
Leave(c, at) == client' = [client EXCEPT ![c].at = at, ![c].on = Nothing]
Fails == failures < MaxFailures /\ failures' = failures + 1

\* A process that ends cuts its requests off: their clients fail.
Ends(p) ==
    /\ proc' = [proc EXCEPT ![p] = "none"]
    /\ loaded' = [loaded EXCEPT ![p] = Nothing] /\ weights' = [weights EXCEPT ![p] = Nothing]
    /\ adapters' = [adapters EXCEPT ![p] = Nothing] /\ lock' = [lock EXCEPT ![p] = "free"]
Cut(p) == [c \in Client |-> IF c \in On(p) THEN [client[c] EXCEPT !.at = "failed", !.on = Nothing]
                                 ELSE client[c]]

-----------------------------------------------------------------------------
(* The client                                                              *)

(* A tool call runs the client in a process of its own.                    *)
Ask(c, m) ==
    /\ client[c].at = "idle"
    /\ client' = [client EXCEPT ![c] = [at |-> "ensure", model |-> m, on |-> Nothing]]
    /\ UNCHANGED <<proc, pipe, lock, pidfile, made, failures>>

(* _ensure_server: a healthy server will do, and one that is starting is   *)
(* waited for. The pid file is looked at after the health check.           *)
Healthy(c) ==
    /\ client[c].at \in {"ensure", "waiting"} /\ Listening # {}
    /\ Goto(c, "post")
    /\ UNCHANGED <<proc, pipe, lock, pidfile, made, failures>>
Unhealthy(c) ==
    /\ client[c].at = "ensure" /\ Listening = {}
    /\ Goto(c, "look")
    /\ UNCHANGED <<proc, pipe, lock, pidfile, made, failures>>
Look(c) ==
    /\ client[c].at = "look"
    /\ Goto(c, IF pidfile \in Alive THEN "waiting" ELSE "start")
    /\ UNCHANGED <<proc, pipe, lock, pidfile, made, failures>>

\* A process id is not reused while the file or a client still has it.
Fresh == {p \in Pid \ (Alive \cup {pidfile}) : \A c \in Client : client[c].on # p}

(* _start_server: the process runs and the file names it.                  *)
Start(c) ==
    /\ client[c].at = "start"
    /\ Fresh # {}
    /\ LET p == CHOOSE p \in Fresh : TRUE IN
          proc' = [proc EXCEPT ![p] = "starting"] /\ pidfile' = p
    /\ Goto(c, "waiting")
    /\ UNCHANGED <<pipe, lock, made, failures>>

(* STARTUP_TIMEOUT, unless the server has become healthy.                  *)
Deadline(c) ==
    /\ client[c].at = "waiting" /\ Listening = {}
    /\ Leave(c, "failed")
    /\ UNCHANGED <<proc, pipe, lock, pidfile, made, failures>>

(* The request goes to any of the processes that share the port.           *)
Post(c) ==
    /\ client[c].at = "post"
    /\ IF Listening = {} THEN Leave(c, "failed")
       ELSE \E p \in Listening : client' = [client EXCEPT ![c].at = "queued", ![c].on = p]
    /\ UNCHANGED <<proc, pipe, lock, pidfile, made, failures>>

(* _kill_server, after "restart_required": whatever process the file names *)
(* by now is killed, and the request starts over.                          *)
KillServer(c) ==
    /\ client[c].at = "switch"
    /\ pidfile' = Nothing
    /\ IF pidfile \in Alive
       THEN /\ Ends(pidfile)
            /\ client' = [Cut(pidfile) EXCEPT ![c].at = "ensure"]
       ELSE /\ Goto(c, "ensure")
            /\ UNCHANGED <<proc, pipe, lock>>
    /\ UNCHANGED <<made, failures>>

(* The tool kills its client after _STREAM_TIMEOUT; what it asked for goes *)
(* on in the server until the next line it writes.                         *)
GiveUp(c) ==
    /\ client[c].at \notin {"idle", "done", "failed"} /\ Fails
    /\ client' = [client EXCEPT ![c].at = "failed", ![c].on = Nothing]
    /\ lock' = [p \in Pid |-> IF lock[p] = c THEN "orphan" ELSE lock[p]]
    /\ UNCHANGED <<proc, pipe, pidfile, made>>

-----------------------------------------------------------------------------
(* The server                                                              *)

(* main: the pid file is written once more, then the port is bound.        *)
Boot(p) ==
    /\ proc[p] = "starting"
    /\ proc' = [proc EXCEPT ![p] = "serving"] /\ pidfile' = p
    /\ UNCHANGED <<pipe, lock, client, made, failures>>

Holds(c, at) == client[c].at = at /\ lock[client[c].on] = c
Release(p) == lock' = [lock EXCEPT ![p] = "free"]

\* Slip: only a pipe of another kind is taken down, whatever its weights.
NeedsSwapUnchecked(p, m) == loaded[p] \notin {Nothing, m}
(* Adapters are swapped when the weights are the same.                     *)
NeedsSwap(p, m) == loaded[p] \notin {Nothing, m} /\ Base[loaded[p]] = Base[m]

MustSwitch(p, m) == loaded[p] \notin {Nothing, m} /\ ~NeedsSwap(p, m)

(* A request that gets the lock finds the model it wants, none, one on the *)
(* same weights, or one that only another process can replace: then it is  *)
(* told so, and the server goes down.                                      *)
Lock(c) ==
    LET p == client[c].on  m == client[c].model IN
    /\ client[c].at = "queued" /\ lock[p] = "free"
    /\ \/ /\ \/ loaded[p] = m /\ Goto(c, "ready") /\ UNCHANGED pipe
             \/ /\ loaded[p] = Nothing /\ Goto(c, "loading")
                /\ weights' = [weights EXCEPT ![p] = Nothing]
                /\ adapters' = [adapters EXCEPT ![p] = Nothing] /\ UNCHANGED loaded
             \/ /\ NeedsSwap(p, m) /\ Goto(c, "swapping")
                /\ adapters' = [adapters EXCEPT ![p] = Nothing]
                /\ UNCHANGED <<loaded, weights>>
          /\ lock' = [lock EXCEPT ![p] = c]
          /\ UNCHANGED proc
       \/ /\ MustSwitch(p, m)
          /\ client' = [client EXCEPT ![c].at = "switch", ![c].on = Nothing]
          /\ proc' = [proc EXCEPT ![p] = IF @ = "serving" THEN "closing" ELSE @]
          /\ UNCHANGED <<pipe, lock>>
    /\ UNCHANGED <<pidfile, made, failures>>

(* _load_image_model: the name is set once weights and adapters are there. *)
Loaded(c) ==
    LET p == client[c].on  m == client[c].model IN
    /\ Holds(c, "loading")
    /\ weights' = [weights EXCEPT ![p] = Base[m]]
    /\ adapters' = [adapters EXCEPT ![p] = m] /\ loaded' = [loaded EXCEPT ![p] = m]
    /\ Goto(c, "ready")
    /\ UNCHANGED <<proc, lock, pidfile, made, failures>>

(* _swap_lora.                                                             *)
Swapped(c) ==
    LET p == client[c].on  m == client[c].model IN
    /\ Holds(c, "swapping")
    /\ adapters' = [adapters EXCEPT ![p] = m] /\ loaded' = [loaded EXCEPT ![p] = m]
    /\ Goto(c, "ready")
    /\ UNCHANGED <<proc, weights, lock, pidfile, made, failures>>

(* A load that fails may leave a pipe without a name; a swap that fails    *)
(* leaves the old name on a pipe without its adapters.                     *)
LoadFails(c) ==
    LET p == client[c].on IN
    /\ Holds(c, "loading") \/ Holds(c, "swapping")
    /\ Fails
    /\ IF client[c].at = "loading"
       THEN weights' \in {weights, [weights EXCEPT ![p] = Base[client[c].model]]}
       ELSE UNCHANGED weights
    /\ Leave(c, "failed") /\ Release(p)
    /\ UNCHANGED <<proc, loaded, adapters, pidfile, made>>

(* The pipe is looked up when the generation begins: a shutdown may have   *)
(* unloaded it since.                                                      *)
Generate(c) ==
    LET p == client[c].on IN
    /\ Holds(c, "ready")
    /\ IF weights[p] = Nothing
       THEN Leave(c, "failed") /\ Release(p) /\ UNCHANGED made
       ELSE /\ Goto(c, "making") /\ UNCHANGED lock
            /\ made' = [made EXCEPT ![c] = [weights |-> weights[p], adapters |-> adapters[p]]]
    /\ UNCHANGED <<proc, pipe, pidfile, failures>>

(* The picture is complete, or the generation raises.                      *)
Made(c) ==
    /\ Holds(c, "making")
    /\ \/ Leave(c, "done") /\ UNCHANGED failures
       \/ Leave(c, "failed") /\ Fails
    /\ Release(client[c].on)
    /\ UNCHANGED <<proc, pipe, pidfile, made>>

(* The next line an abandoned request writes has nobody to go to.          *)
OrphanEnds(p) ==
    /\ lock[p] = "orphan" /\ Release(p)
    /\ UNCHANGED <<proc, pipe, pidfile, client, made, failures>>

(* The watchdog counts from the last POST that arrived, not from the end   *)
(* of its generation.                                                      *)
Idle(p) ==
    /\ proc[p] = "serving"
    /\ proc' = [proc EXCEPT ![p] = "closing"]
    /\ UNCHANGED <<pipe, lock, pidfile, client, made, failures>>

(* _shutdown unloads without the lock, stops the server, removes the pid   *)
(* file whoever wrote it, and the process ends with the requests it holds. *)
Unload(p) ==
    /\ proc[p] = "closing"
    /\ proc' = [proc EXCEPT ![p] = "unloaded"]
    /\ weights' = [weights EXCEPT ![p] = Nothing]
    /\ adapters' = [adapters EXCEPT ![p] = Nothing]
    /\ loaded' = [loaded EXCEPT ![p] = Nothing]
    /\ UNCHANGED <<lock, pidfile, client, made, failures>>
Exit(p) ==
    /\ proc[p] = "unloaded"
    /\ Ends(p) /\ client' = Cut(p) /\ pidfile' = Nothing
    /\ UNCHANGED <<made, failures>>

(* The process is killed for memory, or dies before it serves.             *)
Dies(p) ==
    /\ p \in Alive /\ Fails
    /\ Ends(p) /\ client' = Cut(p)
    /\ UNCHANGED <<pidfile, made>>

-----------------------------------------------------------------------------
Calls(c) ==
    \/ Healthy(c) \/ Unhealthy(c) \/ Look(c) \/ Start(c) \/ Deadline(c)
    \/ Post(c) \/ KillServer(c)
Serves(c) == Lock(c) \/ Loaded(c) \/ Swapped(c) \/ LoadFails(c) \/ Generate(c) \/ Made(c)
Goes(p) == Boot(p) \/ OrphanEnds(p) \/ Unload(p) \/ Exit(p)

Next ==
    \/ \E c \in Client : (\E m \in Model : Ask(c, m)) \/ Calls(c) \/ Serves(c) \/ GiveUp(c)
    \/ \E p \in Pid : Goes(p) \/ Idle(p) \/ Dies(p)

(* Processes run, and what they call returns; nothing need fail, go idle   *)
(* or be given up.                                                         *)
Fairness ==
    /\ \A c \in Client : WF_vars(Calls(c) \/ Serves(c))
    /\ \A p \in Pid : WF_vars(Goes(p))
Spec == Init /\ [][Next]_vars /\ Fairness

-----------------------------------------------------------------------------
TypeOK ==
    /\ proc \in [Pid -> {"none", "starting", "serving", "closing", "unloaded"}]
    /\ loaded \in [Pid -> Model \cup {Nothing}] /\ adapters \in [Pid -> Model \cup {Nothing}]
    /\ weights \in [Pid -> {Base[m] : m \in Model} \cup {Nothing}]
    /\ lock \in [Pid -> Client \cup {"free", "orphan"}]
    /\ pidfile \in Pid \cup {Nothing}
    /\ client \in [Client -> [model : Model \cup {Nothing}, on : Pid \cup {Nothing},
                              at : {"idle", "ensure", "look", "start", "waiting", "post",
                                    "switch", "done", "failed"} \cup InServer]]

(* A complete answer comes from the weights of the model it was asked of,  *)
(* however servers were shared, swapped, replaced and killed: _pipe is     *)
(* never run under another model's name (_ensure_image_model).             *)
MadeByItsWeights ==
    \A c \in Client : client[c].at = "done" => made[c].weights = Base[client[c].model]

(* "If the requested model is already loaded, reuse it": an answer is made *)
(* with the adapters of the model as well (_swap_lora).                    *)
MadeByItsModel ==
    \A c \in Client : client[c].at = "done" => made[c].adapters = client[c].model

(* "Don't spawn a new server if one is already starting up": two processes *)
(* are never up at once, but for one on its way down (_ensure_server).     *)
SoleServer == Cardinality({p \in Pid : proc[p] \in {"starting", "serving"}}) <= 1

(* Every generation ends with a picture or an error, whoever kills whose   *)
(* server meanwhile, and without the tool's fifteen minutes having to pass.*)
GenerationsEnd == \A c \in Client : []<>(client[c].at \in {"idle", "done", "failed"})
=============================================================================
