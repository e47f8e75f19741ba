-------------------------- MODULE IntegrationAccess --------------------------
(***************************************************************************)
(* The app server's view of the integrations: its cache and the shared     *)
(* load that fills it (src/tools/integrations/_state.py), the startup gate *)
(* that waits for the load (src/server/aiohttp_app.py), and the routes     *)
(* that add, update and remove (src/server/_integrations_routes.py). The   *)
(* supervisor, of which BrokerManager is the detail, is its registry here: *)
(* a verb takes effect at once, and its reply may come later or never.     *)
(***************************************************************************)
EXTENDS Integers, FiniteSets

CONSTANTS
    Id,         \* integrations
    Access,     \* permissions an integration may have
    Absent,     \* an integration that is not there
    Reader,     \* turns that read the cache for their tools
    Op,         \* requests to the routes in flight at once
    MaxDeaths,  \* bound: times the supervisor dies
    MaxServed   \* bound: changes the supervisor makes

VARIABLES
    reg,        \* the supervisor's registry
    up,         \* whether the supervisor listens on app.sock
    cache,      \* _registered
    load,       \* the load behind _load_future, or "none" when that is None
    snap,       \* the listing the supervisor has answered the load with
    reader,     \* what each turn's call of registered_integrations is doing
    gate,       \* _load_with_retry, "off" before the server starts
    late,       \* whether its deadline has passed
    setup,      \* whether the setup contributor is ready
    started,    \* whether the deferred task runner has started
    op,         \* the requests: what, on which integration, and how far
    deaths,     \* bound: the supervisor's deaths so far
    served,     \* bound: the supervisor's changes so far
    crossed     \* observed: whether a reply was lost, or two of these overlapped

vars == <<reg, up, cache, load, snap, reader, gate, late, setup, started, op, deaths,
          served, crossed>>
startup == <<gate, late, setup, started>>
bounds == <<deaths, served>>

Empty == [i \in Id |-> Absent]
Idle  == [kind |-> "none", id |-> CHOOSE i \in Id : TRUE, to |-> Absent, at |-> "idle"]

(* The supervisor may hold integrations of an earlier run of the server.   *)
Init ==
    /\ reg \in [Id -> Access \cup {Absent}] /\ up = FALSE
    /\ cache = Empty /\ load = "none" /\ snap = Empty
    /\ reader = [r \in Reader |-> "idle"]
    /\ gate = "off" /\ late = FALSE /\ setup = FALSE /\ started = FALSE
    /\ op = [o \in Op |-> Idle] /\ deaths = 0 /\ served = 0 /\ crossed = FALSE

Loading == load \in {"asked", "answered", "cut"}

-----------------------------------------------------------------------------
(* The shared load                                                         *)

(* A load that ended in an exception is done as well.                      *)
CacheLoaded == load \in {"done", "broken"}

(* The first read starts the load; the next ones share it.                 *)
EnsureLoaded == load' = IF load = "none" THEN "asked" ELSE load

(* A listing takes effect at once when the supervisor gets to it.          *)
LoadAnswered ==
    /\ load = "asked" /\ up
    /\ load' = "answered" /\ snap' = reg
    /\ UNCHANGED <<reg, up, cache, reader, startup, op, bounds, crossed>>

(* No socket, nobody listening, or an error of the supervisor's: the next  *)
(* read asks again. A connection that closes within the reply is none of   *)
(* the exceptions caught, so the future ends with one and is kept.         *)
LoadFails ==
    /\ \/ load = "asked" /\ load' = "none"
       \/ load = "cut" /\ load' = "broken"
    /\ UNCHANGED <<reg, up, cache, snap, reader, startup, op, bounds, crossed>>

(* The listing replaces whatever the routes have marked meanwhile.         *)
LoadDone ==
    /\ load = "answered"
    /\ load' = "done" /\ cache' = snap /\ snap' = Empty
    /\ UNCHANGED <<reg, up, reader, startup, op, bounds, crossed>>

(* A turn that finds the load unfinished waits for it.                     *)
Read(r) ==
    /\ reader[r] = "idle" /\ gate # "off" /\ ~CacheLoaded
    /\ EnsureLoaded
    /\ reader' = [reader EXCEPT ![r] = "waiting"]
    /\ UNCHANGED <<reg, up, cache, snap, startup, op, bounds, crossed>>

(* It goes on when the load is over, or when five seconds are.             *)
ReadEnds(r) ==
    /\ reader[r] = "waiting"
    /\ reader' = [reader EXCEPT ![r] = "idle"]
    /\ UNCHANGED <<reg, up, cache, load, snap, startup, op, bounds, crossed>>

-----------------------------------------------------------------------------
(* The startup gate                                                        *)

(* The server starts: the gate is a task of its own beside the routes.     *)
AppStarts ==
    /\ gate = "off"
    /\ gate' = "reading"
    /\ UNCHANGED <<reg, up, cache, load, snap, reader, late, setup, started, op, bounds, crossed>>

GateRead ==
    /\ gate = "reading"
    /\ EnsureLoaded
    /\ gate' = "waiting"
    /\ UNCHANGED <<reg, up, cache, snap, reader, late, setup, started, op, bounds, crossed>>

(* Whatever ends its wait, it opens when the cache is loaded or the        *)
(* deadline has passed, and sleeps otherwise.                              *)
GateLook ==
    /\ gate = "waiting"
    /\ gate' = IF CacheLoaded \/ late THEN "open" ELSE "sleeping"
    /\ UNCHANGED <<reg, up, cache, load, snap, reader, late, setup, started, op, bounds, crossed>>
GateWakes ==
    /\ gate = "sleeping"
    /\ gate' = "reading"
    /\ UNCHANGED <<reg, up, cache, load, snap, reader, late, setup, started, op, bounds, crossed>>
Deadline ==
    /\ gate # "off" /\ ~late
    /\ late' = TRUE
    /\ UNCHANGED <<reg, up, cache, load, snap, reader, gate, setup, started, op, bounds, crossed>>

(* The wizard is finished; once every contributor is ready, the watcher    *)
(* lets the deferred subsystems start.                                     *)
SetupDone ==
    /\ gate # "off" /\ ~setup
    /\ setup' = TRUE
    /\ UNCHANGED <<reg, up, cache, load, snap, reader, gate, late, started, op, bounds, crossed>>
Ready == setup /\ gate = "open"
StartDeferred ==
    /\ Ready /\ ~started
    /\ started' = TRUE
    /\ UNCHANGED <<reg, up, cache, load, snap, reader, gate, late, setup, op, bounds, crossed>>

-----------------------------------------------------------------------------
(* The routes                                                              *)

InFlight(o) == op[o].at # "idle"
Marked(q) == [cache EXCEPT ![q.id] = IF q.kind = "remove" THEN Absent ELSE q.to]
Changed(q) == [reg EXCEPT ![q.id] = IF q.kind = "remove" THEN Absent ELSE q.to]

(* The supervisor adds what is not there, and updates and removes what is. *)
Accepts(q) == (q.kind = "add") = (reg[q.id] = Absent)

(* A request goes to the supervisor; with no socket it is answered 503.    *)
(* Bound: none is sent once two have crossed.                              *)
Send(o, kind, i, to) ==
    /\ ~InFlight(o) /\ gate # "off" /\ up /\ served < MaxServed /\ ~crossed
    /\ op' = [op EXCEPT ![o] = [kind |-> kind, id |-> i, to |-> to, at |-> "sent"]]
    /\ crossed' = (crossed \/ \E p \in Op : InFlight(p) /\ op[p].id = i)
    /\ UNCHANGED <<reg, up, cache, load, snap, reader, startup, bounds>>

Serve(o) ==
    /\ op[o].at = "sent" /\ up /\ served < MaxServed
    /\ IF Accepts(op[o])
       THEN /\ reg' = Changed(op[o])
            /\ op' = [op EXCEPT ![o].at = "done"]
            /\ crossed' = (crossed \/ load = "answered")
       ELSE op' = [op EXCEPT ![o].at = "refused"] /\ UNCHANGED <<reg, crossed>>
    /\ served' = served + 1
    /\ UNCHANGED <<up, cache, load, snap, reader, startup, deaths>>

\* Slip: a change that the supervisor refused is marked as well.
AnsweredAnyway(o) ==
    /\ op[o].at \in {"done", "refused"}
    /\ cache' = Marked(op[o])
    /\ op' = [op EXCEPT ![o] = Idle]
    /\ UNCHANGED <<reg, up, load, snap, reader, startup, bounds, crossed>>

(* mark_added or mark_removed follow the reply, never the request.         *)
RequestAnswered(o) ==
    /\ op[o].at \in {"done", "refused"}
    /\ cache' = IF op[o].at = "done" THEN Marked(op[o]) ELSE cache
    /\ op' = [op EXCEPT ![o] = Idle]
    /\ UNCHANGED <<reg, up, load, snap, reader, startup, bounds, crossed>>

(* After 60 s, or when the connection closes, the request is given up; the *)
(* supervisor may have served it, or may yet.                              *)
RequestLost(o) ==
    /\ InFlight(o)
    /\ reg' \in {reg} \cup IF op[o].at = "sent" /\ Accepts(op[o]) THEN {Changed(op[o])} ELSE {}
    /\ op' = [op EXCEPT ![o] = Idle]
    /\ crossed' = TRUE
    /\ UNCHANGED <<up, cache, load, snap, reader, startup, bounds>>

(* The supervisor binds its socket once it has reconciled, and may die.    *)
SupervisorUp ==
    /\ ~up
    /\ up' = TRUE
    /\ UNCHANGED <<reg, cache, load, snap, reader, startup, op, bounds, crossed>>
SupervisorDies ==
    /\ up /\ deaths < MaxDeaths
    /\ up' = FALSE /\ deaths' = deaths + 1
    /\ load' \in {load} \cup IF load = "asked" THEN {"cut"} ELSE {}
    /\ UNCHANGED <<reg, cache, snap, reader, startup, op, served, crossed>>

Next ==
    \/ LoadAnswered \/ LoadFails \/ LoadDone
    \/ \E r \in Reader : Read(r) \/ ReadEnds(r)
    \/ AppStarts \/ GateRead \/ GateLook \/ GateWakes \/ Deadline \/ SetupDone \/ StartDeferred
    \/ \E o \in Op, i \in Id, to \in Access :
           Send(o, "add", i, to) \/ Send(o, "update", i, to)
    \/ \E o \in Op, i \in Id : Send(o, "remove", i, Absent)
    \/ \E o \in Op : Serve(o) \/ RequestAnswered(o) \/ RequestLost(o)
    \/ SupervisorUp \/ SupervisorDies

(* Timers run out and the loop runs what is ready; nothing is assumed of   *)
(* the supervisor.                                                         *)
Fairness ==
    /\ WF_vars(GateRead) /\ WF_vars(GateLook) /\ WF_vars(GateWakes)
    /\ WF_vars(Deadline) /\ WF_vars(StartDeferred)
    /\ \A r \in Reader : WF_vars(ReadEnds(r))

Spec == Init /\ [][Next]_vars /\ Fairness

-----------------------------------------------------------------------------
(* Properties                                                              *)

(* When no request is in flight, the loaded cache is the registry, unless  *)
(* a reply was lost or two changes of one integration, or a change and the *)
(* load, overlapped: refusals and restarts of the supervisor included.     *)
LoadedCacheAgrees ==
    (load = "done" /\ ~crossed /\ \A o \in Op : ~InFlight(o)) => cache = reg

(* Whatever the supervisor does, the gate opens and the goals' runner      *)
(* starts once setup is done.                                              *)
StartsAnyway == []<>(setup => started)

(* No turn waits for the integrations forever, be the supervisor wedged.   *)
TurnsGoOn == \A r \in Reader : []<>(reader[r] # "waiting")

(* The docstring of cache_loaded: "True iff the most recent load attempt   *)
(* succeeded."                                                             *)
LoadedMeansSucceeded == CacheLoaded => load = "done"
=============================================================================
