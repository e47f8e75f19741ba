--------------------------- MODULE BrokerManager ---------------------------
(***************************************************************************)
(* The integrations supervisor (src/integrations/supervisor): a vault with *)
(* a .meta and an .enc file per integration, a registry of records, one    *)
(* broker process per record, one watcher task per registered integration, *)
(* and the add / update / remove requests of the app server, which run as  *)
(* coroutines on the supervisor's event loop and await broker processes.   *)
(*                                                                         *)
(* A stage of a coroutine is where it awaits; the stages in Busy are steps *)
(* between two writes or calls without an await: nobody else runs there,   *)
(* but the process may end.                                                *)
(***************************************************************************)
EXTENDS Integers, FiniteSets

CONSTANTS
    Id,             \* integration ids
    Perm,           \* permissions after clamping to what the provider allows
    Client,         \* connections on app.sock
    MaxFailures,    \* _MAX_CONSECUTIVE_FAILURES
    Overlap,        \* whether two requests for one id may be in flight at once
    MaxProcs,       \* bound: broker processes alive or referred to at once
    MaxRecords,     \* bound: records referred to at once
    MaxExits        \* bound: ends of the supervisor process

ASSUME ManagerAssumption ==
    /\ MaxFailures \in Nat \ {0}
    /\ Overlap \in BOOLEAN
    /\ MaxProcs \in Nat \ {0}
    /\ MaxRecords \in Nat \ {0}
    /\ MaxExits \in Nat

None == "none"
ASSUME NoneAssumption == None \notin Perm \cup Id

VARIABLES
    meta,       \* <id>.meta: the permissions it stores, or None
    enc,        \* ids that have an <id>.enc
    procs,      \* broker processes
    records,    \* IntegrationRecord objects
    registry,   \* Registry._by_id; 0 means no entry
    watch,      \* the watcher of each id, or its reconcile coroutine at boot
    req,        \* the request each client waits for
    life,       \* the supervisor
    exits       \* ends of the supervisor so far

vault == <<meta, enc>>
vars == <<meta, enc, procs, records, registry, watch, req, life, exits>>

Proc   == 1..MaxProcs
Record == 1..MaxRecords

Live   == {"booting", "ready", "up"}    \* started; READY printed; READY seen
Exited == {"auth", "died"}              \* exit code 77; any other, or killed

NoProc   == [st |-> None, id |-> None, env |-> None]
NoRecord == [id |-> None, perm |-> None, state |-> None, expected |-> FALSE, proc |-> 0]
NoWatch  == [at |-> None, rec |-> 0, proc |-> 0, fails |-> 0]
NoReq    == [verb |-> None, id |-> None, perm |-> None, rec |-> 0, proc |-> 0, at |-> None]

Busy == {"secrets", "stopped", "wipe", "unlink", "restart"}
Free == life # "down" /\ \A c \in Client : req[c].at \notin Busy
Turn(c) == life # "down" /\ \A d \in Client \ {c} : req[d].at \notin Busy

InFlight(i) == {c \in Client : req[c].id = i}

Known == {registry[i] : i \in Id} \cup {watch[i].rec : i \in Id} \cup {req[c].rec : c \in Client}
Referred == {records[k].proc : k \in Known \ {0}}
              \cup {watch[i].proc : i \in Id} \cup {req[c].proc : c \in Client}

FreshProc(n) ==
    LET free == {m \in Proc \ Referred : procs[m].st \notin Live}
    IN  n \in free /\ \A m \in free : n <= m
FreshRecord(k) ==
    LET free == Record \ Known IN k \in free /\ \A m \in free : k <= m

\* spawn_broker up to its first await: the process starts with p in its environment.
Fork(n, i, p) ==
    FreshProc(n) /\ procs' = [procs EXCEPT ![n] = [st |-> "booting", id |-> i, env |-> p]]

\* _start_watcher: the running watcher is cancelled, a new one takes its place
\* and ends at once if the id is not registered.
Watching(i, reg, recs) ==
    IF reg[i] = 0 THEN NoWatch
    ELSE [at |-> "wait", rec |-> reg[i], proc |-> recs[reg[i]].proc, fails |-> 0]

-----------------------------------------------------------------------------
Init ==
    /\ meta = [i \in Id |-> None]
    /\ enc = {}
    /\ procs = [n \in Proc |-> NoProc]
    /\ records = [k \in Record |-> NoRecord]
    /\ registry = [i \in Id |-> 0]
    /\ watch = [i \in Id |-> NoWatch]
    /\ req = [c \in Client |-> NoReq]
    /\ life = "serving"
    /\ exits = 0

-----------------------------------------------------------------------------
(* Broker processes, as the supervisor sees them.                           *)

PrintReady(n) ==
    /\ procs[n].st = "booting"
    /\ procs' = [procs EXCEPT ![n].st = "ready"]
    /\ UNCHANGED <<vault, records, registry, watch, req, life, exits>>

\* A broker ends by itself; a handshake that outlasts the READY timeout is killed.
ProcExit(n, code) ==
    /\ procs[n].st \in Live
    /\ procs' = [procs EXCEPT ![n].st = code]
    /\ UNCHANGED <<vault, records, registry, watch, req, life, exits>>

-----------------------------------------------------------------------------
(* BrokerManager.add.                                                       *)

\* The supervisor takes requests as they come; the Integrations page of the app
\* sends the next one for an integration after the answer to the last.
Idle(c, i) == req[c] = NoReq /\ (Overlap \/ InFlight(i) = {})

Begin(c, verb, i, p, k, at) ==
    /\ Idle(c, i)
    /\ req' = [req EXCEPT ![c] = [verb |-> verb, id |-> i, perm |-> p, rec |-> k,
                                  proc |-> 0, at |-> at]]

AddBegin(c, i, p) ==
    /\ Free /\ life \in {"serving", "stopping"}
    /\ registry[i] = 0
    /\ Begin(c, "add", i, p, 0, "secrets")
    /\ meta' = [meta EXCEPT ![i] = p]
    /\ UNCHANGED <<enc, procs, records, registry, watch, life, exits>>

AddSecrets(c) ==
    /\ Turn(c) /\ req[c].at = "secrets"
    /\ enc' = enc \cup {req[c].id}
    /\ \E n \in Proc :
        /\ Fork(n, req[c].id, req[c].perm)
        /\ req' = [req EXCEPT ![c].at = "spawn", ![c].proc = n]
    /\ UNCHANGED <<meta, records, registry, watch, life, exits>>

\* The new record, its registration and its watcher, in one step.
Register(i, p, n) ==
    \E k \in Record :
        /\ FreshRecord(k)
        /\ records' = [records EXCEPT ![k] = [id |-> i, perm |-> p, state |-> "running",
                                              expected |-> FALSE, proc |-> n]]
        /\ registry' = [registry EXCEPT ![i] = k]
        /\ watch' = [watch EXCEPT ![i] = Watching(i, registry', records')]
        /\ procs' = [procs EXCEPT ![n].st = "up"]

AddUp(c) ==
    /\ Free /\ req[c].verb = "add" /\ req[c].at = "spawn"
    /\ procs[req[c].proc].st = "ready"
    /\ Register(req[c].id, req[c].perm, req[c].proc)
    /\ req' = [req EXCEPT ![c] = NoReq]
    /\ UNCHANGED <<vault, life, exits>>

\* Roll back; the same two unlinks end remove.
AddFailed(c) ==
    /\ Free /\ req[c].verb = "add" /\ req[c].at = "spawn"
    /\ procs[req[c].proc].st \in Exited
    /\ req' = [req EXCEPT ![c].at = "wipe"]
    /\ UNCHANGED <<vault, procs, records, registry, watch, life, exits>>

WipeMeta(c) ==
    /\ Turn(c) /\ req[c].at = "wipe"
    /\ meta' = [meta EXCEPT ![req[c].id] = None]
    /\ req' = [req EXCEPT ![c].at = "unlink"]
    /\ UNCHANGED <<enc, procs, records, registry, watch, life, exits>>

WipeSecrets(c) ==
    /\ Turn(c) /\ req[c].at = "unlink"
    /\ enc' = enc \ {req[c].id}
    /\ req' = [req EXCEPT ![c] = NoReq]
    /\ UNCHANGED <<meta, procs, records, registry, watch, life, exits>>

-----------------------------------------------------------------------------
(* BrokerManager.remove and update.                                         *)

\* Flag the record and cancel its watcher; wait for the cancelled task if it ran.
Dismiss(c, verb, i, p) ==
    LET k == registry[i] IN
    /\ k # 0
    /\ Begin(c, verb, i, p, k, IF watch[i].at = None THEN "stopped" ELSE "gather")
    /\ records' = [records EXCEPT ![k].expected = TRUE]
    /\ watch' = [watch EXCEPT ![i] = NoWatch]

RemoveBegin(c, i) ==
    /\ Free /\ life \in {"serving", "stopping"}
    /\ Dismiss(c, "remove", i, None)
    /\ UNCHANGED <<vault, procs, registry, life, exits>>

\* New permissions: the vault first, then the secrets (which must be readable).
UpdateBegin(c, i, p) ==
    /\ Free /\ life \in {"serving", "stopping"}
    /\ registry[i] # 0 /\ p # records[registry[i]].perm
    /\ meta' = [meta EXCEPT ![i] = p]
    /\ IF i \in enc THEN Dismiss(c, "update", i, p)
       ELSE Idle(c, i) /\ UNCHANGED <<records, watch, req>>
    /\ UNCHANGED <<enc, procs, registry, life, exits>>

\* A label change rewrites the meta file from the record.
UpdateLabel(c, i) ==
    /\ Free /\ life \in {"serving", "stopping"} /\ Idle(c, i)
    /\ registry[i] # 0
    /\ meta' = [meta EXCEPT ![i] = records[registry[i]].perm]
    /\ UNCHANGED <<enc, procs, records, registry, watch, req, life, exits>>

\* Slip: remove forgets the registry entry.
StillRegistered(c) == registry

Deregistered(c) ==
    IF req[c].verb = "remove" THEN [registry EXCEPT ![req[c].id] = 0] ELSE registry

MustEnd(n) == procs[n].st = "up"

\* The watcher is gone: remove drops the registry entry; both terminate the
\* record's broker if it still runs.
Stopped(c) ==
    LET n == records[req[c].rec].proc
        then == IF req[c].verb = "remove" THEN "wipe" ELSE "restart"
    IN
    /\ \/ req[c].at = "gather" /\ Free
       \/ req[c].at = "stopped" /\ Turn(c)
    /\ registry' = Deregistered(c)
    /\ req' = [req EXCEPT ![c].proc = n,
                          ![c].at = IF MustEnd(n) THEN "terminate" ELSE then]
    /\ UNCHANGED <<vault, procs, records, watch, life, exits>>

\* SIGTERM, and SIGKILL after the grace period: the broker ends.
Terminated(c) ==
    /\ Free /\ req[c].at = "terminate"
    /\ procs' = [procs EXCEPT ![req[c].proc].st = IF @ = "up" THEN "died" ELSE @]
    /\ req' = [req EXCEPT ![c].at = IF req[c].verb = "remove" THEN "wipe" ELSE "restart"]
    /\ UNCHANGED <<vault, records, registry, watch, life, exits>>

UpdateRestart(c) ==
    /\ Turn(c) /\ req[c].at = "restart"
    /\ \E n \in Proc :
        /\ Fork(n, req[c].id, req[c].perm)
        /\ req' = [req EXCEPT ![c].at = "spawn", ![c].proc = n]
    /\ UNCHANGED <<vault, records, registry, watch, life, exits>>

\* Slips: the record keeps its old permissions; it keeps its flag.
RenewedOldGrant(r, c) ==
    [r EXCEPT !.proc = req[c].proc, !.state = "running", !.expected = FALSE]
RenewedStillFlagged(r, c) ==
    [r EXCEPT !.proc = req[c].proc, !.perm = req[c].perm, !.state = "running"]

Renewed(r, c) ==
    [r EXCEPT !.proc = req[c].proc, !.perm = req[c].perm,
              !.state = "running", !.expected = FALSE]

UpdateUp(c) ==
    LET i == req[c].id  k == req[c].rec IN
    /\ Free /\ req[c].verb = "update" /\ req[c].at = "spawn"
    /\ procs[req[c].proc].st = "ready"
    /\ procs' = [procs EXCEPT ![req[c].proc].st = "up"]
    /\ records' = [records EXCEPT ![k] = Renewed(@, c)]
    /\ watch' = [watch EXCEPT ![i] = Watching(i, registry, records')]
    /\ req' = [req EXCEPT ![c] = NoReq]
    /\ UNCHANGED <<vault, registry, life, exits>>

UpdateFailed(c) ==
    LET st == procs[req[c].proc].st IN
    /\ Free /\ req[c].verb = "update" /\ req[c].at = "spawn" /\ st \in Exited
    /\ records' = [records EXCEPT ![req[c].rec].state =
                      IF st = "auth" THEN "auth_failed" ELSE "broken"]
    /\ req' = [req EXCEPT ![c] = NoReq]
    /\ UNCHANGED <<vault, procs, registry, watch, life, exits>>

-----------------------------------------------------------------------------
(* BrokerManager._watch.                                                    *)

Ends(i, state) ==
    /\ records' = [records EXCEPT ![registry[i]].state = state]
    /\ watch' = [watch EXCEPT ![i] = NoWatch]

GivesUp(i) == watch[i].fails + 1 >= MaxFailures

WatcherWakes(i) ==
    LET k == registry[i]  st == procs[watch[i].proc].st IN
    /\ Free /\ watch[i].at = "wait" /\ st \in Exited
    /\ IF k = 0 \/ (k # 0 /\ records[k].expected)
       THEN watch' = [watch EXCEPT ![i] = NoWatch] /\ UNCHANGED records
       ELSE IF st = "auth" THEN Ends(i, "auth_failed")
       ELSE IF GivesUp(i) THEN Ends(i, "broken")
       ELSE /\ watch' = [watch EXCEPT ![i].at = "backoff", ![i].rec = k,
                                      ![i].proc = 0, ![i].fails = @ + 1]
            /\ UNCHANGED records
    /\ UNCHANGED <<vault, procs, registry, req, life, exits>>

\* The backoff is over; the watcher dies when the secrets are gone.
Respawn(i) ==
    /\ Free /\ watch[i].at = "backoff"
    /\ IF i \in enc
       THEN \E n \in Proc :
                /\ Fork(n, i, records[watch[i].rec].perm)
                /\ watch' = [watch EXCEPT ![i].at = "respawn", ![i].proc = n]
       ELSE watch' = [watch EXCEPT ![i] = NoWatch] /\ UNCHANGED procs
    /\ UNCHANGED <<vault, records, registry, req, life, exits>>

RespawnUp(i) ==
    LET k == watch[i].rec  n == watch[i].proc IN
    /\ Free /\ watch[i].at = "respawn" /\ procs[n].st = "ready"
    /\ procs' = [procs EXCEPT ![n].st = "up"]
    /\ records' = [records EXCEPT ![k].proc = n, ![k].state = "running"]
    /\ watch' = [watch EXCEPT ![i] = Watching(i, registry, records')]
    /\ UNCHANGED <<vault, registry, req, life, exits>>

\* Slips: after a rejected login the loop goes on; after any failure it ends.
RespawnFailedGoesOn(i) ==
    LET st == procs[watch[i].proc].st  k == watch[i].rec IN
    /\ Free /\ watch[i].at = "respawn" /\ st \in Exited
    /\ records' = IF st = "auth" THEN [records EXCEPT ![k].state = "auth_failed"] ELSE records
    /\ watch' = [watch EXCEPT ![i] =
                    [Watching(i, registry, records) EXCEPT !.fails = watch[i].fails]]
    /\ UNCHANGED <<vault, procs, registry, req, life, exits>>
RespawnFailedEnds(i) ==
    /\ Free /\ watch[i].at = "respawn" /\ procs[watch[i].proc].st \in Exited
    /\ watch' = [watch EXCEPT ![i] = NoWatch]
    /\ UNCHANGED <<vault, procs, records, registry, req, life, exits>>

\* Back to the wait, which the dead broker of the record ends at once.
RespawnFailed(i) ==
    LET st == procs[watch[i].proc].st  k == watch[i].rec IN
    /\ Free /\ watch[i].at = "respawn" /\ st \in Exited
    /\ IF st = "auth"
       THEN /\ records' = [records EXCEPT ![k].state = "auth_failed"]
            /\ watch' = [watch EXCEPT ![i] = NoWatch]
       ELSE /\ watch' = [watch EXCEPT ![i] =
                            [Watching(i, registry, records) EXCEPT !.fails = watch[i].fails]]
            /\ UNCHANGED records
    /\ UNCHANGED <<vault, procs, registry, req, life, exits>>

-----------------------------------------------------------------------------
(* Supervisor.start and stop.                                               *)

\* Only ids with both files are reconciled, all at once.
Boot ==
    /\ life = "down"
    /\ life' = "booting"
    /\ LET ids == {i \in enc : meta[i] # None} IN
       watch' = [i \in Id |-> IF i \in ids THEN [NoWatch EXCEPT !.at = "reconcile"] ELSE NoWatch]
    /\ UNCHANGED <<vault, procs, records, registry, req, exits>>

ReconcileSpawn(i) ==
    /\ Free /\ watch[i].at = "reconcile" /\ watch[i].proc = 0
    /\ \E n \in Proc : Fork(n, i, meta[i]) /\ watch' = [watch EXCEPT ![i].proc = n]
    /\ UNCHANGED <<vault, records, registry, req, life, exits>>

Reconciled(i) ==
    LET n == watch[i].proc IN
    /\ Free /\ watch[i].at = "reconcile" /\ n # 0 /\ procs[n].st = "ready"
    /\ Register(i, meta[i], n)
    /\ UNCHANGED <<vault, req, life, exits>>

\* Logged and skipped: the files stay.
ReconcileFailed(i) ==
    /\ Free /\ watch[i].at = "reconcile" /\ watch[i].proc # 0
    /\ procs[watch[i].proc].st \in Exited
    /\ watch' = [watch EXCEPT ![i] = NoWatch]
    /\ UNCHANGED <<vault, procs, records, registry, req, life, exits>>

Listen ==
    /\ life = "booting" /\ \A i \in Id : watch[i].at # "reconcile"
    /\ life' = "serving"
    /\ UNCHANGED <<vault, procs, records, registry, watch, req, exits>>

\* stop_all: every record is flagged and every watcher cancelled, then brokers end.
StopAll ==
    /\ Free /\ life = "serving" /\ exits < MaxExits
    /\ life' = "stopping"
    /\ records' = [k \in Record |-> IF \E i \in Id : registry[i] = k
                                    THEN [records[k] EXCEPT !.expected = TRUE] ELSE records[k]]
    /\ watch' = [i \in Id |-> NoWatch]
    /\ UNCHANGED <<vault, procs, registry, req, exits>>

StopBroker(i) ==
    /\ Free /\ life = "stopping" /\ registry[i] # 0
    /\ LET n == records[registry[i]].proc IN
        /\ procs[n].st = "up"
        /\ procs' = [procs EXCEPT ![n].st = "died"]
    /\ UNCHANGED <<vault, records, registry, watch, req, life, exits>>

\* The supervisor ends, at any point, and its container with every broker.
Exit ==
    /\ life # "down" /\ exits < MaxExits
    /\ life' = "down"
    /\ exits' = exits + 1
    /\ procs' = [n \in Proc |-> NoProc]
    /\ records' = [k \in Record |-> NoRecord]
    /\ registry' = [i \in Id |-> 0]
    /\ watch' = [i \in Id |-> NoWatch]
    /\ req' = [c \in Client |-> NoReq]
    /\ UNCHANGED vault

-----------------------------------------------------------------------------
Handshake == \E n \in Proc : procs[n].st = "booting" /\
                 (PrintReady(n) \/ \E code \in Exited : ProcExit(n, code))

Request ==
    \E c \in Client, i \in Id :
        \/ \E p \in Perm : AddBegin(c, i, p) \/ UpdateBegin(c, i, p)
        \/ UpdateLabel(c, i) \/ RemoveBegin(c, i)

Serve(c) ==
    \/ AddSecrets(c) \/ AddUp(c) \/ AddFailed(c) \/ WipeMeta(c) \/ WipeSecrets(c)
    \/ Stopped(c) \/ Terminated(c) \/ UpdateRestart(c) \/ UpdateUp(c) \/ UpdateFailed(c)

Watcher(i) ==
    \/ WatcherWakes(i) \/ Respawn(i) \/ RespawnUp(i) \/ RespawnFailed(i)
    \/ ReconcileSpawn(i) \/ Reconciled(i) \/ ReconcileFailed(i)

Next ==
    \/ Handshake
    \/ \E n \in Proc, code \in Exited : procs[n].st # "booting" /\ ProcExit(n, code)
    \/ Request
    \/ \E c \in Client : Serve(c)
    \/ \E i \in Id : Watcher(i) \/ StopBroker(i)
    \/ Boot \/ Listen \/ StopAll \/ Exit

Spec == Init /\ [][Next]_vars

\* The READY timeout bounds every handshake; coroutines that can run do; the
\* container's restart policy starts the supervisor again.
Fairness ==
    /\ \A n \in Proc : WF_vars(procs[n].st = "booting" /\
                              (PrintReady(n) \/ \E code \in Exited : ProcExit(n, code)))
    /\ \A c \in Client : SF_vars(Serve(c))
    /\ \A i \in Id : SF_vars(Watcher(i))
    /\ WF_vars(Boot) /\ WF_vars(Listen)

FairSpec == Spec /\ Fairness
-----------------------------------------------------------------------------
(* Properties.  Requests for one id that overlap race for its files and its *)
(* record; with Overlap = FALSE these properties say what an operator who   *)
(* waits for each answer gets, whatever brokers, watchers and restarts do.  *)

BrokerHandle == [st : Live \cup Exited \cup {None}, id : Id \cup {None}, env : Perm \cup {None}]

IntegrationRecord ==
    [id : Id \cup {None}, perm : Perm \cup {None},
     state : {"running", "auth_failed", "broken", None},
     expected : BOOLEAN, proc : Proc \cup {0}]

WatchTask ==
    [at : {None, "wait", "backoff", "respawn", "reconcile"},
     rec : Record \cup {0}, proc : Proc \cup {0}, fails : 0..MaxFailures]

RequestTask ==
    [verb : {None, "add", "remove", "update"}, id : Id \cup {None}, perm : Perm \cup {None},
     rec : Record \cup {0}, proc : Proc \cup {0},
     at : Busy \cup {None, "spawn", "gather", "terminate"}]

\* The types of all variables.
TypeOK ==
    /\ meta \in [Id -> Perm \cup {None}]
    /\ enc \subseteq Id
    /\ procs \in [Proc -> BrokerHandle]
    /\ records \in [Record -> IntegrationRecord]
    /\ registry \in [Id -> Record \cup {0}]
    /\ watch \in [Id -> WatchTask]
    /\ req \in [Client -> RequestTask]
    /\ life \in {"down", "booting", "serving", "stopping"}
    /\ exits \in 0..MaxExits

Quiet(i) == life = "serving" /\ InFlight(i) = {}
Runs(i)  == registry[i] # 0 /\ records[registry[i]].state = "running"

\* A registered integration can be brought back after a restart: both of its
\* files are in the vault, in every interleaving of its requests, its watcher
\* and the end of the process.
RegisteredIsPersisted ==
    \A i \in Id : registry[i] # 0 => meta[i] # None /\ i \in enc

\* What the operator granted last is in force everywhere: in the vault, in the
\* record that list shows, and in the environment of the broker that serves.
PermissionsInForce ==
    \A i \in Id : Quiet(i) /\ Runs(i) =>
        LET r == records[registry[i]] IN
        /\ meta[i] = r.perm
        /\ procs[r.proc].st = "up" => procs[r.proc].env = r.perm

\* A record that says running is looked after: its watcher follows it, and
\* will act on the exit of its broker.
RunningIsWatched ==
    \A i \in Id : Quiet(i) /\ Runs(i) =>
        /\ watch[i].at # None /\ watch[i].rec = registry[i]
        /\ ~records[registry[i]].expected

\* A record that is registered, or a request in flight, has broker n.
HeldBy(n) ==
    \/ \E i \in Id : registry[i] # 0 /\ records[registry[i]].proc = n
    \/ \E c \in Client : req[c].proc = n

\* A broker whose READY was taken in never escapes: it is held by somebody who
\* will see to its end.
ReadyIsHeld == \A n \in Proc : procs[n].st = "up" => HeldBy(n)

\* Once a record says auth_failed or broken nothing but a request starts a
\* broker for it: the upstream's login is not tried again and again.
NoSelfRevival ==
    [][\A i \in Id, n \in Proc :
          Quiet(i) /\ registry[i] # 0 /\ ~Runs(i) =>
              ~(procs[n].st # "booting" /\ procs'[n].st = "booting" /\ procs'[n].id = i)]_vars

\* When an id is not registered and no request for it is in flight, no broker
\* of it runs with its credentials.
RemovedIsDown ==
    \A i \in Id : Quiet(i) /\ registry[i] = 0 =>
        \A n \in Proc : procs[n].st \in Live => procs[n].id # i

\* Why the invariants above hold when requests for one id do not overlap.  Each
\* request has its id to itself and finds there what it left: add an id that is
\* not registered, update the vault it wrote, both no watcher; what wipes the
\* vault does so after the entry is gone and the broker has ended.
Alone == \A c, d \in Client : req[c].id # None /\ req[c].id = req[d].id => c = d

InCharge(c) ==
    LET q == req[c] IN
    /\ q.verb = None => q = NoReq
    /\ q.verb # None =>
          /\ q.id \in Id /\ watch[q.id].at = None
          /\ life \in {"serving", "stopping"}
    /\ q.verb = "add" =>
          /\ q.at \in {"secrets", "spawn", "wipe", "unlink"}
          /\ registry[q.id] = 0 /\ q.perm \in Perm
          /\ q.at \in {"secrets", "spawn"} => meta[q.id] = q.perm
          /\ q.at = "spawn" => q.id \in enc
    /\ q.verb = "remove" =>
          /\ q.at \in {"gather", "stopped", "terminate", "wipe", "unlink"}
          /\ registry[q.id] = IF q.at \in {"gather", "stopped"} THEN q.rec ELSE 0
    /\ q.verb = "update" =>
          /\ q.at \in {"gather", "stopped", "terminate", "restart", "spawn"}
          /\ registry[q.id] = q.rec
          /\ q.perm \in Perm /\ meta[q.id] = q.perm
          /\ q.at \in {"restart", "spawn"} => procs[records[q.rec].proc].st \in Exited
          /\ q.at \in {"terminate", "restart"} => q.proc = records[q.rec].proc
    /\ q.verb \in {"remove", "update"} => q.rec # 0
    /\ q.at \in {"secrets", "gather", "stopped"} => q.proc = 0
    /\ q.at = "spawn" => q.proc # 0 /\ procs[q.proc].env = q.perm
    /\ q.at = "terminate" => q.proc # 0 /\ procs[q.proc].st \in {"up"} \cup Exited
    /\ q.at \in {"wipe", "unlink"} => q.proc # 0 /\ procs[q.proc].st \in Exited

\* A registered id is in the vault, its record is its own and runs a broker with
\* the record's permissions; one that runs and has no request in flight has them
\* in the vault too and, unless the supervisor stops, a watcher.
Sound(i) ==
    LET r == records[registry[i]] IN
    /\ meta[i] # None /\ i \in enc
    /\ r.id = i /\ r.perm \in Perm /\ r.state # None /\ r.proc # 0
    /\ procs[r.proc].st \in {"up"} \cup Exited /\ procs[r.proc].env = r.perm
    /\ r.state = "running" /\ (\A c \in Client : req[c].id # i) =>
          /\ meta[i] = r.perm
          /\ watch[i].at # None \/ life = "stopping"

\* A watcher follows the record registered for its id, which runs and is not
\* flagged; while it brings up another broker the last one has ended.  A
\* reconcile coroutine has its id to itself and both of its files.
Follows(i) ==
    LET w == watch[i]  r == records[w.rec] IN
    /\ w.at \in {"wait", "backoff", "respawn"} =>
          /\ w.rec # 0 /\ w.rec = registry[i]
          /\ r.state = "running" /\ ~r.expected
    /\ w.at = "wait" => w.proc = r.proc
    /\ w.at \in {"backoff", "respawn"} => procs[r.proc].st \in Exited
    /\ w.at = "respawn" => w.proc # 0 /\ procs[w.proc].env = r.perm
    /\ w.at = "reconcile" =>
          /\ life = "booting" /\ registry[i] = 0
          /\ meta[i] # None /\ i \in enc
          /\ w.proc # 0 => procs[w.proc].env = meta[i]

\* The inductive invariant of vault, registry, watchers and brokers.
ManagerInv ==
    /\ TypeOK /\ Alone
    /\ \A c \in Client : InCharge(c)
    /\ \A i \in Id : registry[i] # 0 => Sound(i)
    /\ \A i \in Id : Follows(i)
    /\ life = "down" => \A i \in Id : registry[i] = 0
    /\ ReadyIsHeld

\* A record does not stay "running" with a dead broker for ever: its watcher
\* brings a broker up or gives the record a terminal state (while the bound on
\* processes leaves room for one).
OutagesEnd ==
    \A i \in Id :
        []<>(Quiet(i) /\ Runs(i) /\ (\E n \in Proc : FreshProc(n))
               => procs[records[registry[i]].proc].st = "up")
=============================================================================
