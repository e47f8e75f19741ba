------------------------- MODULE BrokerManagerProofs ------------------------
(***************************************************************************)
(* Theorems about BrokerManager, for every set of ids, permissions and     *)
(* clients and every bound.                                                *)
(***************************************************************************)
EXTENDS BrokerManager, TLAPS

USE DEF Proc, Record, Live, Exited, Busy

-----------------------------------------------------------------------------
(* Type correctness.                                                        *)

\* The references a step follows are set.
PointersSet ==
    /\ \A c \in Client : req[c].at # None => req[c].id \in Id
    /\ \A c \in Client : req[c].at \in {"gather", "stopped"} => req[c].rec # 0
    /\ \A i \in Id : watch[i].at \in {"backoff", "respawn"} => watch[i].rec # 0

TypeInv == TypeOK /\ PointersSet

\* The values that stand for nothing are typed.
LEMMA Blanks ==
    /\ NoProc \in BrokerHandle /\ NoRecord \in IntegrationRecord
    /\ NoWatch \in WatchTask /\ NoReq \in RequestTask
    /\ NoReq.at = None /\ NoWatch.at = None /\ NoReq.id = None /\ NoReq.verb = None
    /\ NoWatch.rec = 0 /\ NoWatch.proc = 0 /\ NoProc.st = None
BY ManagerAssumption DEF NoProc, NoRecord, NoWatch, NoReq,
   BrokerHandle, IntegrationRecord, WatchTask, RequestTask

LEMMA InitType == Init => TypeInv
BY Blanks, ManagerAssumption DEF Init, TypeInv, TypeOK, PointersSet, None

\* A started broker is typed, and so is a new watcher.
LEMMA ForkType ==
    ASSUME TypeOK, NEW n \in Proc, NEW i \in Id, NEW p \in Perm \cup {None}, Fork(n, i, p)
    PROVE  procs' \in [Proc -> BrokerHandle]
BY DEF TypeOK, Fork, BrokerHandle

LEMMA WatchingType ==
    ASSUME NEW i \in Id, NEW reg \in [Id -> Record \cup {0}],
           NEW recs \in [Record -> IntegrationRecord]
    PROVE  Watching(i, reg, recs) \in WatchTask /\ Watching(i, reg, recs).at \in {None, "wait"}
BY Blanks, ManagerAssumption DEF Watching, WatchTask, IntegrationRecord

LEMMA DismissType ==
    ASSUME TypeInv, NEW c \in Client, NEW verb \in {"remove", "update"}, NEW i \in Id,
           NEW p \in Perm \cup {None}, Dismiss(c, verb, i, p)
    PROVE  /\ records' \in [Record -> IntegrationRecord]
           /\ watch' \in [Id -> WatchTask]
           /\ req' \in [Client -> RequestTask]
           /\ PointersSet'
<1> USE DEF TypeInv, TypeOK
<1> DEFINE k == registry[i]
           at == IF watch[i].at = None THEN "stopped" ELSE "gather"
           q == [verb |-> verb, id |-> i, perm |-> p, rec |-> k, proc |-> 0, at |-> at]
<1>1. k \in Record /\ k # 0
  BY DEF Dismiss
<1>2. records' \in [Record -> IntegrationRecord]
  BY ZenonT(30), <1>1 DEF Dismiss, IntegrationRecord
<1>3. watch' \in [Id -> WatchTask] /\ watch' = [watch EXCEPT ![i] = NoWatch]
  BY Blanks DEF Dismiss
<1>4. q \in RequestTask
  BY <1>1 DEF RequestTask
<1>5. req' = [req EXCEPT ![c] = q]
  BY DEF Dismiss, Begin
<1>6. req' \in [Client -> RequestTask]
  BY <1>4, <1>5
<1>7. PointersSet'
  BY <1>1, <1>3, <1>5, Blanks, NoneAssumption DEF PointersSet, None
<1>. QED  BY <1>2, <1>3, <1>6, <1>7

LEMMA RequestType ==
    ASSUME TypeInv, Request \/ Handshake \/ \E n \in Proc, code \in Exited : ProcExit(n, code)
    PROVE  TypeInv'
<1> USE DEF TypeInv, TypeOK, PointersSet
<1>1. ASSUME NEW c \in Client, NEW i \in Id, NEW p \in Perm, AddBegin(c, i, p)
      PROVE  TypeInv'
  BY <1>1 DEF AddBegin, Begin, RequestTask, None
<1>2. ASSUME NEW c \in Client, NEW i \in Id, NEW p \in Perm, UpdateBegin(c, i, p)
      PROVE  TypeInv'
  <2>1. meta' \in [Id -> Perm \cup {None}] /\ UNCHANGED <<enc, procs, registry, life, exits>>
    BY <1>2 DEF UpdateBegin
  <2>2. CASE i \in enc
    <3>1. Dismiss(c, "update", i, p)
      BY <1>2, <2>2 DEF UpdateBegin
    <3>2. /\ records' \in [Record -> IntegrationRecord]
          /\ watch' \in [Id -> WatchTask]
          /\ req' \in [Client -> RequestTask]
          /\ PointersSet'
      BY <3>1, DismissType
    <3>. QED  BY <2>1, <3>2
  <2>3. CASE i \notin enc
    BY <1>2, <2>1, <2>3 DEF UpdateBegin
  <2>. QED  BY <2>2, <2>3
<1>3. ASSUME NEW c \in Client, NEW i \in Id, UpdateLabel(c, i)
      PROVE  TypeInv'
  BY <1>3 DEF UpdateLabel, IntegrationRecord
<1>4. ASSUME NEW c \in Client, NEW i \in Id, RemoveBegin(c, i)
      PROVE  TypeInv'
  <2>1. UNCHANGED <<meta, enc, procs, registry, life, exits>>
    BY <1>4 DEF RemoveBegin, vault
  <2>2. Dismiss(c, "remove", i, None)
    BY <1>4 DEF RemoveBegin
  <2>3. /\ records' \in [Record -> IntegrationRecord]
        /\ watch' \in [Id -> WatchTask]
        /\ req' \in [Client -> RequestTask]
        /\ PointersSet'
    BY <2>2, DismissType
  <2>. QED  BY <2>1, <2>3
<1>5. ASSUME NEW n \in Proc, PrintReady(n)
      PROVE  TypeInv'
  BY SMTT(30), <1>5 DEF PrintReady, BrokerHandle, vault
<1>6. ASSUME NEW n \in Proc, NEW code \in Exited, ProcExit(n, code)
      PROVE  TypeInv'
  BY <1>6 DEF ProcExit, BrokerHandle, vault
<1>. QED  BY <1>1, <1>2, <1>3, <1>4, <1>5, <1>6 DEF Request, Handshake

\* A new record, its registration and its watcher are typed.
LEMMA RegisterType ==
    ASSUME TypeInv, NEW i \in Id, NEW p \in Perm \cup {None}, NEW n \in Proc \cup {0},
           Register(i, p, n)
    PROVE  /\ records' \in [Record -> IntegrationRecord]
           /\ registry' \in [Id -> Record \cup {0}]
           /\ watch' \in [Id -> WatchTask] /\ watch'[i].at \in {None, "wait"}
           /\ \A j \in Id \ {i} : watch'[j] = watch[j]
           /\ procs' \in [Proc -> BrokerHandle]
<1> USE DEF TypeInv, TypeOK
<1>1. PICK k \in Record :
        /\ records' = [records EXCEPT ![k] = [id |-> i, perm |-> p, state |-> "running",
                                              expected |-> FALSE, proc |-> n]]
        /\ registry' = [registry EXCEPT ![i] = k]
        /\ watch' = [watch EXCEPT ![i] = Watching(i, registry', records')]
        /\ procs' = [procs EXCEPT ![n].st = "up"]
  BY DEF Register
<1>2. records' \in [Record -> IntegrationRecord] /\ registry' \in [Id -> Record \cup {0}]
  BY <1>1 DEF IntegrationRecord
<1>3. Watching(i, registry', records') \in WatchTask
        /\ Watching(i, registry', records').at \in {None, "wait"}
  BY <1>2, WatchingType
<1>4. procs' \in [Proc -> BrokerHandle]
  BY ZenonT(30), <1>1 DEF BrokerHandle
<1>. QED  BY <1>1, <1>2, <1>3, <1>4

\* A broker's or a record's next state is typed.
LEMMA BrokerStep ==
    ASSUME TypeOK, NEW n \in Proc \cup {0}, NEW st \in Live \cup Exited \cup {None},
           procs' = [procs EXCEPT ![n].st = st]
    PROVE  procs' \in [Proc -> BrokerHandle]
BY ZenonT(30) DEF TypeOK, BrokerHandle

\* An update outside a function's domain changes nothing.
LEMMA ExceptOutside ==
    ASSUME NEW S, NEW T, NEW f \in [S -> T], NEW x, x \notin S, NEW e
    PROVE  [f EXCEPT ![x] = e] \in [S -> T]
<1>1. \A y \in S : [f EXCEPT ![x] = e][y] = f[y]
  OBVIOUS
<1>2. DOMAIN [f EXCEPT ![x] = e] = S
  OBVIOUS
<1>3. [f EXCEPT ![x] = e] = [y \in S |-> [f EXCEPT ![x] = e][y]]
  BY <1>2, Zenon
<1>. QED  BY <1>1, <1>2, <1>3

LEMMA RecordStep ==
    ASSUME TypeOK, NEW k \in Record
    PROVE  /\ \A st \in {"running", "auth_failed", "broken"} :
                  [records[k] EXCEPT !.state = st] \in IntegrationRecord
           /\ [records[k] EXCEPT !.expected = TRUE] \in IntegrationRecord
           /\ \A n \in Proc \cup {0} :
                  [records[k] EXCEPT !.proc = n, !.state = "running"] \in IntegrationRecord
           /\ \A c \in Client : Renewed(records[k], c) \in IntegrationRecord
<1> DEFINE r == records[k]
<1>1. r \in IntegrationRecord /\ req \in [Client -> RequestTask]
  BY DEF TypeOK
<1>2. ASSUME NEW st \in {"running", "auth_failed", "broken"}
      PROVE  [r EXCEPT !.state = st] \in IntegrationRecord
  BY <1>1 DEF IntegrationRecord
<1>3. [r EXCEPT !.expected = TRUE] \in IntegrationRecord
  BY <1>1 DEF IntegrationRecord
<1>4. ASSUME NEW n \in Proc \cup {0}
      PROVE  [r EXCEPT !.proc = n, !.state = "running"] \in IntegrationRecord
  BY <1>1 DEF IntegrationRecord
<1>5. ASSUME NEW c \in Client
      PROVE  Renewed(r, c) \in IntegrationRecord
  BY <1>1 DEF IntegrationRecord, Renewed, RequestTask
<1>. QED  BY <1>2, <1>3, <1>4, <1>5

LEMMA ServeType ==
    ASSUME TypeInv, NEW c \in Client, Serve(c)
    PROVE  TypeInv'
<1> USE DEF TypeInv, TypeOK
<1>0. /\ req[c] \in RequestTask /\ req \in [Client -> RequestTask]
      /\ NoReq \in RequestTask /\ NoReq.at = None
  BY Blanks
<1>1. CASE AddSecrets(c)
  <2>1. PICK n \in Proc : Fork(n, req[c].id, req[c].perm) /\ req' = [req EXCEPT ![c].at = "spawn", ![c].proc = n]
    BY <1>0, <1>1 DEF AddSecrets
  <2>2. procs' \in [Proc -> BrokerHandle]
    BY <1>0, <1>1, <2>1 DEF Fork, BrokerHandle, RequestTask, WatchTask, IntegrationRecord
  <2>3. req' \in [Client -> RequestTask] /\ PointersSet'
    BY ZenonT(30), <1>0, <1>1, <2>1 DEF RequestTask, PointersSet, None, AddSecrets, vault
  <2>4. enc' \subseteq Id
    BY <1>0, <1>1 DEF AddSecrets, PointersSet, None
  <2>5. UNCHANGED <<meta, records, registry, watch, life, exits>>
    BY <1>0, <1>1 DEF AddSecrets, vault
  <2>. QED  BY <2>1, <2>2, <2>3, <2>4, <2>5
<1>2. CASE AddUp(c)
  <2>1. Register(req[c].id, req[c].perm, req[c].proc) /\ req[c].id \in Id
    BY <1>0, <1>2 DEF AddUp, PointersSet, None
  <2>2. /\ records' \in [Record -> IntegrationRecord]
        /\ registry' \in [Id -> Record \cup {0}]
        /\ watch' \in [Id -> WatchTask] /\ watch'[req[c].id].at \in {None, "wait"}
        /\ \A j \in Id \ {req[c].id} : watch'[j] = watch[j]
        /\ procs' \in [Proc -> BrokerHandle]
    BY <1>0, <1>2, <2>1, RegisterType DEF RequestTask, WatchTask
  <2>3. req' \in [Client -> RequestTask]
    BY <1>0, <1>2 DEF AddUp
  <2>4. PointersSet'
    BY <1>0, <1>2, <2>1, <2>2 DEF AddUp, PointersSet, None
  <2>5. UNCHANGED <<meta, enc, life, exits>>
    BY <1>0, <1>2 DEF AddUp, vault
  <2>. QED  BY <2>1, <2>2, <2>3, <2>4, <2>5
<1>3. CASE AddFailed(c)
  <2>1. req' \in [Client -> RequestTask] /\ PointersSet'
    BY <1>0, <1>3 DEF AddFailed, RequestTask, PointersSet, None, vault
  <2>2. UNCHANGED <<meta, enc, procs, records, registry, watch, life, exits>>
    BY <1>0, <1>3 DEF AddFailed, vault
  <2>. QED  BY <2>1, <2>2
<1>4. CASE WipeMeta(c)
  <2>1. req' \in [Client -> RequestTask] /\ PointersSet'
    BY <1>0, <1>4 DEF WipeMeta, RequestTask, PointersSet, None, vault
  <2>2. meta' \in [Id -> Perm \cup {None}]
    BY <1>0, <1>4 DEF WipeMeta
  <2>3. UNCHANGED <<enc, procs, records, registry, watch, life, exits>>
    BY <1>0, <1>4 DEF WipeMeta, vault
  <2>. QED  BY <2>1, <2>2, <2>3
<1>5. CASE WipeSecrets(c)
  <2>1. req' \in [Client -> RequestTask] /\ PointersSet'
    BY <1>0, <1>5 DEF WipeSecrets, RequestTask, PointersSet, None, vault
  <2>2. enc' \subseteq Id
    BY <1>0, <1>5 DEF WipeSecrets
  <2>3. UNCHANGED <<meta, procs, records, registry, watch, life, exits>>
    BY <1>0, <1>5 DEF WipeSecrets, vault
  <2>. QED  BY <2>1, <2>2, <2>3
<1>6. CASE Stopped(c)
  <2>1. req' \in [Client -> RequestTask]
    BY <1>0, <1>6 DEF Stopped, RequestTask, IntegrationRecord, PointersSet, None
  <2>2. PointersSet'
    BY <1>0, <1>6 DEF Stopped, RequestTask, PointersSet, None, vault
  <2>3. registry' \in [Id -> Record \cup {0}]
    BY <1>0, <1>6 DEF Stopped, Deregistered
  <2>4. UNCHANGED <<meta, enc, procs, records, watch, life, exits>>
    BY <1>0, <1>6 DEF Stopped, vault
  <2>. QED  BY <2>1, <2>2, <2>3, <2>4
<1>7. CASE Terminated(c)
  <2> DEFINE n == req[c].proc
             st == IF procs[n].st = "up" THEN "died" ELSE procs[n].st
  <2>1. req' \in [Client -> RequestTask] /\ PointersSet'
    BY SMTT(30), <1>0, <1>7 DEF Terminated, RequestTask, PointersSet, None, vault
  <2>2. procs' = [procs EXCEPT ![n].st = st] /\ n \in Proc \cup {0}
    BY <1>0, <1>7 DEF Terminated, RequestTask
  <2>3. procs' \in [Proc -> BrokerHandle]
    <3>1. CASE n \in Proc
      <4>1. procs[n] \in BrokerHandle
        BY <3>1
      <4>2. st \in Live \cup Exited \cup {None}
        BY <4>1 DEF BrokerHandle
      <4>. QED  BY <2>2, <4>2, BrokerStep
    <3>2. CASE n = 0
      <4>1. PICK e : procs' = [procs EXCEPT ![0] = e]
        BY <2>2, <3>2
      <4>2. 0 \notin Proc /\ procs \in [Proc -> BrokerHandle]
        OBVIOUS
      <4>. QED  BY <4>1, <4>2, ExceptOutside
    <3>. QED  BY <2>2, <3>1, <3>2
  <2>4. UNCHANGED <<meta, enc, records, registry, watch, life, exits>>
    BY <1>7 DEF Terminated, vault
  <2>. QED  BY <2>1, <2>3, <2>4
<1>8. CASE UpdateRestart(c)
  <2>1. PICK n \in Proc : Fork(n, req[c].id, req[c].perm) /\ req' = [req EXCEPT ![c].at = "spawn", ![c].proc = n]
    BY <1>0, <1>8 DEF UpdateRestart
  <2>2. procs' \in [Proc -> BrokerHandle]
    BY <1>0, <1>8, <2>1 DEF Fork, BrokerHandle, RequestTask, WatchTask, IntegrationRecord
  <2>3. req' \in [Client -> RequestTask] /\ PointersSet'
    BY ZenonT(30), <1>0, <1>8, <2>1 DEF RequestTask, PointersSet, None, UpdateRestart, vault
  <2>4. UNCHANGED <<meta, enc, records, registry, watch, life, exits>>
    BY <1>0, <1>8 DEF UpdateRestart, vault
  <2>. QED  BY <2>1, <2>2, <2>3, <2>4
<1>9. CASE UpdateUp(c)
  <2>1. procs' \in [Proc -> BrokerHandle]
    BY <1>0, <1>9, BrokerStep DEF UpdateUp, RequestTask
  <2>2. records' \in [Record -> IntegrationRecord]
    BY <1>0, <1>9, RecordStep DEF UpdateUp, RequestTask
  <2>3. /\ Watching(req[c].id, registry, records') \in WatchTask
        /\ Watching(req[c].id, registry, records').at \in {None, "wait"}
    BY <1>0, <1>9, <2>2, WatchingType DEF UpdateUp, PointersSet, None
  <2>4. /\ watch' = [watch EXCEPT ![req[c].id] = Watching(req[c].id, registry, records')]
        /\ req' = [req EXCEPT ![c] = NoReq]
    BY <1>0, <1>9 DEF UpdateUp
  <2>5. watch' \in [Id -> WatchTask] /\ req' \in [Client -> RequestTask]
    BY <1>0, <1>9, <2>3, <2>4
  <2>6. PointersSet'
    BY <1>0, <1>9, <2>3, <2>4 DEF PointersSet, None
  <2>7. UNCHANGED <<meta, enc, registry, life, exits>>
    BY <1>0, <1>9 DEF UpdateUp, vault
  <2>. QED  BY <2>1, <2>2, <2>3, <2>4, <2>5, <2>6, <2>7
<1>10. CASE UpdateFailed(c)
  <2>1. req' \in [Client -> RequestTask] /\ PointersSet'
    BY <1>0, <1>10 DEF UpdateFailed, RequestTask, PointersSet, None, vault
  <2>2. records' \in [Record -> IntegrationRecord]
    BY <1>0, <1>10, RecordStep DEF UpdateFailed, RequestTask
  <2>3. UNCHANGED <<meta, enc, procs, registry, watch, life, exits>>
    BY <1>0, <1>10 DEF UpdateFailed, vault
  <2>. QED  BY <2>1, <2>2, <2>3
<1>. QED  BY <1>1, <1>2, <1>3, <1>4, <1>5, <1>6, <1>7, <1>8, <1>9, <1>10 DEF Serve

LEMMA WatcherType ==
    ASSUME TypeInv, NEW i \in Id, Watcher(i)
    PROVE  TypeInv'
<1> USE DEF TypeInv, TypeOK
<1>0. /\ watch[i] \in WatchTask /\ watch \in [Id -> WatchTask]
      /\ NoWatch \in WatchTask /\ NoWatch.at = None
  BY Blanks
<1>1. CASE WatcherWakes(i)
  <2>1. UNCHANGED <<meta, enc, procs, registry, req, life, exits>>
    BY <1>1 DEF WatcherWakes, vault
  <2>2. \/ watch' = [watch EXCEPT ![i] = NoWatch] /\ UNCHANGED records
        \/ /\ watch' = [watch EXCEPT ![i] = NoWatch] /\ registry[i] # 0
           /\ \E st \in {"auth_failed", "broken"} :
                  records' = [records EXCEPT ![registry[i]].state = st]
        \/ /\ registry[i] # 0 /\ ~GivesUp(i) /\ UNCHANGED records
           /\ watch' = [watch EXCEPT ![i].at = "backoff", ![i].rec = registry[i],
                                      ![i].proc = 0, ![i].fails = @ + 1]
    BY <1>1 DEF WatcherWakes, Ends
  <2>3. CASE watch' = [watch EXCEPT ![i] = NoWatch] /\ UNCHANGED records
    BY <1>0, <2>1, <2>3 DEF PointersSet, None
  <2>4. CASE /\ watch' = [watch EXCEPT ![i] = NoWatch] /\ registry[i] # 0
             /\ \E st \in {"auth_failed", "broken"} :
                    records' = [records EXCEPT ![registry[i]].state = st]
    <3>1. PICK st \in {"auth_failed", "broken"} :
             records' = [records EXCEPT ![registry[i]] = [records[registry[i]] EXCEPT !.state = st]]
      BY <2>4
    <3>2. registry[i] \in Record
      BY <2>4
    <3>3. records' \in [Record -> IntegrationRecord]
      BY <3>1, <3>2, RecordStep
    <3>. QED  BY <1>0, <2>1, <2>4, <3>3 DEF PointersSet, None
  <2>5. CASE /\ registry[i] # 0 /\ ~GivesUp(i) /\ UNCHANGED records
             /\ watch' = [watch EXCEPT ![i].at = "backoff", ![i].rec = registry[i],
                                        ![i].proc = 0, ![i].fails = @ + 1]
    <3>1. watch[i].fails + 1 \in 0..MaxFailures
      BY <1>0, <2>5, ManagerAssumption DEF GivesUp, WatchTask
    <3>2. watch' \in [Id -> WatchTask]
      BY ZenonT(30), <1>0, <2>5, <3>1 DEF WatchTask
    <3>3. PointersSet'
      BY <1>0, <2>1, <2>5 DEF PointersSet, WatchTask, None
    <3>. QED  BY <2>1, <2>5, <3>2, <3>3
  <2>. QED  BY <2>2, <2>3, <2>4, <2>5
<1>2. CASE Respawn(i)
  <2>1. UNCHANGED <<meta, enc, records, registry, req, life, exits>>
    BY <1>2 DEF Respawn, vault
  <2>2. CASE i \in enc
    <3>1. PICK n \in Proc : /\ Fork(n, i, records[watch[i].rec].perm)
                            /\ watch' = [watch EXCEPT ![i].at = "respawn", ![i].proc = n]
      BY <1>2, <2>2 DEF Respawn
    <3>2. records[watch[i].rec].perm \in Perm \cup {None}
      BY <1>0, <1>2 DEF Respawn, PointersSet, WatchTask, IntegrationRecord
    <3>3. procs' \in [Proc -> BrokerHandle]
      BY <3>1, <3>2, ForkType
    <3>4. watch' \in [Id -> WatchTask] /\ PointersSet'
      BY <1>0, <1>2, <2>1, <3>1 DEF Respawn, WatchTask, PointersSet, None
    <3>. QED  BY <2>1, <3>3, <3>4
  <2>3. CASE i \notin enc
    <3>1. watch' = [watch EXCEPT ![i] = NoWatch] /\ UNCHANGED procs
      BY <1>2, <2>3 DEF Respawn
    <3>2. watch' \in [Id -> WatchTask] /\ PointersSet'
      BY <1>0, <2>1, <3>1 DEF PointersSet, None
    <3>. QED  BY <2>1, <3>1, <3>2
  <2>. QED  BY <2>2, <2>3
<1>3. CASE RespawnUp(i)
  <2>1. procs' \in [Proc -> BrokerHandle]
    BY <1>0, <1>3, BrokerStep DEF RespawnUp, WatchTask
  <2>2. records' \in [Record -> IntegrationRecord]
    BY <1>0, <1>3, RecordStep DEF RespawnUp, WatchTask
  <2>3. /\ Watching(i, registry, records') \in WatchTask
        /\ Watching(i, registry, records').at \in {None, "wait"}
    BY <1>0, <1>3, <2>2, WatchingType DEF RespawnUp
  <2>4. watch' = [watch EXCEPT ![i] = Watching(i, registry, records')]
    BY <1>0, <1>3 DEF RespawnUp
  <2>5. UNCHANGED <<meta, enc, registry, req, life, exits>>
    BY <1>0, <1>3 DEF RespawnUp, vault
  <2>6. watch' \in [Id -> WatchTask]
    BY <1>0, <1>3, <2>3, <2>4
  <2>7. PointersSet'
    BY <1>0, <1>3, <2>3, <2>4, <2>5 DEF PointersSet, None
  <2>. QED  BY <2>1, <2>2, <2>3, <2>4, <2>5, <2>6, <2>7
<1>4. CASE RespawnFailed(i)
  <2>1. records' \in [Record -> IntegrationRecord]
    BY <1>0, <1>4 DEF RespawnFailed, IntegrationRecord
  <2>2. /\ Watching(i, registry, records) \in WatchTask
        /\ Watching(i, registry, records).at \in {None, "wait"}
    BY <1>0, <1>4, WatchingType
  <2>3. /\ [Watching(i, registry, records) EXCEPT !.fails = watch[i].fails] \in WatchTask
        /\ [Watching(i, registry, records) EXCEPT !.fails = watch[i].fails].at \in {None, "wait"}
    BY <1>0, <1>4, <2>2 DEF WatchTask
  <2>4. \/ watch' = [watch EXCEPT ![i] = NoWatch]
        \/ watch' = [watch EXCEPT ![i] = [Watching(i, registry, records) EXCEPT !.fails = watch[i].fails]]
    BY <1>0, <1>4 DEF RespawnFailed
  <2>5. UNCHANGED <<meta, enc, procs, registry, req, life, exits>>
    BY <1>0, <1>4 DEF RespawnFailed, vault
  <2>6. watch' \in [Id -> WatchTask]
    BY <1>0, <1>4, <2>3, <2>4
  <2>7. PointersSet'
    BY <1>0, <1>4, <2>3, <2>4, <2>5 DEF PointersSet, None
  <2>. QED  BY <2>1, <2>2, <2>3, <2>4, <2>5, <2>6, <2>7
<1>5. CASE ReconcileSpawn(i)
  <2>1. PICK n \in Proc : Fork(n, i, meta[i]) /\ watch' = [watch EXCEPT ![i].proc = n]
    BY <1>5 DEF ReconcileSpawn
  <2>2. procs' \in [Proc -> BrokerHandle]
    BY <2>1, ForkType
  <2>3. UNCHANGED <<meta, enc, records, registry, req, life, exits>>
    BY <1>5 DEF ReconcileSpawn, vault
  <2>4. watch' \in [Id -> WatchTask]
    BY <1>0, <2>1 DEF WatchTask
  <2>5. PointersSet'
    BY <1>0, <1>5, <2>1, <2>3 DEF ReconcileSpawn, PointersSet, WatchTask, None
  <2>. QED  BY <2>2, <2>3, <2>4, <2>5
<1>6. CASE Reconciled(i)
  <2>1. Register(i, meta[i], watch[i].proc) /\ i \in Id
    BY <1>0, <1>6 DEF Reconciled, PointersSet, None
  <2>2. /\ records' \in [Record -> IntegrationRecord]
        /\ registry' \in [Id -> Record \cup {0}]
        /\ watch' \in [Id -> WatchTask] /\ watch'[i].at \in {None, "wait"}
        /\ \A j \in Id \ {i} : watch'[j] = watch[j]
        /\ procs' \in [Proc -> BrokerHandle]
    BY <1>0, <1>6, <2>1, RegisterType DEF RequestTask, WatchTask
  <2>3. PointersSet'
    BY <1>0, <1>6, <2>2 DEF Reconciled, PointersSet, None
  <2>4. UNCHANGED <<meta, enc, req, life, exits>>
    BY <1>0, <1>6 DEF Reconciled, vault
  <2>. QED  BY <2>1, <2>2, <2>3, <2>4
<1>7. CASE ReconcileFailed(i)
  <2>1. watch' \in [Id -> WatchTask] /\ PointersSet'
    BY <1>0, <1>7 DEF ReconcileFailed, PointersSet, None, vault
  <2>2. UNCHANGED <<meta, enc, procs, records, registry, req, life, exits>>
    BY <1>0, <1>7 DEF ReconcileFailed, vault
  <2>. QED  BY <2>1, <2>2
<1>. QED  BY <1>1, <1>2, <1>3, <1>4, <1>5, <1>6, <1>7 DEF Watcher

LEMMA LifeType ==
    ASSUME TypeInv,
           Boot \/ Listen \/ StopAll \/ Exit \/ \E i \in Id : StopBroker(i)
    PROVE  TypeInv'
<1> USE DEF TypeInv, TypeOK
<1>1. CASE Boot
  <2>1. watch' \in [Id -> WatchTask]
    BY <1>1, Blanks DEF Boot, WatchTask
  <2>2. PointersSet'
    BY <1>1, Blanks DEF Boot, PointersSet, WatchTask, None
  <2>3. UNCHANGED <<meta, enc, procs, records, registry, req, exits>> /\ life' = "booting"
    BY <1>1 DEF Boot, vault
  <2>. QED  BY <2>1, <2>2, <2>3
<1>2. CASE Listen
  BY <1>2 DEF Listen, PointersSet, vault
<1>3. CASE StopAll
  <2>1. records' \in [Record -> IntegrationRecord]
    BY <1>3, RecordStep DEF StopAll
  <2>2. watch' \in [Id -> WatchTask] /\ PointersSet'
    BY <1>3, Blanks DEF StopAll, PointersSet, None
  <2>3. UNCHANGED <<meta, enc, procs, registry, req, exits>> /\ life' = "stopping"
    BY <1>3 DEF StopAll, vault
  <2>. QED  BY <2>1, <2>2, <2>3
<1>4. CASE Exit
  <2>1. /\ watch' = [i \in Id |-> NoWatch] /\ req' = [c \in Client |-> NoReq]
        /\ procs' = [n \in Proc |-> NoProc] /\ records' = [k \in Record |-> NoRecord]
        /\ registry' = [i \in Id |-> 0]
        /\ life' = "down" /\ UNCHANGED <<meta, enc>>
    BY <1>4 DEF Exit, vault
  <2>2. exits' \in 0..MaxExits
    BY <1>4, ManagerAssumption DEF Exit
  <2>3. PointersSet'
    BY <2>1, Blanks DEF PointersSet, None
  <2>4. /\ watch' \in [Id -> WatchTask] /\ req' \in [Client -> RequestTask]
        /\ procs' \in [Proc -> BrokerHandle] /\ records' \in [Record -> IntegrationRecord]
        /\ registry' \in [Id -> Record \cup {0}]
    BY <2>1, Blanks
  <2>. QED  BY <2>1, <2>2, <2>3, <2>4
<1>5. ASSUME NEW i \in Id, StopBroker(i)
      PROVE  TypeInv'
  <2>1. procs' \in [Proc -> BrokerHandle]
    BY <1>5, BrokerStep DEF StopBroker, IntegrationRecord
  <2>2. UNCHANGED <<meta, enc, records, registry, watch, req, life, exits>>
    BY <1>5 DEF StopBroker, vault
  <2>. QED  BY <2>1, <2>2 DEF PointersSet
<1>. QED  BY <1>1, <1>2, <1>3, <1>4, <1>5

LEMMA NextType == TypeInv /\ [Next]_vars => TypeInv'
<1> SUFFICES ASSUME TypeInv, [Next]_vars PROVE TypeInv'
  OBVIOUS
<1>1. CASE UNCHANGED vars
  BY <1>1 DEF vars, TypeInv, TypeOK, PointersSet
<1>. QED  BY <1>1, RequestType, ServeType, WatcherType, LifeType DEF Next

\* Every variable of the supervisor keeps its type, overlapping requests or not.
THEOREM TypeCorrect == Spec => []TypeOK
<1>1. TypeInv => TypeOK
  BY DEF TypeInv
<1>. QED  BY <1>1, InitType, NextType, PTL DEF Spec

-----------------------------------------------------------------------------
(* The invariant, when requests for one id do not overlap.                  *)

LEMMA TypeFromInv == ManagerInv => TypeInv
BY NoneAssumption DEF ManagerInv, InCharge, Follows, TypeInv, TypeOK, PointersSet,
   RequestTask, WatchTask, NoReq, None

LEMMA InitInv == Init => ManagerInv
<1>1. Init => TypeOK
  BY InitType DEF TypeInv
<1>2. Init => /\ Alone /\ \A c \in Client : InCharge(c)
              /\ \A i \in Id : Follows(i)
              /\ \A i \in Id : registry[i] = 0
  BY Blanks DEF Init, Alone, InCharge, Follows, None
<1>3. Init => ReadyIsHeld
  BY Blanks DEF Init, ReadyIsHeld, None
<1>. QED  BY <1>1, <1>2, <1>3 DEF ManagerInv

\* Two registered ids have two records.
LEMMA OwnRecord ==
    ASSUME ManagerInv, NEW i \in Id, NEW j \in Id, registry[i] # 0, registry[i] = registry[j]
    PROVE  i = j
BY DEF ManagerInv, Sound

\* A started broker has a number that nothing refers to.
Fresh(n) ==
    /\ \A j \in Id : watch[j].proc # n
    /\ \A c \in Client : req[c].proc # n
    /\ \A j \in Id : registry[j] # 0 => records[registry[j]].proc # n
    /\ \A c \in Client : req[c].rec # 0 => records[req[c].rec].proc # n
    /\ \A j \in Id : watch[j].rec # 0 => records[watch[j].rec].proc # n

LEMMA ForkFresh ==
    ASSUME TypeOK, NEW n \in Proc, NEW i, NEW p, Fork(n, i, p)
    PROVE  /\ Fresh(n) /\ procs[n].st \notin Live
           /\ procs' = [procs EXCEPT ![n] = [st |-> "booting", id |-> i, env |-> p]]
BY DEF Fork, FreshProc, Referred, Known, Fresh

\* A new record has a number that nothing refers to.
LEMMA RecordFresh ==
    ASSUME NEW k \in Record, FreshRecord(k)
    PROVE  /\ \A j \in Id : registry[j] # k /\ watch[j].rec # k
           /\ \A c \in Client : req[c].rec # k
BY DEF FreshRecord, Known

\* A request without overlap finds its id free.
LEMMA Idleness ==
    ASSUME ~Overlap, NEW c \in Client, NEW i \in Id, Idle(c, i)
    PROVE  req[c] = NoReq /\ \A d \in Client : req[d].id # i
BY DEF Idle, InFlight

\* What records, requests and watchers refer to exists.
LEMMA Referents ==
    ASSUME ManagerInv
    PROVE  /\ TypeOK
           /\ \A i \in Id : registry[i] # 0 =>
                  /\ registry[i] \in Record /\ records[registry[i]] \in IntegrationRecord
                  /\ records[registry[i]].proc \in Proc
           /\ \A c \in Client :
                  /\ req[c].verb # None => req[c].id \in Id
                  /\ req[c].at # None => req[c].verb # None
                  /\ req[c].id # None => req[c].verb # None
                  /\ req[c].proc # 0 => req[c].proc \in Proc
                  /\ req[c].verb = "update" =>
                        /\ req[c].rec = registry[req[c].id] /\ req[c].rec \in Record
                        /\ registry[req[c].id] # 0
                        /\ records[req[c].rec].proc \in Proc
           /\ \A i \in Id :
                  /\ watch[i].proc # 0 => watch[i].proc \in Proc
                  /\ watch[i].at \in {"wait", "backoff", "respawn"} =>
                        /\ watch[i].rec = registry[i] /\ registry[i] # 0
                        /\ watch[i].rec \in Record /\ records[watch[i].rec].proc \in Proc
<1>1. TypeOK /\ \A i \in Id : registry[i] # 0 => Sound(i)
  BY DEF ManagerInv
<1>2. ASSUME NEW i \in Id, registry[i] # 0
      PROVE  /\ registry[i] \in Record /\ records[registry[i]] \in IntegrationRecord
             /\ records[registry[i]].proc \in Proc
  BY <1>1, <1>2 DEF Sound, TypeOK, IntegrationRecord
<1>3. ASSUME NEW c \in Client
      PROVE  /\ req[c].verb # None => req[c].id \in Id
             /\ req[c].at # None => req[c].verb # None
             /\ req[c].id # None => req[c].verb # None
             /\ req[c].proc # 0 => req[c].proc \in Proc
             /\ req[c].verb = "update" =>
                   /\ req[c].rec = registry[req[c].id] /\ req[c].rec \in Record
                   /\ registry[req[c].id] # 0
                   /\ records[req[c].rec].proc \in Proc
  <2>1. InCharge(c) /\ req[c] \in RequestTask
    BY <1>1 DEF ManagerInv, TypeOK
  <2>2. /\ req[c].verb # None => req[c].id \in Id
        /\ req[c].at # None => req[c].verb # None
        /\ req[c].id # None => req[c].verb # None
        /\ req[c].proc # 0 => req[c].proc \in Proc
        /\ req[c].verb = "update" =>
              req[c].rec = registry[req[c].id] /\ registry[req[c].id] # 0
    BY <2>1 DEF InCharge, NoReq, RequestTask, None
  <2>. QED  BY <2>2, <1>2 DEF None
<1>4. ASSUME NEW i \in Id
      PROVE  /\ watch[i].proc # 0 => watch[i].proc \in Proc
             /\ watch[i].at \in {"wait", "backoff", "respawn"} =>
                   /\ watch[i].rec = registry[i] /\ registry[i] # 0
                   /\ watch[i].rec \in Record /\ records[watch[i].rec].proc \in Proc
  <2>1. Follows(i) /\ watch[i] \in WatchTask
    BY <1>1 DEF ManagerInv, TypeOK
  <2>. QED  BY <2>1, <1>2 DEF Follows, WatchTask
<1>. QED  BY <1>1, <1>2, <1>3, <1>4

\* Broker n is not started again: it stays what it is, or ends.
Keeps(n) ==
    /\ procs'[n].env = procs[n].env
    /\ procs[n].st \in Exited => procs'[n].st \in Exited
    /\ procs[n].st = "up" => procs'[n].st \in {"up"} \cup Exited

\* A step that leaves alone what a part speaks of preserves it.
LEMMA InChargeFrame ==
    ASSUME NEW c \in Client, InCharge(c), req'[c] = req[c],
           req[c].verb # None =>
               LET i == req[c].id  m == records[req[c].rec].proc IN
               /\ life' \in {"serving", "stopping"}
               /\ meta'[i] = meta[i] /\ (i \in enc => i \in enc')
               /\ registry'[i] = registry[i] /\ watch'[i] = watch[i]
               /\ req[c].proc # 0 => Keeps(req[c].proc)
               /\ req[c].verb = "update" => records'[req[c].rec].proc = m /\ Keeps(m)
    PROVE  InCharge(c)'
<1>1. CASE req[c].verb = None
  BY <1>1 DEF InCharge, NoReq, None
<1>2. CASE req[c].verb # None
  <2> DEFINE i == req[c].id
             n == req[c].proc
             m == records[req[c].rec].proc
  <2>1. /\ life' \in {"serving", "stopping"}
        /\ meta'[i] = meta[i] /\ (i \in enc => i \in enc')
        /\ registry'[i] = registry[i] /\ watch'[i] = watch[i]
    BY <1>2
  <2>2. n # 0 => /\ procs'[n].env = procs[n].env
                 /\ procs[n].st \in Exited => procs'[n].st \in Exited
                 /\ procs[n].st = "up" => procs'[n].st \in {"up"} \cup Exited
    BY <1>2 DEF Keeps
  <2>3. req[c].verb = "update" => /\ records'[req[c].rec].proc = m
                                  /\ procs[m].st \in Exited => procs'[m].st \in Exited
    BY <1>2 DEF Keeps
  <2>. QED  BY SMTT(30), <1>2, <2>1, <2>2, <2>3 DEF InCharge
<1>. QED  BY <1>1, <1>2

LEMMA SoundFrame ==
    ASSUME NEW i \in Id, registry[i] # 0, Sound(i),
           registry'[i] = registry[i], records'[registry[i]] = records[registry[i]],
           meta'[i] = meta[i], i \in enc', Keeps(records[registry[i]].proc),
           \A c \in Client : req[c].id = i => req'[c].id = i,
           life' = "stopping" \/ (watch'[i].at = watch[i].at /\ life' = life)
    PROVE  Sound(i)'
BY DEF Sound, Keeps

LEMMA FollowsFrame ==
    ASSUME NEW i \in Id, Follows(i), watch'[i] = watch[i],
           watch[i].at # None =>
               /\ registry'[i] = registry[i] /\ meta'[i] = meta[i]
               /\ i \in enc => i \in enc'
               /\ watch[i].proc # 0 => Keeps(watch[i].proc)
               /\ watch[i].at = "reconcile" => life' = "booting"
               /\ watch[i].at \in {"wait", "backoff", "respawn"} =>
                     /\ records'[watch[i].rec] = records[watch[i].rec]
                     /\ Keeps(records[watch[i].rec].proc)
    PROVE  Follows(i)'
BY DEF Follows, Keeps, None

\* Steps of brokers alone: started ones get ready or end, none is taken in.
LEMMA ProcessStep ==
    ASSUME ManagerInv, TypeOK',
           UNCHANGED <<vault, records, registry, watch, req, life, exits>>,
           \A n \in Proc : Keeps(n) /\ (procs'[n].st = "up" => procs[n].st = "up")
    PROVE  ManagerInv'
<1>1. UNCHANGED <<meta, enc, records, registry, watch, req, life, exits>>
  BY DEF vault
<1>2. Alone'
  BY <1>1 DEF ManagerInv, Alone
<1>3. ASSUME NEW c \in Client
      PROVE  InCharge(c)'
  <2>1. InCharge(c)
    BY DEF ManagerInv
  <2>2. req[c].verb # None => life \in {"serving", "stopping"}
    BY <2>1 DEF InCharge
  <2>. QED  BY <1>1, <2>1, <2>2, InChargeFrame, Referents
<1>4. ASSUME NEW i \in Id, registry'[i] # 0
      PROVE  Sound(i)'
  <2>1. registry[i] # 0 /\ Sound(i) /\ i \in enc
    BY <1>1, <1>4 DEF ManagerInv, Sound
  <2>. QED  BY <1>1, <2>1, SoundFrame, Referents
<1>5. ASSUME NEW i \in Id
      PROVE  Follows(i)'
  <2>1. Follows(i)
    BY DEF ManagerInv
  <2>2. watch[i].at = "reconcile" => life = "booting"
    BY <2>1 DEF Follows
  <2>. QED  BY <1>1, <2>1, <2>2, FollowsFrame, Referents
<1>6. ReadyIsHeld'
  BY <1>1 DEF ManagerInv, ReadyIsHeld, HeldBy
<1>. QED  BY <1>1, <1>2, <1>3, <1>4, <1>5, <1>6 DEF ManagerInv

\* A step for id i leaves every other id alone.
Local(i) ==
    /\ life # "down" /\ life' = life
    /\ \A j \in Id \ {i} :
          /\ meta'[j] = meta[j] /\ (j \in enc => j \in enc')
          /\ registry'[j] = registry[j] /\ watch'[j] = watch[j]
          /\ registry[j] # 0 => records'[registry[j]] = records[registry[j]]
    /\ \A c \in Client : req'[c] = req[c] \/ {req[c].id, req'[c].id} \subseteq {i, None}
    /\ \A n \in Proc : Keeps(n) \/ Fresh(n)

\* Then what remains to be shown is about i and the requests for i.
LEMMA LocalStep ==
    ASSUME ManagerInv, TypeOK', NEW i \in Id, Local(i), Alone',
           \A c \in Client : InCharge(c)' \/ (req'[c] = req[c] /\ req[c].id # i),
           registry'[i] # 0 => Sound(i)', Follows(i)', ReadyIsHeld'
    PROVE  ManagerInv'
<1>1. ASSUME NEW c \in Client
      PROVE  InCharge(c)'
  <2> SUFFICES ASSUME req'[c] = req[c], req[c].id # i PROVE InCharge(c)'
    OBVIOUS
  <2> DEFINE j == req[c].id
  <2>1. InCharge(c) /\ (req[c].verb # None => life \in {"serving", "stopping"})
    BY DEF ManagerInv, InCharge
  <2>2. ASSUME req[c].verb # None
        PROVE  /\ j \in Id \ {i}
               /\ life' \in {"serving", "stopping"}
               /\ meta'[j] = meta[j] /\ (j \in enc => j \in enc')
               /\ registry'[j] = registry[j] /\ watch'[j] = watch[j]
               /\ req[c].proc # 0 => Keeps(req[c].proc)
    BY <2>1, <2>2, Referents DEF Local, Fresh
  <2>3. ASSUME req[c].verb = "update"
        PROVE  /\ records'[req[c].rec].proc = records[req[c].rec].proc
               /\ Keeps(records[req[c].rec].proc)
    <3>1. j \in Id \ {i} /\ req[c].rec = registry[j] /\ registry[j] # 0
      BY <2>2, <2>3, Referents DEF None
    <3>. QED  BY <2>3, <3>1, Referents DEF Local, Fresh
  <2>. QED  BY <2>1, <2>2, <2>3, InChargeFrame
<1>2. ASSUME NEW j \in Id, registry'[j] # 0
      PROVE  Sound(j)'
  <2>1. CASE j = i
    BY <1>2, <2>1
  <2>2. CASE j # i
    <3>1. registry'[j] = registry[j] /\ registry[j] # 0
      BY <1>2, <2>2 DEF Local
    <3>2. Sound(j) /\ j \in enc
      BY <3>1 DEF ManagerInv, Sound
    <3>3. \A c \in Client : req[c].id = j => req'[c].id = j
      BY <2>2, NoneAssumption DEF Local
    <3>4. Keeps(records[registry[j]].proc)
      BY <3>1, Referents DEF Local, Fresh
    <3>. QED  BY <2>2, <3>1, <3>2, <3>3, <3>4, SoundFrame DEF Local
  <2>. QED  BY <2>1, <2>2
<1>3. ASSUME NEW j \in Id
      PROVE  Follows(j)'
  <2>1. CASE j = i
    BY <2>1
  <2>2. CASE j # i
    <3>1. Follows(j) /\ (watch[j].at = "reconcile" => life = "booting")
      BY DEF ManagerInv, Follows
    <3>2. watch[j].proc # 0 => Keeps(watch[j].proc)
      BY Referents DEF Local, Fresh
    <3>3. watch[j].at \in {"wait", "backoff", "respawn"} =>
              /\ records'[watch[j].rec] = records[watch[j].rec]
              /\ Keeps(records[watch[j].rec].proc)
      BY <2>2, Referents DEF Local, Fresh
    <3>. QED  BY <2>2, <3>1, <3>2, <3>3, FollowsFrame DEF Local
  <2>. QED  BY <2>1, <2>2
<1>. QED  BY <1>1, <1>2, <1>3 DEF ManagerInv, Local

\* A request keeps its id, takes a free one, or ends.
LEMMA AloneStep ==
    ASSUME ManagerInv, NEW c \in Client, \A d \in Client \ {c} : req'[d] = req[d],
           \/ req'[c].id \in {None, req[c].id}
           \/ \A d \in Client : req[d].id # req'[c].id
    PROVE  Alone'
BY DEF ManagerInv, Alone

\* Brokers in use stay held: those that were, and those a step takes in.
LEMMA HeldStep ==
    ASSUME ManagerInv, NEW i \in Id, Local(i),
           \A n \in Proc : procs'[n].st = "up" =>
              \/ HeldBy(n)'
              \/ /\ procs[n].st = "up"
                 /\ registry[i] # 0 => records[registry[i]].proc # n
                 /\ \A c \in Client : req[c].proc = n => req'[c].proc = n
    PROVE  ReadyIsHeld'
<1> SUFFICES ASSUME NEW n \in Proc, procs'[n].st = "up", procs[n].st = "up",
                    registry[i] # 0 => records[registry[i]].proc # n,
                    \A c \in Client : req[c].proc = n => req'[c].proc = n
             PROVE  HeldBy(n)'
  BY DEF ReadyIsHeld
<1>1. HeldBy(n)
  BY DEF ManagerInv, ReadyIsHeld
<1>2. ASSUME NEW j \in Id, registry[j] # 0, records[registry[j]].proc = n
      PROVE  registry'[j] # 0 /\ records'[registry'[j]].proc = n
  BY <1>2 DEF Local
<1>. QED  BY <1>1, <1>2 DEF HeldBy

\* A request that is served has its id to itself.
LEMMA Served ==
    ASSUME ManagerInv, NEW c \in Client, req[c].at # None
    PROVE  /\ InCharge(c) /\ req[c].id \in Id
           /\ \A d \in Client \ {c} : req[d].id # req[c].id
           /\ watch[req[c].id].at = None
           /\ life \in {"serving", "stopping"}
           /\ req[c].verb \in {"add", "remove", "update"}
<1>1. InCharge(c) /\ req[c].verb # None /\ req[c].id \in Id /\ req[c] \in RequestTask
  BY Referents DEF ManagerInv, TypeOK
<1>2. req[c].id # None
  BY <1>1, NoneAssumption
<1>. QED  BY <1>1, <1>2 DEF InCharge, ManagerInv, Alone, RequestTask

LEMMA AddBeginInv ==
    ASSUME ManagerInv, TypeOK', ~Overlap, NEW c \in Client, NEW i \in Id, NEW p \in Perm,
           AddBegin(c, i, p)
    PROVE  ManagerInv'
<1> DEFINE q == [verb |-> "add", id |-> i, perm |-> p, rec |-> 0, proc |-> 0, at |-> "secrets"]
<1>1. /\ UNCHANGED <<enc, procs, records, registry, watch, life, exits>>
      /\ meta' = [meta EXCEPT ![i] = p] /\ registry[i] = 0
      /\ req' = [req EXCEPT ![c] = q]
      /\ life \in {"serving", "stopping"}
  BY DEF AddBegin, Begin
<1>2. req[c] = NoReq /\ \A d \in Client : req[d].id # i
  BY Idleness DEF AddBegin, Begin
<1>3. TypeOK /\ req \in [Client -> RequestTask] /\ meta \in [Id -> Perm \cup {None}]
      /\ Follows(i)
  BY <1>1 DEF ManagerInv, TypeOK
<1>4. req'[c] = q /\ \A d \in Client \ {c} : req'[d] = req[d]
  BY <1>1, <1>3
<1>5. Local(i)
  BY <1>1, <1>2, <1>3, <1>4, Blanks DEF Local, Keeps
<1>6. Alone'
  BY <1>2, <1>4, AloneStep
<1>7. watch[i].at = None
  BY <1>1, <1>3 DEF Follows, TypeOK, WatchTask, None
<1>8. InCharge(c)'
  BY <1>1, <1>3, <1>4, <1>7 DEF InCharge, None
<1>9. Follows(i)'
  BY <1>1, <1>7 DEF Follows, None
<1>10. ReadyIsHeld'
  BY <1>1, <1>2, <1>4, <1>5, HeldStep DEF NoReq
<1>. QED  BY <1>1, <1>2, <1>4, <1>5, <1>6, <1>8, <1>9, <1>10, LocalStep

LEMMA DismissInv ==
    ASSUME ManagerInv, TypeOK', ~Overlap, NEW c \in Client, NEW i \in Id,
           NEW verb \in {"remove", "update"}, NEW p, Dismiss(c, verb, i, p),
           life \in {"serving", "stopping"}, UNCHANGED <<enc, procs, registry, life, exits>>,
           \A j \in Id \ {i} : meta'[j] = meta[j], meta'[i] # None,
           verb = "update" => p \in Perm /\ meta'[i] = p
    PROVE  ManagerInv'
<1> DEFINE k == registry[i]
           q == [verb |-> verb, id |-> i, perm |-> p, rec |-> k, proc |-> 0,
                 at |-> IF watch[i].at = None THEN "stopped" ELSE "gather"]
<1>1. /\ req' = [req EXCEPT ![c] = q] /\ watch' = [watch EXCEPT ![i] = NoWatch]
      /\ records' = [records EXCEPT ![k] = [records[k] EXCEPT !.expected = TRUE]]
      /\ req[c] = NoReq /\ \A d \in Client : req[d].id # i
  BY Idleness DEF Dismiss, Begin
<1>2. /\ TypeOK /\ req \in [Client -> RequestTask] /\ watch \in [Id -> WatchTask]
      /\ records \in [Record -> IntegrationRecord]
      /\ k # 0 /\ k \in Record /\ records[k] \in IntegrationRecord
      /\ Sound(i)
  BY Referents DEF ManagerInv, TypeOK, Dismiss
<1>3. /\ req'[c] = q /\ \A d \in Client \ {c} : req'[d] = req[d]
      /\ watch'[i] = NoWatch /\ \A j \in Id \ {i} : watch'[j] = watch[j]
      /\ records'[k] = [records[k] EXCEPT !.expected = TRUE]
      /\ \A l \in Record \ {k} : records'[l] = records[l]
  BY <1>1, <1>2
<1>4. ASSUME NEW j \in Id \ {i}, registry[j] # 0
      PROVE  records'[registry[j]] = records[registry[j]]
  BY <1>3, <1>4, OwnRecord, Referents
<1>5. Local(i)
  <2>1. \A d \in Client : req'[d] = req[d] \/ {req[d].id, req'[d].id} \subseteq {i, None}
    BY <1>1, <1>3, Blanks
  <2>2. \A n \in Proc : Keeps(n)
    BY DEF Keeps
  <2>. QED  BY <1>3, <1>4, <2>1, <2>2 DEF Local
<1>6. Alone'
  BY <1>1, <1>3, AloneStep
<1>7. InCharge(c)'
  BY <1>2, <1>3, Blanks DEF InCharge, None
<1>8. Sound(i)'
  <2>1. /\ records'[registry'[i]].id = i /\ records'[registry'[i]].perm = records[k].perm
        /\ records'[registry'[i]].state = records[k].state
        /\ records'[registry'[i]].proc = records[k].proc
    BY <1>2, <1>3 DEF Sound, IntegrationRecord
  <2>. QED  BY <1>2, <1>3, <2>1 DEF Sound
<1>9. Follows(i)'
  BY <1>3, Blanks DEF Follows, None
<1>10. ReadyIsHeld'
  <2>1. records'[registry'[i]].proc = records[k].proc /\ registry'[i] # 0
    BY <1>2, <1>3 DEF IntegrationRecord
  <2>. QED  BY <1>1, <1>3, <1>5, <2>1, HeldStep DEF NoReq, HeldBy
<1>. QED  BY <1>1, <1>3, <1>5, <1>6, <1>7, <1>8, <1>9, <1>10, LocalStep

LEMMA RequestInv ==
    ASSUME ManagerInv, TypeOK', ~Overlap, Request
    PROVE  ManagerInv'
<1>1. ASSUME NEW c \in Client, NEW i \in Id, NEW p \in Perm, UpdateBegin(c, i, p)
      PROVE  ManagerInv'
  <2>1. i \in enc /\ meta' = [meta EXCEPT ![i] = p]
    BY <1>1 DEF UpdateBegin, ManagerInv, Sound
  <2>2. Dismiss(c, "update", i, p)
    BY <1>1, <2>1 DEF UpdateBegin
  <2>3. meta'[i] = p /\ p # None /\ \A j \in Id \ {i} : meta'[j] = meta[j]
    BY <2>1, NoneAssumption DEF ManagerInv, TypeOK
  <2>. QED  BY <1>1, <2>2, <2>3, DismissInv DEF UpdateBegin
<1>2. ASSUME NEW c \in Client, NEW i \in Id, RemoveBegin(c, i)
      PROVE  ManagerInv'
  <2>1. Dismiss(c, "remove", i, None) /\ meta' = meta /\ registry[i] # 0
    BY <1>2 DEF RemoveBegin, Dismiss, vault
  <2>2. meta[i] # None
    BY <2>1 DEF ManagerInv, Sound
  <2>3. life \in {"serving", "stopping"} /\ UNCHANGED <<enc, procs, registry, life, exits>>
    BY <1>2 DEF RemoveBegin, vault
  <2>. QED  BY <2>1, <2>2, <2>3, DismissInv
<1>3. ASSUME NEW c \in Client, NEW i \in Id, UpdateLabel(c, i)
      PROVE  ManagerInv'
  <2>1. /\ UNCHANGED <<enc, procs, records, registry, watch, req, life, exits>>
        /\ meta' = [meta EXCEPT ![i] = records[registry[i]].perm]
        /\ registry[i] # 0 /\ life \in {"serving", "stopping"}
        /\ \A d \in Client : req[d].id # i
    BY <1>3, Idleness DEF UpdateLabel
  <2>2. TypeOK /\ Sound(i) /\ Follows(i) /\ meta \in [Id -> Perm \cup {None}]
    BY <2>1 DEF ManagerInv, TypeOK
  <2>3. meta'[i] = records[registry[i]].perm /\ \A j \in Id \ {i} : meta'[j] = meta[j]
    BY <2>1, <2>2
  <2>4. Local(i)
    BY <2>1, <2>3 DEF Local, Keeps
  <2>5. Alone' /\ ReadyIsHeld'
    BY <2>1 DEF ManagerInv, Alone, ReadyIsHeld, HeldBy
  <2>6. Sound(i)'
    BY <2>1, <2>2, <2>3, NoneAssumption DEF Sound
  <2>7. Follows(i)'
    BY <2>1, <2>2 DEF Follows
  <2>. QED  BY <2>1, <2>4, <2>5, <2>6, <2>7, LocalStep
<1>. QED  BY <1>1, <1>2, <1>3, AddBeginInv DEF Request

LEMMA AddServedInv ==
    ASSUME ManagerInv, TypeOK', NEW c \in Client,
           AddSecrets(c) \/ AddFailed(c) \/ WipeMeta(c) \/ WipeSecrets(c)
    PROVE  ManagerInv'
<1>0. /\ TypeOK /\ req[c] \in RequestTask /\ req \in [Client -> RequestTask]
      /\ meta \in [Id -> Perm \cup {None}] /\ procs \in [Proc -> BrokerHandle]
  BY DEF ManagerInv, TypeOK
<1>1. PICK i \in Id :
      /\ req[c].id = i /\ InCharge(c) /\ watch[i].at = None
      /\ \A d \in Client \ {c} : req[d].id # i
      /\ life \in {"serving", "stopping"} /\ req[c].verb \in {"add", "remove", "update"}
  BY Served DEF AddSecrets, AddFailed, WipeMeta, WipeSecrets, None
<1>2. req[c].verb = "add" \/ req[c].at \in {"wipe", "unlink"}
  BY <1>1 DEF InCharge, AddSecrets, AddFailed, WipeMeta, WipeSecrets
<1>3. registry[i] = 0
  BY <1>1, <1>2 DEF InCharge
<1>4. CASE AddSecrets(c)
  <2>1. PICK n \in Proc : /\ Fork(n, i, req[c].perm)
                          /\ req' = [req EXCEPT ![c] = [req[c] EXCEPT !.at = "spawn", !.proc = n]]
    BY <1>1, <1>4 DEF AddSecrets
  <2>2. /\ UNCHANGED <<meta, records, registry, watch, life, exits>>
        /\ enc' = enc \cup {i} /\ req[c].at = "secrets"
    BY <1>1, <1>4 DEF AddSecrets
  <2>3. /\ req'[c].verb = req[c].verb /\ req'[c].id = i /\ req'[c].perm = req[c].perm
        /\ req'[c].rec = req[c].rec /\ req'[c].proc = n /\ req'[c].at = "spawn"
        /\ \A d \in Client \ {c} : req'[d] = req[d]
    BY <1>0, <1>1, <2>1 DEF RequestTask
  <2>4. Fresh(n) /\ procs' = [procs EXCEPT ![n] = [st |-> "booting", id |-> i, env |-> req[c].perm]]
    BY <1>0, <2>1, ForkFresh
  <2>5. procs'[n].env = req[c].perm /\ procs'[n].st # "up" /\ \A m \in Proc \ {n} : procs'[m] = procs[m]
    BY <1>0, <2>4
  <2>6. Local(i)
    BY <1>1, <2>2, <2>3, <2>4, <2>5 DEF Local, Keeps
  <2>7. InCharge(c)'
    BY <1>1, <2>2, <2>3, <2>5 DEF InCharge, None
  <2>8. Follows(i)'
    BY <1>1, <2>2 DEF Follows, None
  <2>9. ReadyIsHeld'
    <3>1. req[c].proc = 0
      BY <1>1, <2>2 DEF InCharge
    <3>. QED  BY <1>1, <1>3, <2>3, <2>5, <2>6, <3>1, HeldStep
  <2>. QED  BY <1>1, <1>3, <2>2, <2>3, <2>6, <2>7, <2>8, <2>9, LocalStep, AloneStep
<1>5. CASE AddFailed(c)
  <2>1. /\ UNCHANGED <<meta, enc, procs, records, registry, watch, life, exits>>
        /\ req[c].at = "spawn" /\ req[c].verb = "add" /\ procs[req[c].proc].st \in Exited
    BY <1>5 DEF AddFailed, vault
  <2>2. /\ req'[c].verb = req[c].verb /\ req'[c].id = i /\ req'[c].perm = req[c].perm
        /\ req'[c].rec = req[c].rec /\ req'[c].proc = req[c].proc /\ req'[c].at = "wipe"
        /\ \A d \in Client \ {c} : req'[d] = req[d]
    BY <1>0, <1>1, <1>5 DEF RequestTask, AddFailed
  <2>3. Local(i)
    BY <1>1, <2>1, <2>2 DEF Local, Keeps
  <2>4. InCharge(c)'
    BY <1>1, <2>1, <2>2 DEF InCharge, None
  <2>5. Follows(i)'
    BY <1>1, <2>1 DEF Follows, None
  <2>6. ReadyIsHeld'
    BY <1>1, <1>3, <2>1, <2>2, <2>3, HeldStep
  <2>. QED  BY <1>1, <1>3, <2>1, <2>2, <2>3, <2>4, <2>5, <2>6, LocalStep, AloneStep
<1>6. CASE WipeMeta(c)
  <2>1. /\ UNCHANGED <<enc, procs, records, registry, watch, life, exits>>
        /\ meta' = [meta EXCEPT ![i] = None] /\ req[c].at = "wipe"
    BY <1>1, <1>6 DEF WipeMeta
  <2>2. /\ req'[c].verb = req[c].verb /\ req'[c].id = i /\ req'[c].perm = req[c].perm
        /\ req'[c].rec = req[c].rec /\ req'[c].proc = req[c].proc /\ req'[c].at = "unlink"
        /\ \A d \in Client \ {c} : req'[d] = req[d]
    BY <1>0, <1>1, <1>6 DEF RequestTask, WipeMeta
  <2>3. Local(i)
    BY <1>0, <1>1, <2>1, <2>2 DEF Local, Keeps
  <2>4. InCharge(c)'
    BY <1>1, <2>1, <2>2 DEF InCharge, None
  <2>5. Follows(i)'
    BY <1>1, <2>1 DEF Follows, None
  <2>6. ReadyIsHeld'
    BY <1>1, <1>3, <2>1, <2>2, <2>3, HeldStep
  <2>. QED  BY <1>1, <1>3, <2>1, <2>2, <2>3, <2>4, <2>5, <2>6, LocalStep, AloneStep
<1>7. CASE WipeSecrets(c)
  <2>1. /\ UNCHANGED <<meta, procs, records, registry, watch, life, exits>>
        /\ enc' = enc \ {i} /\ req[c].at = "unlink"
    BY <1>1, <1>7 DEF WipeSecrets
  <2>2. req'[c] = NoReq /\ \A d \in Client \ {c} : req'[d] = req[d]
    BY <1>0, <1>7 DEF WipeSecrets
  <2>3. Local(i)
    BY <1>1, <2>1, <2>2, Blanks DEF Local, Keeps
  <2>4. InCharge(c)'
    BY <2>2 DEF InCharge, NoReq, None
  <2>5. Follows(i)'
    BY <1>1, <2>1 DEF Follows, None
  <2>6. ReadyIsHeld'
    <3>1. procs[req[c].proc].st \in Exited
      BY <1>1, <2>1 DEF InCharge
    <3>. QED  BY <1>1, <1>3, <2>1, <2>2, <2>3, <3>1, HeldStep
  <2>. QED  BY <1>1, <1>3, <2>1, <2>2, <2>3, <2>4, <2>5, <2>6, Blanks, LocalStep, AloneStep
<1>. QED  BY <1>4, <1>5, <1>6, <1>7

\* A broker that got ready with the vault's permissions is registered.
LEMMA RegisterInv ==
    ASSUME ManagerInv, TypeOK', NEW i \in Id, NEW p \in Perm, NEW n \in Proc,
           Register(i, p, n), registry[i] = 0, meta[i] = p, i \in enc,
           procs[n].st = "ready", procs[n].env = p,
           UNCHANGED <<meta, enc, life>>, life # "down", Alone',
           \A d \in Client : \/ req'[d] = req[d] /\ req[d].id # i
                             \/ req'[d] = NoReq /\ req[d].id = i /\ req[d].proc = n
    PROVE  ManagerInv'
<1>1. PICK k \in Record :
        /\ FreshRecord(k)
        /\ records' = [records EXCEPT ![k] = [id |-> i, perm |-> p, state |-> "running",
                                              expected |-> FALSE, proc |-> n]]
        /\ registry' = [registry EXCEPT ![i] = k]
        /\ watch' = [watch EXCEPT ![i] = Watching(i, registry', records')]
        /\ procs' = [procs EXCEPT ![n].st = "up"]
  BY DEF Register
<1>2. /\ records \in [Record -> IntegrationRecord] /\ registry \in [Id -> Record \cup {0}]
      /\ watch \in [Id -> WatchTask] /\ procs \in [Proc -> BrokerHandle] /\ k # 0
  BY DEF ManagerInv, TypeOK
<1>3. /\ records'[k] = [id |-> i, perm |-> p, state |-> "running", expected |-> FALSE, proc |-> n]
      /\ \A l \in Record \ {k} : records'[l] = records[l]
      /\ registry'[i] = k /\ \A j \in Id \ {i} : registry'[j] = registry[j]
      /\ watch'[i] = Watching(i, registry', records')
      /\ \A j \in Id \ {i} : watch'[j] = watch[j]
      /\ procs'[n].st = "up" /\ procs'[n].env = p
      /\ \A m \in Proc \ {n} : procs'[m] = procs[m]
  BY <1>1, <1>2 DEF BrokerHandle
<1>4. watch'[i] = [at |-> "wait", rec |-> k, proc |-> n, fails |-> 0]
  BY <1>2, <1>3 DEF Watching
<1>5. \A m \in Proc : Keeps(m)
  BY <1>3 DEF Keeps
<1>6. Local(i)
  <2>1. \A j \in Id \ {i} : registry[j] # 0 => records'[registry[j]] = records[registry[j]]
    BY <1>1, <1>3, RecordFresh, Referents
  <2>2. \A d \in Client : req'[d] = req[d] \/ {req[d].id, req'[d].id} \subseteq {i, None}
    BY Blanks
  <2>. QED  BY <1>3, <1>5, <2>1, <2>2 DEF Local
<1>7. \A d \in Client : InCharge(d)' \/ (req'[d] = req[d] /\ req[d].id # i)
  BY DEF InCharge, NoReq, None
<1>8. Sound(i)'
  BY <1>2, <1>3, <1>4, NoneAssumption DEF Sound, None
<1>9. Follows(i)'
  BY <1>2, <1>3, <1>4 DEF Follows
<1>10. ReadyIsHeld'
  <2>1. \A m \in Proc : m = n => HeldBy(m)'
    BY <1>2, <1>3 DEF HeldBy
  <2>2. \A m \in Proc \ {n} : procs'[m].st = "up" =>
            procs[m].st = "up" /\ \A d \in Client : req[d].proc = m => req'[d].proc = m
    BY <1>3
  <2>. QED  BY <1>6, <2>1, <2>2, HeldStep
<1>. QED  BY <1>6, <1>7, <1>8, <1>9, <1>10, LocalStep

LEMMA AddUpInv ==
    ASSUME ManagerInv, TypeOK', NEW c \in Client, AddUp(c)
    PROVE  ManagerInv'
<1>1. /\ req[c].verb = "add" /\ req[c].at = "spawn" /\ procs[req[c].proc].st = "ready"
      /\ Register(req[c].id, req[c].perm, req[c].proc)
      /\ req' = [req EXCEPT ![c] = NoReq] /\ UNCHANGED <<meta, enc, life, exits>>
  BY DEF AddUp, vault
<1>2. /\ InCharge(c) /\ req[c].id \in Id /\ life # "down"
      /\ \A d \in Client \ {c} : req[d].id # req[c].id
  BY <1>1, Served DEF None
<1>3. /\ req[c].proc \in Proc /\ req[c].perm \in Perm
      /\ registry[req[c].id] = 0 /\ meta[req[c].id] = req[c].perm /\ req[c].id \in enc
      /\ procs[req[c].proc].env = req[c].perm
  BY <1>1, <1>2, Referents DEF InCharge
<1>4. req'[c] = NoReq /\ \A d \in Client \ {c} : req'[d] = req[d]
  BY <1>1 DEF ManagerInv, TypeOK
<1>5. Alone'
  BY <1>4, Blanks, AloneStep
<1>. QED  BY <1>1, <1>2, <1>3, <1>4, <1>5, RegisterInv

LEMMA StoppedInv ==
    ASSUME ManagerInv, TypeOK', NEW c \in Client, Stopped(c)
    PROVE  ManagerInv'
<1>0. /\ TypeOK /\ req[c] \in RequestTask /\ req \in [Client -> RequestTask]
      /\ registry \in [Id -> Record \cup {0}]
  BY DEF ManagerInv, TypeOK
<1>1. PICK i \in Id :
      /\ req[c].id = i /\ InCharge(c) /\ watch[i].at = None
      /\ \A d \in Client \ {c} : req[d].id # i
      /\ life \in {"serving", "stopping"} /\ req[c].verb \in {"remove", "update"}
      /\ req[c].at \in {"gather", "stopped"}
  BY Served DEF Stopped, InCharge, None
<1>2. /\ registry[i] = req[c].rec /\ registry[i] # 0 /\ req[c].proc = 0
      /\ req[c].verb = "update" => req[c].perm \in Perm /\ meta[i] = req[c].perm
  BY <1>1 DEF InCharge
<1>3. PICK n \in Proc : n = records[req[c].rec].proc
  BY <1>2, Referents
<1>4. Sound(i) /\ procs[n].st \in {"up"} \cup Exited
  BY <1>2, <1>3 DEF ManagerInv, Sound
<1>5. /\ UNCHANGED <<meta, enc, procs, records, watch, life, exits>>
      /\ \A j \in Id \ {i} : registry'[j] = registry[j]
      /\ registry'[i] = IF req[c].verb = "remove" THEN 0 ELSE registry[i]
  BY <1>0, <1>1 DEF Stopped, Deregistered, vault
<1>6. /\ req'[c].verb = req[c].verb /\ req'[c].id = i /\ req'[c].perm = req[c].perm
      /\ req'[c].rec = req[c].rec /\ req'[c].proc = n
      /\ req'[c].at = IF MustEnd(n) THEN "terminate"
                      ELSE IF req[c].verb = "remove" THEN "wipe" ELSE "restart"
      /\ \A d \in Client \ {c} : req'[d] = req[d]
  BY <1>0, <1>1, <1>3 DEF RequestTask, Stopped
<1>7. Local(i)
  BY <1>1, <1>5, <1>6 DEF Local, Keeps
<1>8. InCharge(c)'
  <2>1. CASE req[c].verb = "remove"
    BY SMTT(30), <1>1, <1>2, <1>4, <1>5, <1>6, <2>1 DEF InCharge, MustEnd, None
  <2>2. CASE req[c].verb = "update"
    BY SMTT(60), <1>1, <1>2, <1>3, <1>4, <1>5, <1>6, <2>2 DEF InCharge, MustEnd, None
  <2>. QED  BY <1>1, <2>1, <2>2
<1>9. registry'[i] # 0 => Sound(i)'
  BY <1>4, <1>5, <1>6 DEF Sound
<1>10. Follows(i)'
  BY <1>1, <1>5 DEF Follows, None
<1>11. ReadyIsHeld'
  <2>1. HeldBy(n)'
    BY <1>6 DEF HeldBy
  <2>. QED  BY <1>2, <1>3, <1>5, <1>6, <1>7, <2>1, HeldStep
<1>. QED  BY <1>1, <1>6, <1>7, <1>8, <1>9, <1>10, <1>11, LocalStep, AloneStep

LEMMA TerminatedInv ==
    ASSUME ManagerInv, TypeOK', NEW c \in Client, Terminated(c)
    PROVE  ManagerInv'
<1>0. /\ TypeOK /\ req[c] \in RequestTask /\ req \in [Client -> RequestTask]
      /\ procs \in [Proc -> BrokerHandle]
  BY DEF ManagerInv, TypeOK
<1>1. PICK i \in Id :
      /\ req[c].id = i /\ InCharge(c) /\ watch[i].at = None
      /\ \A d \in Client \ {c} : req[d].id # i
      /\ life \in {"serving", "stopping"} /\ req[c].verb \in {"remove", "update"}
      /\ req[c].at = "terminate"
  BY Served DEF Terminated, InCharge, None
<1>2. PICK n \in Proc : n = req[c].proc /\ procs[n].st \in {"up"} \cup Exited
  BY <1>1, Referents DEF InCharge
<1>3. /\ UNCHANGED <<meta, enc, records, registry, watch, life, exits>>
      /\ procs'[n].st \in Exited /\ procs'[n].env = procs[n].env
      /\ \A m \in Proc \ {n} : procs'[m] = procs[m]
  BY <1>0, <1>2 DEF Terminated, vault, BrokerHandle
<1>4. /\ req'[c].verb = req[c].verb /\ req'[c].id = i /\ req'[c].perm = req[c].perm
      /\ req'[c].rec = req[c].rec /\ req'[c].proc = n
      /\ req'[c].at = IF req[c].verb = "remove" THEN "wipe" ELSE "restart"
      /\ \A d \in Client \ {c} : req'[d] = req[d]
  BY <1>0, <1>1, <1>2 DEF RequestTask, Terminated
<1>5. (\A m \in Proc : Keeps(m)) /\ Local(i)
  BY <1>1, <1>3, <1>4 DEF Local, Keeps
<1>6. InCharge(c)'
  BY <1>1, <1>2, <1>3, <1>4 DEF InCharge, None
<1>7. registry'[i] # 0 => Sound(i)'
  <2>1. registry[i] # 0 => Sound(i) /\ Keeps(records[registry[i]].proc)
    BY <1>5, Referents DEF ManagerInv
  <2>. QED  BY <1>3, <1>4, <2>1 DEF Sound, Keeps
<1>8. Follows(i)'
  BY <1>1, <1>3 DEF Follows, None
<1>9. ReadyIsHeld'
  <2>1. \A m \in Proc : HeldBy(m) => HeldBy(m)'
    BY <1>2, <1>3, <1>4 DEF HeldBy
  <2>. QED  BY <1>3, <2>1 DEF ManagerInv, ReadyIsHeld
<1>. QED  BY <1>1, <1>4, <1>5, <1>6, <1>7, <1>8, <1>9, LocalStep, AloneStep

\* A served update, at a stage after its broker's end.
LEMMA UpdateServed ==
    ASSUME ManagerInv, NEW c \in Client, req[c].verb = "update"
    PROVE  \E i \in Id :
      /\ req[c].id = i /\ InCharge(c) /\ watch[i].at = None
      /\ \A d \in Client \ {c} : req[d].id # i
      /\ life \in {"serving", "stopping"}
      /\ registry[i] = req[c].rec /\ registry[i] # 0 /\ Sound(i)
      /\ req[c].perm \in Perm /\ meta[i] = req[c].perm
<1>1. InCharge(c) /\ req[c].at # None
  BY DEF ManagerInv, InCharge, None
<1>2. req[c].id \in Id /\ registry[req[c].id] # 0 /\ registry[req[c].id] = req[c].rec
  BY Referents DEF None
<1>. QED  BY <1>1, <1>2, Served DEF ManagerInv, InCharge

LEMMA UpdateRestartInv ==
    ASSUME ManagerInv, TypeOK', NEW c \in Client, UpdateRestart(c)
    PROVE  ManagerInv'
<1>0. /\ TypeOK /\ req[c] \in RequestTask /\ req \in [Client -> RequestTask]
      /\ procs \in [Proc -> BrokerHandle] /\ req[c].at = "restart"
  BY DEF ManagerInv, TypeOK, UpdateRestart
<1>1. PICK i \in Id :
      /\ req[c].id = i /\ InCharge(c) /\ watch[i].at = None
      /\ \A d \in Client \ {c} : req[d].id # i
      /\ life \in {"serving", "stopping"} /\ req[c].verb = "update"
      /\ registry[i] = req[c].rec /\ registry[i] # 0 /\ Sound(i)
      /\ req[c].perm \in Perm /\ meta[i] = req[c].perm
  <2>1. req[c].verb = "update"
    BY <1>0, Served DEF InCharge, None
  <2>. QED  BY <2>1, UpdateServed
<1>2. PICK n \in Proc : /\ Fork(n, i, req[c].perm)
                        /\ req' = [req EXCEPT ![c] = [req[c] EXCEPT !.at = "spawn", !.proc = n]]
  BY <1>1 DEF UpdateRestart
<1>3. UNCHANGED <<meta, enc, records, registry, watch, life, exits>>
  BY DEF UpdateRestart, vault
<1>4. /\ req'[c].verb = req[c].verb /\ req'[c].id = i /\ req'[c].perm = req[c].perm
      /\ req'[c].rec = req[c].rec /\ req'[c].proc = n /\ req'[c].at = "spawn"
      /\ \A d \in Client \ {c} : req'[d] = req[d]
  BY <1>0, <1>1, <1>2 DEF RequestTask
<1>5. Fresh(n) /\ procs' = [procs EXCEPT ![n] = [st |-> "booting", id |-> i, env |-> req[c].perm]]
  BY <1>0, <1>2, ForkFresh
<1>6. /\ procs'[n].env = req[c].perm /\ procs'[n].st # "up"
      /\ \A m \in Proc \ {n} : procs'[m] = procs[m]
  BY <1>0, <1>5
<1>7. Local(i)
  BY <1>1, <1>3, <1>4, <1>5, <1>6 DEF Local, Keeps
<1>8. PICK m \in Proc \ {n} : m = records[req[c].rec].proc /\ m = req[c].proc /\ procs[m].st \in Exited
  BY <1>0, <1>1, <1>5, Referents DEF InCharge, Fresh
<1>9. InCharge(c)'
  BY <1>1, <1>3, <1>4, <1>6, <1>8 DEF InCharge, None
<1>10. Sound(i)'
  <2>1. /\ records'[registry'[i]] = records[registry[i]] /\ records[registry[i]].proc = m
        /\ procs'[m] = procs[m] /\ req'[c].id = i
    BY <1>1, <1>3, <1>4, <1>6, <1>8
  <2>. QED  BY <1>1, <1>3, <2>1 DEF Sound
<1>11. Follows(i)'
  BY <1>1, <1>3 DEF Follows, None
<1>12. ReadyIsHeld'
  <2>1. \A l \in Proc : procs'[l].st = "up" =>
            /\ procs[l].st = "up" /\ records[registry[i]].proc # l
            /\ \A d \in Client : req[d].proc = l => req'[d].proc = l
    BY <1>1, <1>4, <1>6, <1>8
  <2>. QED  BY <1>7, <2>1, HeldStep
<1>. QED  BY <1>1, <1>4, <1>7, <1>9, <1>10, <1>11, <1>12, LocalStep, AloneStep

LEMMA UpdateUpInv ==
    ASSUME ManagerInv, TypeOK', NEW c \in Client, UpdateUp(c)
    PROVE  ManagerInv'
<1>0. /\ req \in [Client -> RequestTask] /\ watch \in [Id -> WatchTask]
      /\ records \in [Record -> IntegrationRecord] /\ procs \in [Proc -> BrokerHandle]
  BY DEF ManagerInv, TypeOK
<1>1. PICK i \in Id :
      /\ req[c].id = i /\ InCharge(c) /\ watch[i].at = None
      /\ \A d \in Client \ {c} : req[d].id # i
      /\ life \in {"serving", "stopping"}
      /\ registry[i] = req[c].rec /\ registry[i] # 0 /\ Sound(i)
      /\ req[c].perm \in Perm /\ meta[i] = req[c].perm
  BY UpdateServed DEF UpdateUp
<1>2. PICK k \in Record : k = registry[i] /\ k = req[c].rec /\ k # 0
  BY <1>1, Referents
<1>3. PICK n \in Proc : n = req[c].proc /\ procs[n].st = "ready" /\ procs[n].env = req[c].perm
  BY <1>1, Referents DEF UpdateUp, InCharge
<1>4. /\ UNCHANGED <<meta, enc, registry, life, exits>>
      /\ procs' = [procs EXCEPT ![n].st = "up"]
      /\ records' = [records EXCEPT ![k] = Renewed(records[k], c)]
      /\ watch' = [watch EXCEPT ![i] = Watching(i, registry, records')]
      /\ req' = [req EXCEPT ![c] = NoReq]
  BY <1>1, <1>2, <1>3 DEF UpdateUp, vault
<1>5. /\ procs'[n].st = "up" /\ procs'[n].env = req[c].perm
      /\ \A m \in Proc \ {n} : procs'[m] = procs[m]
      /\ req'[c] = NoReq /\ \A d \in Client \ {c} : req'[d] = req[d]
      /\ \A l \in Record \ {k} : records'[l] = records[l]
      /\ records'[k] = Renewed(records[k], c)
      /\ watch'[i] = Watching(i, registry, records')
      /\ \A j \in Id \ {i} : watch'[j] = watch[j]
  <2>1. procs'[n].st = "up" /\ procs'[n].env = procs[n].env
    BY <1>0, <1>4 DEF BrokerHandle
  <2>. QED  BY <1>0, <1>3, <1>4, <2>1
<1>6. /\ records'[k].id = records[k].id /\ records'[k].perm = req[c].perm
      /\ records'[k].state = "running" /\ ~records'[k].expected /\ records'[k].proc = n
  BY <1>0, <1>3, <1>5 DEF Renewed, IntegrationRecord
<1>7. watch'[i].at = "wait" /\ watch'[i].rec = k /\ watch'[i].proc = n
  <2>1. watch'[i] = [at |-> "wait", rec |-> k, proc |-> records'[k].proc, fails |-> 0]
    BY <1>2, <1>5 DEF Watching
  <2>. QED  BY <1>6, <2>1
<1>8. (\A m \in Proc : Keeps(m)) /\ Local(i)
  <2>1. \A m \in Proc : Keeps(m)
    BY <1>3, <1>5 DEF Keeps
  <2>2. ASSUME NEW j \in Id \ {i}, registry[j] # 0
        PROVE  records'[registry[j]] = records[registry[j]]
    <3>1. registry[j] # registry[i] /\ registry[j] \in Record
      BY <2>2, OwnRecord, Referents
    <3>. QED  BY <1>2, <1>5, <3>1
  <2>. QED  BY <1>1, <1>4, <1>5, <2>1, <2>2, Blanks DEF Local
<1>9. InCharge(c)'
  BY <1>5 DEF InCharge, NoReq, None
<1>10. Sound(i)'
  <2>1. /\ registry'[i] = k /\ meta'[i] = req[c].perm /\ meta'[i] # None /\ i \in enc'
        /\ records'[k].id = i /\ records'[k].perm = req[c].perm /\ req[c].perm \in Perm
        /\ records'[k].state = "running" /\ records'[k].proc = n /\ n # 0
        /\ procs'[n].st = "up" /\ procs'[n].env = req[c].perm /\ watch'[i].at = "wait"
    BY <1>1, <1>2, <1>4, <1>5, <1>6, <1>7, SMTT(20) DEF Sound
  <2>. QED  BY SMTT(30), <2>1 DEF Sound, None
<1>11. Follows(i)'
  BY <1>2, <1>4, <1>6, <1>7 DEF Follows
<1>12. ReadyIsHeld'
  <2>1. HeldBy(n)'
    BY <1>2, <1>4, <1>6 DEF HeldBy
  <2>2. procs[records[k].proc].st \in Exited
    BY <1>1, <1>2 DEF UpdateUp, InCharge
  <2>3. \A m \in Proc \ {n} : procs'[m].st = "up" =>
            /\ procs[m].st = "up" /\ records[k].proc # m
            /\ \A d \in Client : req[d].proc = m => req'[d].proc = m
    BY <1>3, <1>5, <2>2
  <2>. QED  BY <1>2, <1>8, <2>1, <2>3, HeldStep
<1>. QED  BY <1>1, <1>5, <1>8, <1>9, <1>10, <1>11, <1>12, Blanks, LocalStep, AloneStep

LEMMA UpdateFailedInv ==
    ASSUME ManagerInv, TypeOK', NEW c \in Client, UpdateFailed(c)
    PROVE  ManagerInv'
<1>0. req \in [Client -> RequestTask] /\ records \in [Record -> IntegrationRecord]
  BY DEF ManagerInv, TypeOK
<1>1. PICK i \in Id :
      /\ req[c].id = i /\ InCharge(c) /\ watch[i].at = None
      /\ \A d \in Client \ {c} : req[d].id # i
      /\ life \in {"serving", "stopping"}
      /\ registry[i] = req[c].rec /\ registry[i] # 0 /\ Sound(i)
      /\ req[c].perm \in Perm /\ meta[i] = req[c].perm
  BY UpdateServed DEF UpdateFailed
<1>2. PICK k \in Record : k = registry[i] /\ k = req[c].rec
  BY <1>1, Referents
<1>3. PICK st \in {"auth_failed", "broken"} :
      /\ UNCHANGED <<meta, enc, procs, registry, watch, life, exits>>
      /\ records' = [records EXCEPT ![k] = [records[k] EXCEPT !.state = st]]
      /\ req' = [req EXCEPT ![c] = NoReq] /\ procs[req[c].proc].st \in Exited
  BY <1>2 DEF UpdateFailed, vault
<1>4. /\ req'[c] = NoReq /\ \A d \in Client \ {c} : req'[d] = req[d]
      /\ \A l \in Record \ {k} : records'[l] = records[l]
      /\ records'[k].id = records[k].id /\ records'[k].perm = records[k].perm
      /\ records'[k].state = st /\ records'[k].proc = records[k].proc
  BY <1>0, <1>3 DEF IntegrationRecord
<1>5. Local(i)
  <2>1. ASSUME NEW j \in Id \ {i}, registry[j] # 0
        PROVE  records'[registry[j]] = records[registry[j]]
    <3>1. registry[j] # registry[i] /\ registry[j] \in Record
      BY <2>1, OwnRecord, Referents
    <3>. QED  BY <1>2, <1>4, <3>1
  <2>. QED  BY <1>1, <1>3, <1>4, <2>1, Blanks DEF Local, Keeps
<1>6. InCharge(c)'
  BY <1>4 DEF InCharge, NoReq, None
<1>7. Sound(i)'
  <2>1. /\ registry'[i] = k /\ meta'[i] = meta[i] /\ enc' = enc
        /\ records'[k].id = records[k].id /\ records'[k].perm = records[k].perm
        /\ records'[k].state = st /\ st # "running" /\ st # None
        /\ records'[k].proc = records[k].proc /\ procs' = procs
    BY <1>2, <1>3, <1>4 DEF None
  <2>. QED  BY SMTT(30), <1>1, <1>2, <2>1 DEF Sound
<1>8. Follows(i)'
  BY <1>1, <1>3 DEF Follows, None
<1>9. ReadyIsHeld'
  <2>1. \A m \in Proc : procs'[m].st = "up" =>
            /\ procs[m].st = "up" /\ (records[k].proc = m => HeldBy(m)')
            /\ \A d \in Client : req[d].proc = m => req'[d].proc = m
    BY <1>1, <1>2, <1>3, <1>4 DEF HeldBy
  <2>. QED  BY <1>2, <1>5, <2>1, HeldStep
<1>. QED  BY <1>1, <1>4, <1>5, <1>6, <1>7, <1>8, <1>9, Blanks, LocalStep, AloneStep

LEMMA ServeInv ==
    ASSUME ManagerInv, TypeOK', NEW c \in Client, Serve(c)
    PROVE  ManagerInv'
BY AddServedInv, AddUpInv, StoppedInv, TerminatedInv, UpdateRestartInv, UpdateUpInv,
   UpdateFailedInv DEF Serve

\* A watcher or a reconcile coroutine has its id to itself.
LEMMA Watched ==
    ASSUME ManagerInv, NEW i \in Id, watch[i].at # None
    PROVE  /\ \A d \in Client : req[d].id # i
           /\ Follows(i) /\ TypeOK
           /\ watch[i].at \in {"wait", "backoff", "respawn"} =>
                 /\ registry[i] = watch[i].rec /\ registry[i] # 0 /\ Sound(i)
                 /\ registry[i] \in Record /\ records[registry[i]].proc \in Proc
                 /\ life # "down" /\ records[registry[i]].state = "running"
                 /\ ~records[registry[i]].expected
<1>1. ASSUME NEW d \in Client, req[d].id = i
      PROVE  FALSE
  <2>1. InCharge(d) /\ req[d].verb # None
    BY <1>1, Referents, NoneAssumption DEF ManagerInv
  <2>. QED  BY <1>1, <2>1 DEF InCharge
<1>. QED  BY <1>1, Referents DEF ManagerInv, Follows

LEMMA WatcherWakesInv ==
    ASSUME ManagerInv, TypeOK', NEW i \in Id, WatcherWakes(i)
    PROVE  ManagerInv'
<1>0. watch \in [Id -> WatchTask] /\ records \in [Record -> IntegrationRecord]
  BY DEF ManagerInv, TypeOK
<1>1. watch[i].at = "wait" /\ procs[watch[i].proc].st \in Exited
  BY DEF WatcherWakes
<1>2. /\ \A d \in Client : req[d].id # i
      /\ registry[i] # 0 /\ Sound(i) /\ Follows(i)
      /\ life # "down" /\ records[registry[i]].state = "running" /\ ~records[registry[i]].expected
  BY <1>1, Watched DEF None
<1>3. PICK k \in Record : k = registry[i]
  BY <1>2, Referents
<1>4. UNCHANGED <<meta, enc, procs, registry, req, life, exits>>
  BY DEF WatcherWakes, vault
<1>5. Alone'
  BY <1>4 DEF ManagerInv, Alone
<1>6. \/ /\ watch' = [watch EXCEPT ![i] = NoWatch]
         /\ \E st \in {"auth_failed", "broken"} :
                records' = [records EXCEPT ![k] = [records[k] EXCEPT !.state = st]]
      \/ /\ records' = records
         /\ watch' = [watch EXCEPT ![i] = [watch[i] EXCEPT !.at = "backoff", !.rec = k,
                                                 !.proc = 0, !.fails = watch[i].fails + 1]]
  BY <1>2, <1>3 DEF WatcherWakes, Ends
<1>7. CASE /\ watch' = [watch EXCEPT ![i] = NoWatch]
           /\ \E st \in {"auth_failed", "broken"} :
                  records' = [records EXCEPT ![k] = [records[k] EXCEPT !.state = st]]
  <2>1. PICK st \in {"auth_failed", "broken"} :
            records' = [records EXCEPT ![k] = [records[k] EXCEPT !.state = st]]
    BY <1>7
  <2>2. /\ watch'[i] = NoWatch /\ \A j \in Id \ {i} : watch'[j] = watch[j]
        /\ \A l \in Record \ {k} : records'[l] = records[l]
        /\ records'[k].id = records[k].id /\ records'[k].perm = records[k].perm
        /\ records'[k].state = st /\ records'[k].proc = records[k].proc
    BY <1>0, <1>7, <2>1 DEF IntegrationRecord
  <2>3. ASSUME NEW j \in Id \ {i}, registry[j] # 0
        PROVE  records'[registry[j]] = records[registry[j]]
    <3>1. registry[j] # registry[i] /\ registry[j] \in Record
      BY <2>3, OwnRecord, Referents
    <3>. QED  BY <1>3, <2>2, <3>1
  <2>4. Local(i)
    BY <1>2, <1>4, <2>2, <2>3 DEF Local, Keeps
  <2>5. Sound(i)'
    BY <1>2, <1>3, <1>4, <2>2 DEF Sound, None
  <2>6. Follows(i)'
    BY <2>2, Blanks DEF Follows, None
  <2>7. ReadyIsHeld'
    <3>1. \A m \in Proc : HeldBy(m) => HeldBy(m)'
      BY <1>3, <1>4, <2>2, <2>3 DEF HeldBy
    <3>. QED  BY <1>4, <3>1 DEF ManagerInv, ReadyIsHeld
  <2>. QED  BY <1>2, <1>4, <1>5, <2>4, <2>5, <2>6, <2>7, LocalStep
<1>8. CASE /\ records' = records
           /\ watch' = [watch EXCEPT ![i] = [watch[i] EXCEPT !.at = "backoff", !.rec = k,
                                                 !.proc = 0, !.fails = watch[i].fails + 1]]
  <2>1. /\ watch'[i].at = "backoff" /\ watch'[i].rec = k
        /\ \A j \in Id \ {i} : watch'[j] = watch[j]
    BY <1>0, <1>8 DEF WatchTask
  <2>2. Local(i)
    BY <1>2, <1>4, <1>8, <2>1 DEF Local, Keeps
  <2>3. Sound(i)'
    BY <1>1, <1>2, <1>4, <1>8, <2>1 DEF Sound, None
  <2>4. Follows(i)'
    BY <1>1, <1>2, <1>3, <1>4, <1>8, <2>1 DEF Follows
  <2>5. ReadyIsHeld'
    BY <1>4, <1>8 DEF ManagerInv, ReadyIsHeld, HeldBy
  <2>. QED  BY <1>2, <1>4, <1>5, <2>2, <2>3, <2>4, <2>5, LocalStep
<1>. QED  BY <1>6, <1>7, <1>8

LEMMA RespawnInv ==
    ASSUME ManagerInv, TypeOK', NEW i \in Id, Respawn(i)
    PROVE  ManagerInv'
<1>0. /\ TypeOK /\ watch \in [Id -> WatchTask] /\ procs \in [Proc -> BrokerHandle]
      /\ watch[i].at = "backoff"
  BY DEF ManagerInv, TypeOK, Respawn
<1>1. /\ \A d \in Client : req[d].id # i
      /\ registry[i] = watch[i].rec /\ registry[i] # 0 /\ Sound(i) /\ Follows(i) /\ i \in enc
      /\ life # "down" /\ records[registry[i]].state = "running" /\ ~records[registry[i]].expected
  BY <1>0, Watched DEF None, Sound
<1>2. PICK k \in Record : k = registry[i]
  BY <1>1, Referents
<1>3. PICK n \in Proc : /\ Fork(n, i, records[k].perm)
                        /\ watch' = [watch EXCEPT ![i] = [watch[i] EXCEPT !.at = "respawn", !.proc = n]]
  BY <1>1, <1>2 DEF Respawn
<1>4. UNCHANGED <<meta, enc, records, registry, req, life, exits>>
  BY DEF Respawn, vault
<1>5. /\ watch'[i].at = "respawn" /\ watch'[i].rec = k /\ watch'[i].proc = n
      /\ \A j \in Id \ {i} : watch'[j] = watch[j]
  BY <1>0, <1>1, <1>2, <1>3 DEF WatchTask
<1>6. Fresh(n) /\ procs' = [procs EXCEPT ![n] = [st |-> "booting", id |-> i, env |-> records[k].perm]]
  BY <1>0, <1>3, ForkFresh
<1>7. /\ procs'[n].env = records[k].perm /\ procs'[n].st # "up"
      /\ \A m \in Proc \ {n} : procs'[m] = procs[m]
  BY <1>0, <1>6
<1>8. PICK m \in Proc \ {n} : m = records[k].proc
  BY <1>1, <1>2, <1>6, Referents DEF Fresh
<1>9. Local(i)
  BY <1>1, <1>4, <1>5, <1>6, <1>7 DEF Local, Keeps
<1>10. Sound(i)'
  <2>1. records'[registry'[i]] = records[k] /\ procs'[m] = procs[m]
    BY <1>2, <1>4, <1>7
  <2>. QED  BY <1>1, <1>0, <1>2, <1>4, <1>5, <1>8, <2>1 DEF Sound, None
<1>11. Follows(i)'
  <2>1. procs'[m] = procs[m] /\ records' = records /\ registry' = registry
    BY <1>4, <1>7
  <2>. QED  BY <1>0, <1>1, <1>2, <1>5, <1>7, <1>8, <2>1 DEF Follows
<1>12. Alone' /\ ReadyIsHeld'
  BY <1>4, <1>7 DEF ManagerInv, Alone, ReadyIsHeld, HeldBy
<1>. QED  BY <1>1, <1>4, <1>9, <1>10, <1>11, <1>12, LocalStep

LEMMA RespawnUpInv ==
    ASSUME ManagerInv, TypeOK', NEW i \in Id, RespawnUp(i)
    PROVE  ManagerInv'
<1>0. /\ watch \in [Id -> WatchTask] /\ procs \in [Proc -> BrokerHandle]
      /\ records \in [Record -> IntegrationRecord]
      /\ watch[i].at = "respawn" /\ procs[watch[i].proc].st = "ready"
  BY DEF ManagerInv, TypeOK, RespawnUp
<1>1. /\ \A d \in Client : req[d].id # i
      /\ registry[i] = watch[i].rec /\ registry[i] # 0 /\ Sound(i) /\ Follows(i)
      /\ life # "down" /\ records[registry[i]].state = "running" /\ ~records[registry[i]].expected
  BY <1>0, Watched DEF None
<1>2. PICK k \in Record : k = registry[i]
  BY <1>1, Referents
<1>3. PICK n \in Proc : n = watch[i].proc /\ procs[n].env = records[k].perm
  BY <1>0, <1>1, <1>2, Referents DEF Follows
<1>4. /\ UNCHANGED <<meta, enc, registry, req, life, exits>>
      /\ procs' = [procs EXCEPT ![n].st = "up"]
      /\ records' = [records EXCEPT ![k] = [records[k] EXCEPT !.proc = n, !.state = "running"]]
      /\ watch' = [watch EXCEPT ![i] = Watching(i, registry, records')]
  BY <1>1, <1>2, <1>3 DEF RespawnUp, vault
<1>5. /\ records'[k].id = records[k].id /\ records'[k].perm = records[k].perm
      /\ records'[k].state = "running" /\ records'[k].expected = records[k].expected
      /\ records'[k].proc = n
      /\ \A l \in Record \ {k} : records'[l] = records[l]
  BY <1>0, <1>4 DEF IntegrationRecord
<1>6. /\ procs'[n].st = "up" /\ procs'[n].env = procs[n].env
      /\ \A m \in Proc \ {n} : procs'[m] = procs[m]
  BY <1>0, <1>4 DEF BrokerHandle
<1>7. /\ watch'[i].at = "wait" /\ watch'[i].rec = k /\ watch'[i].proc = n
      /\ \A j \in Id \ {i} : watch'[j] = watch[j]
  <2>1. Watching(i, registry, records') = [at |-> "wait", rec |-> k, proc |-> records'[k].proc, fails |-> 0]
    BY <1>1, <1>2 DEF Watching
  <2>. QED  BY <1>0, <1>4, <1>5, <2>1
<1>8. Local(i)
  <2>1. \A m \in Proc : Keeps(m)
    BY <1>0, <1>3, <1>6 DEF Keeps
  <2>2. ASSUME NEW j \in Id \ {i}, registry[j] # 0
        PROVE  records'[registry[j]] = records[registry[j]]
    <3>1. registry[j] # registry[i] /\ registry[j] \in Record
      BY <2>2, OwnRecord, Referents
    <3>. QED  BY <1>2, <1>5, <3>1
  <2>. QED  BY <1>1, <1>4, <1>7, <2>1, <2>2 DEF Local
<1>9. Sound(i)'
  <2>1. /\ meta[i] = records[k].perm /\ meta[i] # None /\ i \in enc
        /\ records[k].id = i /\ records[k].perm \in Perm
    BY <1>1, <1>2 DEF Sound
  <2>2. /\ registry'[i] = k /\ meta' = meta /\ enc' = enc
        /\ records'[k].id = i /\ records'[k].perm = records[k].perm
        /\ records'[k].state = "running" /\ records'[k].proc = n /\ n # 0
        /\ procs'[n].st = "up" /\ procs'[n].env = records[k].perm /\ watch'[i].at = "wait"
    BY <1>2, <1>3, <1>4, <1>5, <1>6, <1>7, <2>1
  <2>. QED  BY SMTT(30), <2>1, <2>2 DEF Sound, None
<1>10. Follows(i)'
  BY <1>1, <1>2, <1>4, <1>5, <1>7 DEF Follows
<1>11. Alone'
  BY <1>4 DEF ManagerInv, Alone
<1>12. ReadyIsHeld'
  <2>1. HeldBy(n)'
    BY <1>1, <1>2, <1>4, <1>5 DEF HeldBy
  <2>2. procs[records[k].proc].st \in Exited
    BY <1>0, <1>1, <1>2 DEF Follows
  <2>3. \A m \in Proc \ {n} : procs'[m].st = "up" => procs[m].st = "up" /\ records[k].proc # m
    BY <1>6, <2>2
  <2>. QED  BY <1>2, <1>4, <1>8, <2>1, <2>3, HeldStep
<1>. QED  BY <1>1, <1>4, <1>8, <1>9, <1>10, <1>11, <1>12, LocalStep

LEMMA RespawnFailedInv ==
    ASSUME ManagerInv, TypeOK', NEW i \in Id, RespawnFailed(i)
    PROVE  ManagerInv'
<1>0. /\ watch \in [Id -> WatchTask] /\ records \in [Record -> IntegrationRecord]
      /\ watch[i].at = "respawn"
  BY DEF ManagerInv, TypeOK, RespawnFailed
<1>1. /\ \A d \in Client : req[d].id # i
      /\ registry[i] = watch[i].rec /\ registry[i] # 0 /\ Sound(i) /\ Follows(i)
      /\ life # "down" /\ records[registry[i]].state = "running" /\ ~records[registry[i]].expected
  BY <1>0, Watched DEF None
<1>2. PICK k \in Record : k = registry[i]
  BY <1>1, Referents
<1>3. /\ UNCHANGED <<meta, enc, procs, registry, req, life, exits>>
      /\ \/ /\ records' = [records EXCEPT ![k] = [records[k] EXCEPT !.state = "auth_failed"]]
            /\ watch' = [watch EXCEPT ![i] = NoWatch]
         \/ /\ watch' = [watch EXCEPT ![i] =
                            [Watching(i, registry, records) EXCEPT !.fails = watch[i].fails]]
            /\ records' = records
  BY <1>1, <1>2 DEF RespawnFailed, vault
<1>4. Alone'
  BY <1>3 DEF ManagerInv, Alone
<1>5. CASE /\ records' = [records EXCEPT ![k] = [records[k] EXCEPT !.state = "auth_failed"]]
           /\ watch' = [watch EXCEPT ![i] = NoWatch]
  <2>1. /\ watch'[i] = NoWatch /\ \A j \in Id \ {i} : watch'[j] = watch[j]
        /\ \A l \in Record \ {k} : records'[l] = records[l]
        /\ records'[k].id = records[k].id /\ records'[k].perm = records[k].perm
        /\ records'[k].state = "auth_failed" /\ records'[k].proc = records[k].proc
    BY <1>0, <1>5 DEF IntegrationRecord
  <2>2. ASSUME NEW j \in Id \ {i}, registry[j] # 0
        PROVE  records'[registry[j]] = records[registry[j]]
    <3>1. registry[j] # registry[i] /\ registry[j] \in Record
      BY <2>2, OwnRecord, Referents
    <3>. QED  BY <1>2, <2>1, <3>1
  <2>3. Local(i)
    BY <1>1, <1>3, <2>1, <2>2 DEF Local, Keeps
  <2>4. Sound(i)'
    BY <1>1, <1>2, <1>3, <2>1 DEF Sound, None
  <2>5. Follows(i)'
    BY <2>1, Blanks DEF Follows, None
  <2>6. ReadyIsHeld'
    <3>1. \A m \in Proc : HeldBy(m) => HeldBy(m)'
      BY <1>2, <1>3, <2>1, <2>2 DEF HeldBy
    <3>. QED  BY <1>3, <3>1 DEF ManagerInv, ReadyIsHeld
  <2>. QED  BY <1>1, <1>3, <1>4, <2>3, <2>4, <2>5, <2>6, LocalStep
<1>6. CASE /\ watch' = [watch EXCEPT ![i] =
                            [Watching(i, registry, records) EXCEPT !.fails = watch[i].fails]]
           /\ records' = records
  <2>1. Watching(i, registry, records) = [at |-> "wait", rec |-> k, proc |-> records[k].proc, fails |-> 0]
    BY <1>1, <1>2 DEF Watching
  <2>2. /\ watch'[i].at = "wait" /\ watch'[i].rec = k /\ watch'[i].proc = records[k].proc
        /\ \A j \in Id \ {i} : watch'[j] = watch[j]
    BY <1>0, <1>6, <2>1
  <2>3. Local(i)
    BY <1>1, <1>3, <1>6, <2>2 DEF Local, Keeps
  <2>4. Sound(i)'
    BY <1>0, <1>1, <1>3, <1>6, <2>2 DEF Sound, None
  <2>5. Follows(i)'
    BY <1>1, <1>2, <1>3, <1>6, <2>2 DEF Follows
  <2>6. ReadyIsHeld'
    BY <1>3, <1>6 DEF ManagerInv, ReadyIsHeld, HeldBy
  <2>. QED  BY <1>1, <1>3, <1>4, <2>3, <2>4, <2>5, <2>6, LocalStep
<1>. QED  BY <1>3, <1>5, <1>6

LEMMA ReconcileInv ==
    ASSUME ManagerInv, TypeOK', NEW i \in Id,
           ReconcileSpawn(i) \/ Reconciled(i) \/ ReconcileFailed(i)
    PROVE  ManagerInv'
<1>0. /\ TypeOK /\ watch \in [Id -> WatchTask] /\ procs \in [Proc -> BrokerHandle]
      /\ meta \in [Id -> Perm \cup {None}]
      /\ watch[i].at = "reconcile"
  BY DEF ManagerInv, TypeOK, ReconcileSpawn, Reconciled, ReconcileFailed
<1>1. /\ \A d \in Client : req[d].id # i
      /\ Follows(i) /\ life = "booting" /\ registry[i] = 0 /\ i \in enc
      /\ meta[i] \in Perm
  BY <1>0, Watched DEF None, Follows
<1>2. CASE ReconcileSpawn(i)
  <2>1. PICK n \in Proc : /\ Fork(n, i, meta[i])
                          /\ watch' = [watch EXCEPT ![i] = [watch[i] EXCEPT !.proc = n]]
    BY <1>2 DEF ReconcileSpawn
  <2>2. UNCHANGED <<meta, enc, records, registry, req, life, exits>>
    BY <1>2 DEF ReconcileSpawn, vault
  <2>3. /\ watch'[i].at = "reconcile" /\ watch'[i].proc = n
        /\ \A j \in Id \ {i} : watch'[j] = watch[j]
    BY <1>0, <2>1 DEF WatchTask
  <2>4. Fresh(n) /\ procs' = [procs EXCEPT ![n] = [st |-> "booting", id |-> i, env |-> meta[i]]]
    BY <1>0, <2>1, ForkFresh
  <2>5. /\ procs'[n].env = meta[i] /\ procs'[n].st # "up"
        /\ \A m \in Proc \ {n} : procs'[m] = procs[m]
    BY <1>0, <2>4
  <2>6. Local(i)
    BY <1>1, <2>2, <2>3, <2>4, <2>5 DEF Local, Keeps
  <2>7. Follows(i)'
    BY <1>1, <2>2, <2>3, <2>5, NoneAssumption DEF Follows
  <2>8. Alone' /\ ReadyIsHeld'
    BY <2>2, <2>5 DEF ManagerInv, Alone, ReadyIsHeld, HeldBy
  <2>. QED  BY <1>1, <2>2, <2>6, <2>7, <2>8, LocalStep
<1>3. CASE Reconciled(i)
  <2>1. /\ watch[i].proc \in Proc /\ procs[watch[i].proc].st = "ready"
        /\ procs[watch[i].proc].env = meta[i]
        /\ Register(i, meta[i], watch[i].proc)
        /\ UNCHANGED <<meta, enc, req, life, exits>>
    BY <1>0, <1>1, <1>3, Referents DEF Reconciled, Follows, vault
  <2>2. Alone'
    BY <2>1 DEF ManagerInv, Alone
  <2>. QED  BY <1>1, <2>1, <2>2, RegisterInv
<1>4. CASE ReconcileFailed(i)
  <2>1. /\ UNCHANGED <<meta, enc, procs, records, registry, req, life, exits>>
        /\ watch' = [watch EXCEPT ![i] = NoWatch]
    BY <1>4 DEF ReconcileFailed, vault
  <2>2. watch'[i] = NoWatch /\ \A j \in Id \ {i} : watch'[j] = watch[j]
    BY <1>0, <2>1
  <2>3. Local(i)
    BY <1>1, <2>1, <2>2 DEF Local, Keeps
  <2>4. Follows(i)'
    BY <2>2, Blanks DEF Follows, None
  <2>5. Alone' /\ ReadyIsHeld'
    BY <2>1 DEF ManagerInv, Alone, ReadyIsHeld, HeldBy
  <2>. QED  BY <1>1, <2>1, <2>3, <2>4, <2>5, LocalStep
<1>. QED  BY <1>2, <1>3, <1>4

LEMMA WatcherInv ==
    ASSUME ManagerInv, TypeOK', NEW i \in Id, Watcher(i)
    PROVE  ManagerInv'
BY WatcherWakesInv, RespawnInv, RespawnUpInv, RespawnFailedInv, ReconcileInv DEF Watcher

LEMMA BrokerInv ==
    ASSUME ManagerInv, TypeOK',
           \/ Handshake
           \/ \E n \in Proc, code \in Exited : ProcExit(n, code)
           \/ \E i \in Id : StopBroker(i)
    PROVE  ManagerInv'
<1>0. procs \in [Proc -> BrokerHandle]
  BY DEF ManagerInv, TypeOK
<1>1. ASSUME NEW n \in Proc, NEW st \in {"ready"} \cup Exited, procs[n].st \in Live,
             st = "ready" => procs[n].st = "booting",
             procs' = [procs EXCEPT ![n].st = st],
             UNCHANGED <<vault, records, registry, watch, req, life, exits>>
      PROVE  ManagerInv'
  <2>1. /\ procs'[n].st = st /\ procs'[n].env = procs[n].env
        /\ \A m \in Proc \ {n} : procs'[m] = procs[m]
    BY <1>0, <1>1 DEF BrokerHandle
  <2>2. \A m \in Proc : Keeps(m) /\ (procs'[m].st = "up" => procs[m].st = "up")
    BY <1>1, <2>1 DEF Keeps
  <2>. QED  BY <1>1, <2>2, ProcessStep
<1>2. ASSUME NEW n \in Proc, PrintReady(n)
      PROVE  ManagerInv'
  BY <1>1, <1>2 DEF PrintReady
<1>3. ASSUME NEW n \in Proc, NEW code \in Exited, ProcExit(n, code)
      PROVE  ManagerInv'
  BY <1>1, <1>3 DEF ProcExit
<1>4. ASSUME NEW i \in Id, StopBroker(i)
      PROVE  ManagerInv'
  <2>1. records[registry[i]].proc \in Proc
    BY <1>4, Referents DEF StopBroker
  <2>. QED  BY <1>1, <1>4, <2>1 DEF StopBroker
<1>. QED  BY <1>2, <1>3, <1>4 DEF Handshake

LEMMA LifeInv ==
    ASSUME ManagerInv, TypeOK', Boot \/ Listen \/ StopAll \/ Exit
    PROVE  ManagerInv'
<1>1. CASE Boot
  <2>1. /\ UNCHANGED <<meta, enc, procs, records, registry, req, exits>>
        /\ life = "down" /\ life' = "booting"
        /\ \A i \in Id : \/ watch'[i] = NoWatch
                         \/ /\ i \in enc /\ meta[i] # None
                            /\ watch'[i] = [NoWatch EXCEPT !.at = "reconcile"]
    BY <1>1 DEF Boot, vault
  <2>2. \A i \in Id : registry[i] = 0
    BY <2>1 DEF ManagerInv
  <2>3. ASSUME NEW c \in Client
        PROVE  InCharge(c)'
    <3>1. req[c] = NoReq
      BY <2>1 DEF ManagerInv, InCharge
    <3>. QED  BY <2>1, <3>1 DEF InCharge, NoReq, None
  <2>4. ASSUME NEW i \in Id
        PROVE  Follows(i)'
    BY <2>1, <2>2 DEF Follows, NoWatch, None
  <2>5. Alone' /\ ReadyIsHeld'
    BY <2>1 DEF ManagerInv, Alone, ReadyIsHeld, HeldBy
  <2>. QED  BY <2>1, <2>2, <2>3, <2>4, <2>5 DEF ManagerInv
<1>2. CASE Listen
  <2>1. /\ UNCHANGED <<meta, enc, procs, records, registry, watch, req, exits>>
        /\ life = "booting" /\ life' = "serving"
        /\ \A i \in Id : watch[i].at # "reconcile"
    BY <1>2 DEF Listen, vault
  <2>2. ASSUME NEW c \in Client
        PROVE  InCharge(c)'
    <3>1. req[c] = NoReq
      BY <2>1 DEF ManagerInv, InCharge
    <3>. QED  BY <2>1, <3>1 DEF InCharge, NoReq, None
  <2>3. ASSUME NEW i \in Id
        PROVE  Follows(i)'
    BY <2>1 DEF ManagerInv, Follows
  <2>4. ASSUME NEW i \in Id, registry'[i] # 0
        PROVE  Sound(i)'
    BY <2>1, <2>4 DEF ManagerInv, Sound
  <2>5. Alone' /\ ReadyIsHeld'
    BY <2>1 DEF ManagerInv, Alone, ReadyIsHeld, HeldBy
  <2>. QED  BY <2>1, <2>2, <2>3, <2>4, <2>5 DEF ManagerInv
<1>3. CASE StopAll
  <2>1. /\ UNCHANGED <<meta, enc, procs, registry, req, exits>> /\ life' = "stopping"
        /\ \A i \in Id : watch'[i] = NoWatch
        /\ \A k \in Record : \/ records'[k] = records[k]
                             \/ records'[k] = [records[k] EXCEPT !.expected = TRUE]
    BY <1>3 DEF StopAll, vault
  <2>2. ASSUME NEW k \in Record
        PROVE  /\ records'[k].id = records[k].id /\ records'[k].perm = records[k].perm
               /\ records'[k].state = records[k].state /\ records'[k].proc = records[k].proc
    BY <2>1 DEF ManagerInv, TypeOK, IntegrationRecord
  <2>3. ASSUME NEW c \in Client
        PROVE  InCharge(c)'
    <3>1. InCharge(c)
      BY DEF ManagerInv
    <3>2. req[c].verb = "update" => records'[req[c].rec].proc = records[req[c].rec].proc
      BY <2>2, Referents
    <3>. QED  BY <2>1, <3>1, <3>2, Referents, Blanks DEF InCharge
  <2>4. ASSUME NEW i \in Id, registry'[i] # 0
        PROVE  Sound(i)'
    <3>1. Sound(i) /\ registry[i] \in Record
      BY <2>1, <2>4, Referents DEF ManagerInv
    <3>. QED  BY <2>1, <2>2, <3>1 DEF Sound
  <2>5. ASSUME NEW i \in Id
        PROVE  Follows(i)'
    BY <2>1, Blanks DEF Follows, None
  <2>6. Alone'
    BY <2>1 DEF ManagerInv, Alone
  <2>7. ReadyIsHeld'
    BY <2>1, <2>2, Referents DEF ManagerInv, ReadyIsHeld, HeldBy
  <2>. QED  BY <2>1, <2>3, <2>4, <2>5, <2>6, <2>7 DEF ManagerInv
<1>4. CASE Exit
  <2>1. /\ \A i \in Id : registry'[i] = 0 /\ watch'[i] = NoWatch
        /\ \A c \in Client : req'[c] = NoReq
        /\ \A n \in Proc : procs'[n] = NoProc
    BY <1>4 DEF Exit
  <2>2. Alone' /\ ReadyIsHeld'
    BY <2>1, Blanks DEF Alone, ReadyIsHeld, None
  <2>3. ASSUME NEW c \in Client
        PROVE  InCharge(c)'
    BY <2>1 DEF InCharge, NoReq, None
  <2>4. ASSUME NEW i \in Id
        PROVE  Follows(i)'
    BY <2>1, Blanks DEF Follows, None
  <2>. QED  BY <2>1, <2>2, <2>3, <2>4 DEF ManagerInv
<1>. QED  BY <1>1, <1>2, <1>3, <1>4

LEMMA NextInv ==
    ASSUME ~Overlap, ManagerInv, [Next]_vars
    PROVE  ManagerInv'
<1>1. TypeOK'
  BY TypeFromInv, NextType DEF TypeInv
<1>2. CASE UNCHANGED vars
  <2>1. UNCHANGED <<vault, records, registry, watch, req, life, exits>> /\ procs' = procs
    BY <1>2 DEF vars, vault
  <2>2. \A n \in Proc : Keeps(n) /\ (procs'[n].st = "up" => procs[n].st = "up")
    BY <2>1 DEF Keeps
  <2>. QED  BY <1>1, <2>1, <2>2, ProcessStep
<1>. QED  BY <1>1, <1>2, RequestInv, ServeInv, WatcherInv, BrokerInv, LifeInv DEF Next

\* While requests for one id do not overlap, the manager's invariant holds.
THEOREM ManagerInvariant == ASSUME ~Overlap PROVE Spec => []ManagerInv
<1>1. ManagerInv /\ [Next]_vars => ManagerInv'
  BY NextInv
<1>. QED  BY <1>1, InitInv, PTL DEF Spec

\* Whatever is registered can be brought back after a restart.
THEOREM RegisteredPersisted == ASSUME ~Overlap PROVE Spec => []RegisteredIsPersisted
<1>1. ManagerInv => RegisteredIsPersisted
  BY DEF ManagerInv, Sound, RegisteredIsPersisted
<1>. QED  BY <1>1, ManagerInvariant, PTL

\* What was granted last is in force in the vault, the record and the broker.
THEOREM GrantsInForce == ASSUME ~Overlap PROVE Spec => []PermissionsInForce
<1>1. ManagerInv => PermissionsInForce
  BY DEF ManagerInv, Sound, PermissionsInForce, Quiet, Runs, InFlight
<1>. QED  BY <1>1, ManagerInvariant, PTL

\* A record that runs has a watcher that will act on its broker's exit.
THEOREM RunningWatched == ASSUME ~Overlap PROVE Spec => []RunningIsWatched
<1>1. ASSUME ManagerInv
      PROVE  RunningIsWatched
  <2> SUFFICES ASSUME NEW i \in Id, Quiet(i), Runs(i)
               PROVE  /\ watch[i].at # None /\ watch[i].rec = registry[i]
                      /\ ~records[registry[i]].expected
    BY DEF RunningIsWatched
  <2>1. Sound(i) /\ Follows(i) /\ registry[i] # 0 /\ watch[i] \in WatchTask
    BY <1>1 DEF ManagerInv, TypeOK, Runs
  <2>2. watch[i].at # None
    BY <2>1 DEF Sound, Quiet, Runs, InFlight
  <2>3. watch[i].at \in {"wait", "backoff", "respawn"}
    BY <2>1, <2>2 DEF WatchTask, Follows
  <2>. QED  BY <2>1, <2>2, <2>3 DEF Follows
<1>. QED  BY <1>1, ManagerInvariant, PTL

\* A broker whose READY was taken in is held by a record or a request.
THEOREM ReadyHeld == ASSUME ~Overlap PROVE Spec => []ReadyIsHeld
<1>1. ManagerInv => ReadyIsHeld
  BY DEF ManagerInv
<1>. QED  BY <1>1, ManagerInvariant, PTL

\* A step starts a broker only by these four actions.
LEMMA Starts ==
    ASSUME TypeOK, [Next]_vars, NEW n \in Proc,
           procs[n].st # "booting", procs'[n].st = "booting"
    PROVE  \/ \E c \in Client : AddSecrets(c) \/ UpdateRestart(c)
           \/ \E i \in Id : Respawn(i) \/ ReconcileSpawn(i)
<1>0. procs \in [Proc -> BrokerHandle]
  BY DEF TypeOK
<1>1. ASSUME NEW m, NEW st, st # "booting", procs' = [procs EXCEPT ![m].st = st]
      PROVE  FALSE
  BY <1>0, <1>1 DEF BrokerHandle
<1>2. ~(procs' = procs)
  OBVIOUS
<1>3. CASE UNCHANGED vars
  BY <1>2, <1>3 DEF vars
<1>4. CASE Handshake \/ (\E m \in Proc, code \in Exited : ProcExit(m, code))
               \/ \E i \in Id : StopBroker(i)
  BY ZenonT(30), <1>1, <1>4 DEF Handshake, PrintReady, ProcExit, StopBroker
<1>5. CASE Request
  BY <1>2, <1>5 DEF Request, AddBegin, UpdateBegin, UpdateLabel, RemoveBegin, vault
<1>6. ASSUME NEW c \in Client, Serve(c), ~AddSecrets(c), ~UpdateRestart(c)
      PROVE  FALSE
  <2>1. AddUp(c) \/ UpdateUp(c) => procs' = [procs EXCEPT ![req[c].proc].st = "up"]
    BY DEF AddUp, UpdateUp, Register
  <2>2. ~Terminated(c)
    <3>1. ASSUME Terminated(c)
          PROVE  FALSE
      <4>1. procs' = [procs EXCEPT ![req[c].proc].st =
                         IF procs[req[c].proc].st = "up" THEN "died" ELSE procs[req[c].proc].st]
        BY <3>1 DEF Terminated
      <4>. QED  BY <1>0, <4>1 DEF BrokerHandle
    <3>. QED  BY <3>1
  <2>3. ~AddFailed(c) /\ ~WipeMeta(c) /\ ~WipeSecrets(c) /\ ~Stopped(c) /\ ~UpdateFailed(c)
    BY <1>2 DEF AddFailed, WipeMeta, WipeSecrets, Stopped, UpdateFailed, vault
  <2>. QED  BY <1>1, <1>6, <2>1, <2>2, <2>3 DEF Serve
<1>7. ASSUME NEW i \in Id, Watcher(i), ~Respawn(i), ~ReconcileSpawn(i)
      PROVE  FALSE
  <2>1. ~RespawnUp(i) /\ ~Reconciled(i)
    BY ZenonT(30), <1>1 DEF RespawnUp, Reconciled, Register
  <2>2. ~WatcherWakes(i) /\ ~RespawnFailed(i) /\ ~ReconcileFailed(i)
    BY <1>2 DEF WatcherWakes, RespawnFailed, ReconcileFailed, vault
  <2>. QED  BY <1>7, <2>1, <2>2 DEF Watcher
<1>8. ~Boot /\ ~Listen /\ ~StopAll
  BY <1>2 DEF Boot, Listen, StopAll, vault
<1>9. ~Exit
  BY Blanks DEF Exit, None
<1>. QED  BY <1>3, <1>4, <1>5, <1>6, <1>7, <1>8, <1>9 DEF Next

\* Only a request starts a broker for a record with a terminal state.
THEOREM NoRevival == ASSUME ~Overlap PROVE Spec => NoSelfRevival
<1>1. ManagerInv /\ [Next]_vars =>
        [\A i \in Id, n \in Proc :
             Quiet(i) /\ registry[i] # 0 /\ ~Runs(i) =>
                 ~(procs[n].st # "booting" /\ procs'[n].st = "booting" /\ procs'[n].id = i)]_vars
  <2> SUFFICES ASSUME ManagerInv, [Next]_vars, NEW i \in Id, NEW n \in Proc,
                      Quiet(i), registry[i] # 0, ~Runs(i),
                      procs[n].st # "booting", procs'[n].st = "booting", procs'[n].id = i
               PROVE  FALSE
    OBVIOUS
  <2>0. /\ TypeOK /\ procs \in [Proc -> BrokerHandle]
        /\ \A c \in Client : req[c].id # i
    BY DEF ManagerInv, TypeOK, Quiet, InFlight
  <2>1. watch[i].at \notin {"backoff", "reconcile"}
    BY Watched DEF Follows, Runs, None
  <2>2. ASSUME NEW m \in Proc, NEW j, NEW q, Fork(m, j, q)
        PROVE  j = i
    BY <2>0, <2>2 DEF Fork
  <2>3. ASSUME NEW c \in Client
        PROVE  ~AddSecrets(c) /\ ~UpdateRestart(c)
    BY <2>0, <2>2 DEF AddSecrets, UpdateRestart
  <2>4. ASSUME NEW j \in Id
        PROVE  ~Respawn(j) /\ ~ReconcileSpawn(j)
    <3>1. ~ReconcileSpawn(j)
      BY <2>1, <2>2 DEF ReconcileSpawn
    <3>2. ~Respawn(j)
      BY <2>1, <2>2 DEF Respawn
    <3>. QED  BY <3>1, <3>2
  <2>. QED  BY <2>0, <2>3, <2>4, Starts
<1>. QED  BY <1>1, ManagerInvariant, PTL DEF Spec, NoSelfRevival
=============================================================================
