----------------------------- MODULE DevicesProofs -----------------------------
(***************************************************************************)
(* Proofs about the machines of the agents' tools: the displays, the       *)
(* actions a vision model decides, and the server that makes pictures. Each *)
(* is a behaviour of its own, so its invariant is proved of its own steps  *)
(* and then of AllSpec, whose other steps leave its variables alone.       *)
(***************************************************************************)
EXTENDS MCDevices, SequenceTheorems, TLAPS

-----------------------------------------------------------------------------
(* The displays                                                            *)

Holds == {"starting", "working"}

(* What DisplaysAreExclusive needs to be inductive: numbers not yet handed *)
(* out are beyond every number in use or given back, and exactly the       *)
(* agents that start or work have one.                                     *)
DisplayInv ==
    /\ TypeOK
    /\ \A i \in 1..Len(free) : free[i] < next
    /\ \A a \in Agent :
        /\ owner[a] # None => owner[a] < next
        /\ IF agent[a].at \in Holds THEN owner[a] # None /\ owner[a] = agent[a].on
           ELSE owner[a] = None
    /\ DisplaysAreExclusive

(* Nobody has a display and none was given back.                           *)
LEMMA DisplaysInit == Init => DisplayInv
BY BaseAssumption DEF Init, DisplayInv, TypeOK, Holds, DisplaysAreExclusive

(* A step of an agent that takes or gives back no number.                  *)
LEMMA NumbersKept ==
    ASSUME DisplayInv, UNCHANGED <<owner, free, next>>, TypeOK',
           \A a \in Agent : /\ agent'[a].at \in Holds <=> agent[a].at \in Holds
                            /\ agent[a].at \in Holds => agent'[a].on = agent[a].on
    PROVE  DisplayInv'
BY DEF DisplayInv, DisplaysAreExclusive

(* allocate_display: a number given back is nobody's, and the next number  *)
(* was never handed out.                                                   *)
LEMMA AllocateExclusive ==
    ASSUME DisplayInv, NEW a \in Agent, Allocate(a) PROVE DisplayInv'
<1> USE BaseAssumption
<1>0. agent[a].at = "idle" /\ owner[a] = None
  BY DEF Allocate, DisplayInv, Holds
<1>1. CASE free # <<>>
  <2> DEFINE d == free[Len(free)]
  <2>1. Len(free) \in Nat \ {0} /\ d \in Nat /\ d < next /\ d # None
    BY <1>1 DEF DisplayInv, TypeOK
  <2>2. /\ owner' = [owner EXCEPT ![a] = d] /\ next' = next /\ running' = running
        /\ agent' = [agent EXCEPT ![a] = [at |-> "starting", on |-> d]]
        /\ free' = SubSeq(free, 1, Len(free) - 1)
    BY <1>1 DEF Allocate, Take
  <2>3. /\ free' \in Seq(Nat) /\ Len(free') = Len(free) - 1
        /\ \A i \in 1..Len(free') : free'[i] = free[i] /\ i \in 1..Len(free) /\ i # Len(free)
    <3> DEFINE n == Len(free) - 1
    <3>1. free \in Seq(Nat) /\ n \in Nat /\ 1 \in 1..Len(free) + 1 /\ n \in 0..Len(free)
      BY <2>1 DEF DisplayInv, TypeOK
    <3>2. /\ SubSeq(free, 1, n) \in Seq(Nat) /\ Len(SubSeq(free, 1, n)) = n
          /\ \A i \in 1..n : SubSeq(free, 1, n)[i] = free[i]
      <4> HIDE DEF n
      <4>1. n \in (1 - 1)..Len(free)
        BY <3>1
      <4> QED BY <3>1, <4>1, SubSeqProperties
    <3>4. \A i \in 1..n : i \in 1..Len(free) /\ i # Len(free)
      BY <2>1
    <3> QED BY <2>2, <3>2, <3>4
  <2>4. TypeOK'
    BY <2>1, <2>2, <2>3 DEF DisplayInv, TypeOK
  <2>5. \A b \in Agent : owner[b] # d
    BY <2>1 DEF DisplayInv, DisplaysAreExclusive
  <2>6. \A i \in 1..Len(free') : free'[i] # d
    <3>1. \A i \in 1..Len(free) : free[i] = d => i = Len(free)
      BY <2>1 DEF DisplayInv, DisplaysAreExclusive
    <3> QED BY <2>3, <3>1
  <2>7. DisplaysAreExclusive'
    <3>1. owner'[a] = d /\ \A b \in Agent : b # a => owner'[b] = owner[b]
      BY <2>2 DEF DisplayInv, TypeOK
    <3>2. \A b, c \in Agent : owner'[b] = owner'[c] /\ owner'[b] # None => b = c
      BY <2>5, <3>1 DEF DisplayInv, DisplaysAreExclusive
    <3>3. \A i \in 1..Len(free') : \A b \in Agent : owner'[b] # free'[i]
      BY <2>3, <2>6, <3>1, SMTT(20) DEF DisplayInv, DisplaysAreExclusive
    <3>4. \A i, j \in 1..Len(free') : free'[i] = free'[j] => i = j
      BY <2>3 DEF DisplayInv, DisplaysAreExclusive
    <3> QED BY <3>2, <3>3, <3>4 DEF DisplaysAreExclusive
  <2>8. \A i \in 1..Len(free') : free'[i] < next'
    BY <2>2, <2>3 DEF DisplayInv
  <2>9. \A b \in Agent : /\ owner'[b] # None => owner'[b] < next'
                         /\ IF agent'[b].at \in Holds THEN owner'[b] # None /\ owner'[b] = agent'[b].on
                            ELSE owner'[b] = None
    BY <2>1, <2>2 DEF DisplayInv, TypeOK, Holds
  <2> QED BY <2>4, <2>7, <2>8, <2>9 DEF DisplayInv
<1>2. CASE free = <<>>
  <2>1. /\ owner' = [owner EXCEPT ![a] = next] /\ next' = next + 1 /\ free' = free
        /\ agent' = [agent EXCEPT ![a] = [at |-> "starting", on |-> next]]
        /\ running' = running
    BY <1>2 DEF Allocate, Take
  <2>2. next \in Nat /\ next # None
    BY DEF DisplayInv, TypeOK
  <2>3. TypeOK'
    BY <2>1, <2>2 DEF DisplayInv, TypeOK
  <2>4. \A b \in Agent : owner[b] # next
    BY <2>2 DEF DisplayInv
  <2>5. DisplaysAreExclusive'
    BY <1>2, <2>1, <2>4 DEF DisplayInv, TypeOK, DisplaysAreExclusive
  <2>6. \A b \in Agent : /\ owner'[b] # None => owner'[b] < next'
                         /\ IF agent'[b].at \in Holds THEN owner'[b] # None /\ owner'[b] = agent'[b].on
                            ELSE owner'[b] = None
    BY <2>1, <2>2 DEF DisplayInv, TypeOK, Holds
  <2> QED BY <1>2, <2>1, <2>3, <2>5, <2>6 DEF DisplayInv
<1> QED BY <1>1, <1>2

(* release_display: the number was this agent's alone and not on the stack. *)
LEMMA ReleaseExclusive ==
    ASSUME DisplayInv, NEW a \in Agent, Release(a) PROVE DisplayInv'
<1> USE BaseAssumption
<1> DEFINE d == owner[a]
<1>1. d \in Nat /\ d # None /\ d < next
  BY DEF Release, DisplayInv, TypeOK, Holds
<1>2. /\ owner' = [owner EXCEPT ![a] = None] /\ free' = Append(free, d)
      /\ agent' = [agent EXCEPT ![a].at = "clearing"] /\ next' = next /\ running' = running
  BY DEF Release
<1>3. /\ free' \in Seq(Nat) /\ Len(free') = Len(free) + 1 /\ Len(free) \in Nat
      /\ free'[Len(free')] = d
      /\ \A i \in 1..Len(free) : free'[i] = free[i]
  BY <1>1, <1>2 DEF DisplayInv, TypeOK
<1>4. TypeOK'
  BY <1>2, <1>3 DEF DisplayInv, TypeOK
<1>5. \A i \in 1..Len(free) : free[i] # d
  BY DEF DisplayInv, DisplaysAreExclusive
<1>6. \A b \in Agent : b # a => owner'[b] = owner[b] /\ owner[b] # d
  BY <1>1, <1>2 DEF DisplayInv, TypeOK, DisplaysAreExclusive
<1>7. owner'[a] = None
  BY <1>2 DEF DisplayInv, TypeOK
<1>8. \A i \in 1..Len(free') : i = Len(free') \/ i \in 1..Len(free)
  BY <1>3
<1>9. DisplaysAreExclusive'
  <2>1. \A b, c \in Agent : owner'[b] = owner'[c] /\ owner'[b] # None => b = c
    BY <1>6, <1>7 DEF DisplayInv, DisplaysAreExclusive
  <2>2. \A i \in 1..Len(free') : \A b \in Agent : owner'[b] # free'[i]
    <3>1. \A i \in 1..Len(free) : free[i] # None
      BY DEF DisplayInv, TypeOK
    <3> QED BY <1>1, <1>3, <1>6, <1>7, <1>8, <3>1 DEF DisplayInv, DisplaysAreExclusive
  <2>3. \A i, j \in 1..Len(free') : free'[i] = free'[j] => i = j
    BY <1>3, <1>5, <1>8 DEF DisplayInv, DisplaysAreExclusive
  <2> QED BY <2>1, <2>2, <2>3 DEF DisplaysAreExclusive
<1>10. \A i \in 1..Len(free') : free'[i] < next'
  BY <1>1, <1>2, <1>3, <1>8 DEF DisplayInv
<1>11. \A b \in Agent : /\ owner'[b] # None => owner'[b] < next'
                        /\ IF agent'[b].at \in Holds THEN owner'[b] # None /\ owner'[b] = agent'[b].on
                           ELSE owner'[b] = None
  BY <1>1, <1>2 DEF DisplayInv, TypeOK, Holds
<1> QED BY <1>4, <1>9, <1>10, <1>11 DEF DisplayInv

(* Starting the processes moves no number.                                 *)
LEMMA StartExclusive ==
    ASSUME DisplayInv, NEW a \in Agent, StartAgent(a) PROVE DisplayInv'
<1>1. agent[a].at = "starting" /\ agent[a].on \in Nat
  BY DEF StartAgent, DisplayInv, TypeOK, Holds
<1>2. agent' = [agent EXCEPT ![a].at = "working"] /\ UNCHANGED <<owner, free, next>>
  BY DEF StartAgent
<1>3. agent' \in [Agent -> [at : {"idle", "starting", "working", "clearing"},
                           on : Nat \cup {None}]]
  BY <1>2 DEF DisplayInv, TypeOK
<1>4. running' \subseteq Nat \X Agent
  <2>1. running \subseteq Nat \X Agent /\ <<agent[a].on, a>> \in Nat \X Agent
    BY <1>1 DEF DisplayInv, TypeOK
  <2> QED BY <2>1, Zenon DEF StartAgent
<1>5. TypeOK'
  BY <1>2, <1>3, <1>4 DEF DisplayInv, TypeOK
<1>6. \A b \in Agent : /\ agent'[b].at \in Holds <=> agent[b].at \in Holds
                       /\ agent[b].at \in Holds => agent'[b].on = agent[b].on
  BY <1>1, <1>2 DEF DisplayInv, TypeOK, Holds
<1> QED BY <1>2, <1>5, <1>6, NumbersKept

(* Nor does ending them.                                                   *)
LEMMA ClearExclusive ==
    ASSUME DisplayInv, NEW a \in Agent, Clear(a) PROVE DisplayInv'
<1>1. agent' = [agent EXCEPT ![a] = [at |-> "idle", on |-> None]] /\ UNCHANGED <<owner, free, next>>
  BY DEF Clear
<1>2. running' \subseteq Nat \X Agent
  BY DEF Clear, DisplayInv, TypeOK
<1>3. TypeOK'
  BY <1>1, <1>2 DEF DisplayInv, TypeOK
<1>4. \A b \in Agent : /\ agent'[b].at \in Holds <=> agent[b].at \in Holds
                       /\ agent[b].at \in Holds => agent'[b].on = agent[b].on
  BY <1>1 DEF Clear, DisplayInv, TypeOK, Holds
<1> QED BY <1>1, <1>3, <1>4, NumbersKept

(* Every step keeps the numbers exclusive.                                 *)
LEMMA DisplaysStep == DisplayInv /\ [Next]_vars => DisplayInv'
<1> SUFFICES ASSUME DisplayInv, [Next]_vars PROVE DisplayInv'
  OBVIOUS
<1>1. CASE UNCHANGED vars
  <2>1. TypeOK'
    BY <1>1 DEF vars, DisplayInv, TypeOK
  <2> QED BY <1>1, <2>1, NumbersKept DEF vars
<1>2. ASSUME NEW a \in Agent, Allocate(a) PROVE DisplayInv'
  BY <1>2, AllocateExclusive
<1>3. ASSUME NEW a \in Agent, StartAgent(a) PROVE DisplayInv'
  BY <1>3, StartExclusive
<1>4. ASSUME NEW a \in Agent, Release(a) PROVE DisplayInv'
  BY <1>4, ReleaseExclusive
<1>5. ASSUME NEW a \in Agent, Clear(a) PROVE DisplayInv'
  BY <1>5, ClearExclusive
<1> QED BY <1>1, <1>2, <1>3, <1>4, <1>5 DEF Next

(* For any set of agents and any first display, no display number is two   *)
(* agents' or both an agent's and free, though numbers come back in any    *)
(* order and are handed out again.                                         *)
THEOREM DisplaysStayExclusive == Spec => []DisplaysAreExclusive
<1>1. DisplayInv => DisplaysAreExclusive
  BY DEF DisplayInv
<1> QED BY <1>1, DisplaysInit, DisplaysStep, PTL DEF Spec

(* What the display pool's variables are.                                  *)
THEOREM DisplayTypes == Spec => []TypeOK
<1>1. DisplayInv => TypeOK
  BY DEF DisplayInv
<1> QED BY <1>1, DisplaysInit, DisplaysStep, PTL DEF Spec

-----------------------------------------------------------------------------
(* Pictures and music                                                      *)

Locked   == {"loading", "swapping", "ready", "making"}
Waits    == {"idle", "ensure", "look", "start", "waiting", "post", "switch", "done", "failed"}
Requests == [at : Waits \cup Locked \cup {"queued"}, model : Model \cup {Nothing},
             on : Pid \cup {Nothing}]
MadeOf   == [weights : {Weights[m] : m \in Model} \cup {Nothing}, adapters : Model \cup {Nothing}]

InferTypes ==
    /\ loaded \in [Pid -> Model \cup {Nothing}] /\ adapters \in [Pid -> Model \cup {Nothing}]
    /\ weights \in [Pid -> {Weights[m] : m \in Model} \cup {Nothing}]
    /\ lock \in [Pid -> Client \cup {"free", "orphan"}]
    /\ client \in [Client -> Requests]
    /\ made \in [Client -> MadeOf \cup {Nothing}]

\* A pipe has the weights of the model whose name it carries, or none.
NamedByWeights ==
    \A p \in Pid : loaded[p] # Nothing => weights[p] \in {Weights[loaded[p]], Nothing}

\* What is so of a request from the time it has the lock until it is done.
Requested(c) ==
    LET p == client[c].on  m == client[c].model  at == client[c].at IN
    /\ at # "idle" => m \in Model
    /\ at \in Locked \cup {"queued"} => p \in Pid
    /\ at \in Locked => lock[p] = c
    /\ at = "loading" => loaded[p] = Nothing
    /\ at \in {"swapping", "ready"} => weights[p] \in {Weights[m], Nothing}
    /\ at = "ready" => loaded[p] \in {m, Nothing}
    /\ at \in {"making", "done"} => made[c].weights = Weights[m]

InferInv == InferTypes /\ NamedByWeights /\ \A c \in Client : Requested(c)

LEMMA InferStarts == Infer!Init => InferInv
BY DEF Infer!Init, InferInv, InferTypes, NamedByWeights, Requested, Requests, MadeOf, Waits, Locked

(* A client does something outside the server, or leaves it: it has no     *)
(* lock and nothing but its own request is changed.                        *)
LEMMA RequestMoves ==
    ASSUME InferInv, NEW c \in Client,
           UNCHANGED <<loaded, weights, adapters, lock, made>>,
           client' \in [Client -> Requests], \A d \in Client \ {c} : client'[d] = client[d],
           client'[c].at \in (Waits \cup {"queued"}) \ {"done"},
           client'[c].at # "idle" => client'[c].model \in Model,
           client'[c].at = "queued" => client'[c].on \in Pid
    PROVE  InferInv'
BY DEF InferInv, InferTypes, NamedByWeights, Requested, Waits, Locked

(* A server process ends, and with it the requests it has.                 *)
LEMMA ProcessEnds ==
    ASSUME InferInv, NEW p \in Pid, Infer!Ends(p), UNCHANGED made,
           client' \in [Client -> Requests],
           \A d \in Client : \/ client'[d] = client[d] /\ d \notin Infer!On(p)
                             \/ /\ client'[d].at \in Waits \ {"idle", "done"}
                                /\ client'[d].model = client[d].model
                                /\ client[d].at # "idle"
    PROVE  InferInv'
<1>1. InferTypes'
  BY DEF InferInv, InferTypes, Infer!Ends
<1>2. NamedByWeights'
  BY DEF InferInv, InferTypes, NamedByWeights, Infer!Ends
<1>3. ASSUME NEW d \in Client PROVE Requested(d)'
  <2>1. CASE client'[d] = client[d] /\ d \notin Infer!On(p)
    <3>1. client[d].at \in Locked => client[d].on # p
      BY <2>1 DEF Infer!On, Infer!InServer, Locked
    <3> QED BY <2>1, <3>1 DEF InferInv, InferTypes, Requested, Infer!Ends, Locked
  <2>2. CASE /\ client'[d].at \in Waits \ {"idle", "done"}
             /\ client'[d].model = client[d].model
             /\ client[d].at # "idle"
    BY <2>2 DEF InferInv, InferTypes, Requested, Waits, Locked
  <2> QED BY <1>3, <2>1, <2>2
<1> QED BY <1>1, <1>2, <1>3 DEF InferInv

\* The requests of a process that ended, which fail.
LEMMA CutOff ==
    ASSUME InferInv, NEW p \in Pid
    PROVE  /\ Infer!Cut(p) \in [Client -> Requests]
           /\ \A d \in Client :
                 \/ Infer!Cut(p)[d] = client[d] /\ d \notin Infer!On(p)
                 \/ /\ Infer!Cut(p)[d].at = "failed" /\ Infer!Cut(p)[d].model = client[d].model
                    /\ client[d].at # "idle"
BY ZenonT(30) DEF InferInv, InferTypes, Infer!Cut, Infer!On, Infer!InServer, Requests, Waits, Locked

(* A request that has the lock of its process gives it back, and ends.     *)
LEMMA LockReleased ==
    ASSUME InferInv, NEW c \in Client, NEW p \in Pid, client[c].on = p, lock[p] = c,
           UNCHANGED <<loaded, adapters, made>>, NamedByWeights',
           weights' \in [Pid -> {Weights[m] : m \in Model} \cup {Nothing}],
           \A q \in Pid \ {p} : weights'[q] = weights[q],
           lock' = [lock EXCEPT ![p] = "free"],
           client' \in [Client -> Requests], \A d \in Client \ {c} : client'[d] = client[d],
           client'[c].at \in {"failed", "done"}, client'[c].model = client[c].model,
           client'[c].at = "done" => client[c].at = "making",
           client[c].at # "idle"
    PROVE  InferInv'
<1>1. InferTypes'
  BY DEF InferInv, InferTypes
<1>2. Requested(c)'
  BY DEF InferInv, InferTypes, Requested, Locked
<1>3. ASSUME NEW d \in Client, d # c PROVE Requested(d)'
  <2>1. client[d].at \in Locked => client[d].on # p
    BY <1>3 DEF InferInv, Requested
  <2> QED BY <1>3, <2>1 DEF InferInv, InferTypes, Requested, Locked
<1> QED BY <1>1, <1>2, <1>3 DEF InferInv

(* A request that has the lock goes on in its process.                     *)
LEMMA LockKept ==
    ASSUME InferInv, NEW c \in Client, NEW p \in Pid, client[c].on = p, lock[p] \in {c, "free"},
           InferTypes', NamedByWeights', Requested(c)',
           \A q \in Pid \ {p} : /\ weights'[q] = weights[q] /\ loaded'[q] = loaded[q]
                                /\ lock'[q] = lock[q],
           \A d \in Client \ {c} : client'[d] = client[d] /\ made'[d] = made[d]
    PROVE  InferInv'
<1>1. ASSUME NEW d \in Client, d # c PROVE Requested(d)'
  <2>1. client[d].at \in Locked => client[d].on # p
    BY <1>1, RequestsAreNotMarks DEF InferInv, Requested
  <2> QED BY <1>1, <2>1 DEF InferInv, InferTypes, Requested, Locked
<1> QED BY <1>1 DEF InferInv

(* Every step keeps it, one action at a time.                              *)
LEMMA InferKeeps == InferInv /\ [Infer!Next]_(Infer!vars) => InferInv'
<1> SUFFICES ASSUME InferInv, [Infer!Next]_(Infer!vars) PROVE InferInv'
  OBVIOUS
<1> USE DEF Infer!pipe
<1>0. client \in [Client -> Requests] /\ \A c \in Client : Requested(c)
  BY DEF InferInv, InferTypes
<1>1. CASE UNCHANGED Infer!vars
  BY <1>1 DEF Infer!vars, InferInv, InferTypes, NamedByWeights, Requested
<1>2. ASSUME NEW c \in Client, NEW m \in Model, Infer!Ask(c, m) PROVE InferInv'
  <2> DEFINE r == [at |-> "ensure", model |-> m, on |-> Nothing]
  <2>1. r \in Requests /\ r.at = "ensure" /\ r.model = m
    BY DEF Requests, Waits
  <2>2. client' = [client EXCEPT ![c] = r]
    BY <1>2 DEF Infer!Ask
  <2> HIDE DEF r
  <2>3. /\ client' \in [Client -> Requests] /\ client'[c] = r
        /\ \A d \in Client \ {c} : client'[d] = client[d]
    BY <1>0, <2>1, <2>2
  <2>4. UNCHANGED <<loaded, weights, adapters, lock, made>>
    BY <1>2 DEF Infer!Ask
  <2> QED BY <2>1, <2>3, <2>4, RequestMoves DEF Waits
<1>3. ASSUME NEW c \in Client, Infer!Calls(c), ~Infer!KillServer(c) PROVE InferInv'
  <2>1. UNCHANGED <<loaded, weights, adapters, lock, made>>
    BY <1>3 DEF Infer!Calls, Infer!Healthy, Infer!Unhealthy, Infer!Look, Infer!Start,
                Infer!Deadline, Infer!Post
  <2>2. /\ client' \in [Client -> Requests] /\ \A d \in Client \ {c} : client'[d] = client[d]
        /\ client'[c].at \in (Waits \cup {"queued"}) \ {"done", "idle"}
        /\ client'[c].model = client[c].model /\ client[c].at # "idle"
        /\ client'[c].at = "queued" => client'[c].on \in Pid
    <3>1. CASE Infer!Healthy(c) \/ Infer!Unhealthy(c) \/ Infer!Look(c) \/ Infer!Start(c)
      BY <1>0, <3>1 DEF Infer!Healthy, Infer!Unhealthy, Infer!Look, Infer!Start, Infer!Goto,
                        Requests, Waits
    <3>2. CASE Infer!Deadline(c)
      BY <1>0, <3>2 DEF Infer!Deadline, Infer!Leave, Requests, Waits
    <3>3. CASE Infer!Post(c)
      BY <1>0, <3>3 DEF Infer!Post, Infer!Leave, Infer!Listening, Requests, Waits
    <3> QED BY <1>3, <3>1, <3>2, <3>3 DEF Infer!Calls
  <2>3. client'[c].model \in Model
    BY <1>0, <2>2 DEF Requested
  <2> QED BY <2>1, <2>2, <2>3, RequestMoves
<1>4. ASSUME NEW c \in Client, Infer!KillServer(c) PROVE InferInv'
  <2>1. CASE pidfile \in Infer!Alive
    <3> DEFINE cut == Infer!Cut(pidfile)
    <3>1. pidfile \in Pid /\ Infer!Ends(pidfile) /\ UNCHANGED made
      BY <1>4, <2>1 DEF Infer!KillServer, Infer!Alive
    <3>2. /\ cut \in [Client -> Requests]
          /\ \A d \in Client :
                 \/ cut[d] = client[d] /\ d \notin Infer!On(pidfile)
                 \/ /\ cut[d].at = "failed" /\ cut[d].model = client[d].model
                    /\ client[d].at # "idle"
      BY <3>1, CutOff
    <3>3. client' = [cut EXCEPT ![c].at = "ensure"] /\ client[c].at = "switch"
      BY <1>4, <2>1 DEF Infer!KillServer
    <3> HIDE DEF cut
    <3>4. client' \in [Client -> Requests] /\ \A d \in Client \ {c} : client'[d] = cut[d]
      BY <3>2, <3>3 DEF Requests, Waits
    <3>5. client'[c].at = "ensure" /\ client'[c].model = cut[c].model
      BY <3>2, <3>3 DEF Requests
    <3>6. cut[c].model = client[c].model
      BY <3>2
    <3>7. ASSUME NEW d \in Client
          PROVE  \/ client'[d] = client[d] /\ d \notin Infer!On(pidfile)
                 \/ /\ client'[d].at \in Waits \ {"idle", "done"}
                    /\ client'[d].model = client[d].model
                    /\ client[d].at # "idle"
      BY <3>2, <3>3, <3>4, <3>5, <3>6 DEF Waits
    <3> QED BY <3>1, <3>4, <3>7, ProcessEnds
  <2>2. CASE pidfile \notin Infer!Alive
    <3>1. UNCHANGED <<loaded, weights, adapters, lock, made>> /\ client[c].at = "switch"
      BY <1>4, <2>2 DEF Infer!KillServer
    <3>2. /\ client' \in [Client -> Requests] /\ \A d \in Client \ {c} : client'[d] = client[d]
          /\ client'[c].at = "ensure" /\ client'[c].model = client[c].model
      BY <1>0, <1>4, <2>2 DEF Infer!KillServer, Infer!Goto, Requests, Waits
    <3>3. client'[c].model \in Model
      BY <1>0, <3>1, <3>2 DEF Requested
    <3> QED BY <3>1, <3>2, <3>3, RequestMoves DEF Waits
  <2> QED BY <2>1, <2>2
<1>5. ASSUME NEW c \in Client, Infer!GiveUp(c) PROVE InferInv'
  <2>1. /\ client' \in [Client -> Requests] /\ \A d \in Client \ {c} : client'[d] = client[d]
        /\ client'[c].at = "failed" /\ client'[c].model = client[c].model /\ client[c].at # "idle"
    BY <1>0, <1>5 DEF Infer!GiveUp, Requests, Waits
  <2>2. /\ UNCHANGED <<loaded, weights, adapters, made>>
        /\ lock' = [p \in Pid |-> IF lock[p] = c THEN "orphan" ELSE lock[p]]
    BY <1>5 DEF Infer!GiveUp
  <2>3. InferTypes'
    BY <2>1, <2>2 DEF InferInv, InferTypes
  <2>4. NamedByWeights'
    BY <2>2 DEF InferInv, NamedByWeights
  <2>5. Requested(c)'
    BY <1>0, <2>1 DEF Requested, Locked
  <2>6. ASSUME NEW d \in Client, d # c PROVE Requested(d)'
    BY <1>0, <2>1, <2>2, <2>6 DEF Requested, Locked
  <2> QED BY <2>3, <2>4, <2>5, <2>6 DEF InferInv
<1>6. ASSUME NEW c \in Client, Infer!Lock(c) PROVE InferInv'
  <2> DEFINE p == client[c].on
             m == client[c].model
  <2>1. /\ client[c].at = "queued" /\ lock[p] = "free" /\ p \in Pid /\ m \in Model
        /\ UNCHANGED made
    BY <1>0, <1>6 DEF Infer!Lock, Requested
  <2>2. CASE Infer!MustSwitch(p, m) /\ UNCHANGED <<loaded, weights, adapters, lock>>
             /\ client' = [client EXCEPT ![c].at = "switch", ![c].on = Nothing]
    <3>1. /\ client' \in [Client -> Requests] /\ \A d \in Client \ {c} : client'[d] = client[d]
          /\ client'[c].at = "switch" /\ client'[c].model = client[c].model
      BY <1>0, <2>2 DEF Requests, Waits
    <3> QED BY <2>1, <2>2, <3>1, RequestMoves DEF Waits
  <2>3. CASE /\ \/ loaded[p] = m /\ Infer!Goto(c, "ready") /\ UNCHANGED <<loaded, weights, adapters>>
                \/ /\ loaded[p] = Nothing /\ Infer!Goto(c, "loading")
                   /\ weights' = [weights EXCEPT ![p] = Nothing]
                   /\ adapters' = [adapters EXCEPT ![p] = Nothing] /\ UNCHANGED loaded
                \/ /\ Infer!NeedsSwap(p, m) /\ Infer!Goto(c, "swapping")
                   /\ adapters' = [adapters EXCEPT ![p] = Nothing]
                   /\ UNCHANGED <<loaded, weights>>
             /\ lock' = [lock EXCEPT ![p] = c]
    <3>1. /\ client' \in [Client -> Requests]
          /\ \A d \in Client \ {c} : client'[d] = client[d] /\ made'[d] = made[d]
          /\ client'[c].at \in {"ready", "loading", "swapping"}
          /\ client'[c].model = m /\ client'[c].on = p
      BY <1>0, <2>1, <2>3 DEF Infer!Goto, Requests, Waits, Locked
    <3>2. InferTypes' /\ NamedByWeights'
      BY <2>1, <2>3, <3>1 DEF InferInv, InferTypes, NamedByWeights
    <3>3. lock'[p] = c /\ \A q \in Pid \ {p} : /\ weights'[q] = weights[q]
                                               /\ loaded'[q] = loaded[q] /\ lock'[q] = lock[q]
      BY <2>1, <2>3 DEF InferInv, InferTypes
    <3>4. /\ client'[c].at = "loading" => loaded'[p] = Nothing
          /\ client'[c].at \in {"swapping", "ready"} => weights'[p] \in {Weights[m], Nothing}
          /\ client'[c].at = "ready" => loaded'[p] \in {m, Nothing}
      <4>1. CASE loaded[p] = m /\ Infer!Goto(c, "ready") /\ UNCHANGED <<loaded, weights, adapters>>
        BY <1>0, <2>1, <4>1, NothingIsNoModel DEF InferInv, NamedByWeights, Infer!Goto
      <4>2. CASE loaded[p] = Nothing /\ Infer!Goto(c, "loading") /\ UNCHANGED loaded
        BY <1>0, <2>1, <4>2 DEF Infer!Goto, Requests
      <4>3. CASE Infer!NeedsSwap(p, m) /\ Infer!Goto(c, "swapping") /\ UNCHANGED <<loaded, weights>>
        BY <1>0, <2>1, <4>3 DEF InferInv, NamedByWeights, Infer!Goto, Infer!NeedsSwap, Requests
      <4> QED BY <2>3, <4>1, <4>2, <4>3
    <3>5. Requested(c)'
      BY <2>1, <3>1, <3>3, <3>4 DEF Requested, Locked
    <3> QED BY <2>1, <3>1, <3>2, <3>3, <3>5, LockKept
  <2> QED BY <1>6, <2>2, <2>3 DEF Infer!Lock
<1>7. ASSUME NEW c \in Client, Infer!Loaded(c) \/ Infer!Swapped(c) PROVE InferInv'
  <2> DEFINE p == client[c].on
             m == client[c].model
  <2>1. /\ lock[p] = c /\ p \in Pid /\ m \in Model /\ client[c].at \in {"loading", "swapping"}
        /\ UNCHANGED <<lock, made>> /\ client' = [client EXCEPT ![c].at = "ready"]
        /\ loaded' = [loaded EXCEPT ![p] = m] /\ adapters' = [adapters EXCEPT ![p] = m]
    BY <1>0, <1>7 DEF Infer!Loaded, Infer!Swapped, Infer!Holds, Infer!Goto, Requested, Locked
  <2>2. /\ client' \in [Client -> Requests]
        /\ \A d \in Client \ {c} : client'[d] = client[d] /\ made'[d] = made[d]
        /\ client'[c].at = "ready" /\ client'[c].model = m /\ client'[c].on = p
    BY <1>0, <2>1 DEF Requests, Waits, Locked
  <2>3. /\ weights' \in [Pid -> {Weights[x] : x \in Model} \cup {Nothing}]
        /\ weights'[p] \in {Weights[m], Nothing}
        /\ \A q \in Pid \ {p} : weights'[q] = weights[q]
    BY <1>0, <1>7, <2>1 DEF Infer!Loaded, Infer!Swapped, Infer!Holds, InferInv, InferTypes, Requested
  <2>4. /\ loaded'[p] = m
        /\ \A q \in Pid \ {p} : loaded'[q] = loaded[q] /\ lock'[q] = lock[q]
    BY <2>1 DEF InferInv, InferTypes
  <2>5. InferTypes' /\ NamedByWeights'
    BY <2>1, <2>2, <2>3, <2>4 DEF InferInv, InferTypes, NamedByWeights
  <2>6. Requested(c)'
    BY <2>1, <2>2, <2>3, <2>4 DEF Requested, Locked
  <2> QED BY <2>1, <2>2, <2>3, <2>4, <2>5, <2>6, LockKept
<1>8. ASSUME NEW c \in Client, Infer!LoadFails(c) \/ Infer!Made(c) PROVE InferInv'
  <2> DEFINE p == client[c].on
             m == client[c].model
  <2>1. /\ lock[p] = c /\ p \in Pid /\ m \in Model
        /\ client[c].at \in {"loading", "swapping", "making"}
        /\ UNCHANGED <<loaded, adapters, made>> /\ lock' = [lock EXCEPT ![p] = "free"]
    BY <1>0, <1>8 DEF Infer!LoadFails, Infer!Made, Infer!Holds, Infer!Release, Requested, Locked
  <2>2. /\ client' \in [Client -> Requests] /\ \A d \in Client \ {c} : client'[d] = client[d]
        /\ client'[c].at \in {"failed", "done"} /\ client'[c].model = client[c].model
        /\ client'[c].at = "done" => client[c].at = "making"
    BY <1>0, <1>8 DEF Infer!LoadFails, Infer!Made, Infer!Holds, Infer!Leave, Requests, Waits
  <2>3. /\ weights' \in [Pid -> {Weights[x] : x \in Model} \cup {Nothing}]
        /\ \A q \in Pid \ {p} : weights'[q] = weights[q]
        /\ weights' = weights \/ loaded[p] = Nothing
    BY <1>0, <1>8, <2>1 DEF Infer!LoadFails, Infer!Made, InferInv, InferTypes, Requested
  <2>4. NamedByWeights'
    BY <2>1, <2>3 DEF InferInv, NamedByWeights
  <2> QED BY <2>1, <2>2, <2>3, <2>4, LockReleased
<1>9. ASSUME NEW c \in Client, Infer!Generate(c) PROVE InferInv'
  <2> DEFINE p == client[c].on
             m == client[c].model
  <2>1. /\ lock[p] = c /\ p \in Pid /\ m \in Model /\ client[c].at = "ready"
        /\ UNCHANGED <<loaded, weights, adapters>> /\ weights[p] \in {Weights[m], Nothing}
    BY <1>0, <1>9 DEF Infer!Generate, Infer!Holds, Infer!pipe, Requested, Locked
  <2>2. NamedByWeights'
    BY <2>1 DEF InferInv, NamedByWeights
  <2>3. CASE weights[p] = Nothing
    <3>1. /\ client' \in [Client -> Requests] /\ \A d \in Client \ {c} : client'[d] = client[d]
          /\ client'[c].at = "failed" /\ client'[c].model = client[c].model
      BY <1>0, <1>9, <2>3 DEF Infer!Generate, Infer!Leave, Requests, Waits
    <3>2. lock' = [lock EXCEPT ![p] = "free"] /\ UNCHANGED made
      BY <1>9, <2>3 DEF Infer!Generate, Infer!Release
    <3>3. weights' \in [Pid -> {Weights[x] : x \in Model} \cup {Nothing}]
      BY <2>1 DEF InferInv, InferTypes
    <3> QED BY <2>1, <2>2, <3>1, <3>2, <3>3, LockReleased
  <2>4. CASE weights[p] # Nothing
    <3> DEFINE w == [weights |-> weights[p], adapters |-> adapters[p]]
    <3>1. w \in MadeOf /\ w.weights = Weights[m]
      BY <2>1, <2>4 DEF InferInv, InferTypes, MadeOf
    <3>2. made' = [made EXCEPT ![c] = w] /\ UNCHANGED lock /\ Infer!Goto(c, "making")
      BY <1>9, <2>4 DEF Infer!Generate
    <3> HIDE DEF w
    <3>3. /\ made' \in [Client -> MadeOf \cup {Nothing}] /\ made'[c].weights = Weights[m]
          /\ \A d \in Client \ {c} : made'[d] = made[d]
      BY <3>1, <3>2 DEF InferInv, InferTypes
    <3>4. /\ client' \in [Client -> Requests] /\ \A d \in Client \ {c} : client'[d] = client[d]
          /\ client'[c].at = "making" /\ client'[c].model = m /\ client'[c].on = p
      BY <1>0, <3>2 DEF Infer!Goto, Requests, Waits, Locked
    <3>5. InferTypes'
      BY <2>1, <3>2, <3>3, <3>4 DEF InferInv, InferTypes
    <3>6. Requested(c)'
      BY <2>1, <3>2, <3>3, <3>4 DEF Requested, Locked
    <3> QED BY <2>1, <2>2, <3>2, <3>3, <3>4, <3>5, <3>6, LockKept
  <2> QED BY <2>3, <2>4
<1>10. ASSUME NEW p \in Pid, Infer!Boot(p) \/ Infer!Idle(p) PROVE InferInv'
  BY <1>10 DEF Infer!Boot, Infer!Idle, InferInv, InferTypes, NamedByWeights, Requested
<1>11. ASSUME NEW p \in Pid, Infer!OrphanEnds(p) PROVE InferInv'
  <2>1. \A d \in Client : client[d].at \in Locked => client[d].on # p
    BY <1>0, <1>11, RequestsAreNotMarks DEF Infer!OrphanEnds, Requested
  <2>2. /\ lock' = [lock EXCEPT ![p] = "free"]
        /\ UNCHANGED <<loaded, weights, adapters, client, made>>
    BY <1>11 DEF Infer!OrphanEnds, Infer!Release
  <2>3. InferTypes' /\ NamedByWeights'
    BY <2>2 DEF InferInv, InferTypes, NamedByWeights
  <2>4. ASSUME NEW d \in Client PROVE Requested(d)'
    BY <2>1, <2>2 DEF InferInv, InferTypes, Requested, Locked
  <2> QED BY <2>3, <2>4 DEF InferInv
<1>12. ASSUME NEW p \in Pid, Infer!Unload(p) PROVE InferInv'
  <2>1. /\ UNCHANGED <<lock, client, made>>
        /\ weights' = [weights EXCEPT ![p] = Nothing]
        /\ adapters' = [adapters EXCEPT ![p] = Nothing]
        /\ loaded' = [loaded EXCEPT ![p] = Nothing]
    BY <1>12 DEF Infer!Unload
  <2>2. InferTypes' /\ NamedByWeights'
    BY <2>1 DEF InferInv, InferTypes, NamedByWeights
  <2>3. ASSUME NEW d \in Client PROVE Requested(d)'
    BY <2>1 DEF InferInv, InferTypes, Requested, Locked
  <2> QED BY <2>2, <2>3 DEF InferInv
<1>13. ASSUME NEW p \in Pid, Infer!Exit(p) \/ Infer!Dies(p) PROVE InferInv'
  <2>1. Infer!Ends(p) /\ UNCHANGED made /\ client' = Infer!Cut(p)
    BY <1>13 DEF Infer!Exit, Infer!Dies
  <2>2. /\ client' \in [Client -> Requests]
        /\ \A d \in Client : \/ client'[d] = client[d] /\ d \notin Infer!On(p)
                             \/ /\ client'[d].at \in Waits \ {"idle", "done"}
                                /\ client'[d].model = client[d].model
                                /\ client[d].at # "idle"
    BY <2>1, CutOff DEF Waits
  <2> QED BY <2>1, <2>2, ProcessEnds
<1> QED
  BY <1>1, <1>2, <1>3, <1>4, <1>5, <1>6, <1>7, <1>8, <1>9, <1>10, <1>11, <1>12, <1>13
     DEF Infer!Next, Infer!Calls, Infer!Serves, Infer!Goes

LEMMA InferSteps == [AllNext]_allVars => [Infer!Next]_(Infer!vars)
BY DEF AllNext, allVars, inferVars, Infer!vars

(* A complete answer comes from the weights of the model it was asked of:  *)
(* for any clients, processes and models, however many processes share the *)
(* port, and whatever is loaded, swapped, unloaded without the lock,       *)
(* killed, given up or made to fail meanwhile.                             *)
THEOREM AnswersAreOfTheirWeights == AllSpec => []MadeByItsWeights
<1>1. AllInit => InferInv
  BY InferStarts DEF AllInit
<1>2. InferInv /\ [AllNext]_allVars => InferInv'
  BY InferKeeps, InferSteps
<1>3. InferInv => MadeByItsWeights
  BY DEF InferInv, Requested, MadeByItsWeights, Infer!MadeByItsWeights
<1> QED BY <1>1, <1>2, <1>3, PTL DEF AllSpec

-----------------------------------------------------------------------------
(* What a vision model decides                                             *)

Posted == {"queued", "inferring", "answered"}
Stored == {"ensure", "look", "waiting", "kill", "rekill", "start", "post", "refused"} \cup Posted
Going  == {"shot"} \cup Stored
Acts   == [at : {"idle"} \cup Going \cup Visual!Ended, on : Server \cup {None}, starts : Int,
           again : BOOLEAN]
Tools  == {"desktop", "browser"}

\* The file in .vision is the tool's: its calls come one after another.
OneCallPerTool ==
    \A c, d \in Call :
        visualCall[c].at \in Going /\ visualCall[d].at \in Going /\ Tool[c] = Tool[d] => c = d

VisualTypes ==
    /\ visualCall \in [Call -> Acts]
    /\ picture \in [Tools -> Call \cup {None}]
    /\ seen \in [Call -> Call \cup {None}]

\* A call has its screenshot in the file until it ends, and the server has
\* read it from there.
Pictured(c) ==
    LET at == visualCall[c].at IN
    /\ at = "shot" => Tool[c] = "desktop"
    /\ at \in Stored => Tool[c] \in Tools /\ picture[Tool[c]] = c
    /\ at \in Posted \cup {"done"} => seen[c] = c

VisualInv == VisualTypes /\ \A c \in Call : Pictured(c)

LEMMA VisualStarts == Visual!Init => VisualInv
BY DEF Visual!Init, VisualInv, VisualTypes, Pictured, Acts, Going, Stored, Posted, Tools,
       Visual!Ended

(* Calls whose file is written move on, or fail.                           *)
LEMMA CallsMove ==
    ASSUME VisualInv, UNCHANGED picture, visualCall' \in [Call -> Acts],
           seen' \in [Call -> Call \cup {None}],
           \A d \in Call :
              \/ visualCall'[d] = visualCall[d] /\ seen'[d] = seen[d]
              \/ visualCall'[d].at = "failed"
              \/ /\ visualCall[d].at \in Stored /\ visualCall'[d].at \in Stored \cup {"done"}
                 /\ visualCall'[d].at \in Posted \cup {"done"} => seen'[d] = d
    PROVE  VisualInv'
<1>1. VisualTypes'
  BY DEF VisualInv, VisualTypes
<1>2. ASSUME NEW d \in Call PROVE Pictured(d)'
  <2>1. Pictured(d)
    BY DEF VisualInv
  <2> QED BY <2>1 DEF Pictured, Stored, Posted
<1> QED BY <1>1, <1>2 DEF VisualInv

(* A call that has just taken its screenshot writes the file, which no     *)
(* other call of the tool needs.                                           *)
LEMMA FileWritten ==
    ASSUME VisualInv, OneCallPerTool', NEW c \in Call, Visual!Write(c), UNCHANGED seen,
           Tool[c] \in Tools, visualCall' = [visualCall EXCEPT ![c].at = "ensure"]
    PROVE  VisualInv'
<1>1. /\ visualCall' \in [Call -> Acts] /\ visualCall'[c].at = "ensure"
      /\ \A d \in Call \ {c} : visualCall'[d] = visualCall[d]
  BY DEF VisualInv, VisualTypes, Acts, Going, Stored
<1>2. /\ picture' \in [Tools -> Call \cup {None}] /\ picture'[Tool[c]] = c
      /\ \A t \in Tools \ {Tool[c]} : picture'[t] = picture[t]
  BY DEF VisualInv, VisualTypes, Visual!Write
<1>3. VisualTypes'
  BY <1>1, <1>2 DEF VisualInv, VisualTypes
<1>4. Pictured(c)'
  BY <1>1, <1>2 DEF Pictured, Posted
<1>5. ASSUME NEW d \in Call, d # c PROVE Pictured(d)'
  <2>1. Pictured(d) /\ visualCall'[d] = visualCall[d] /\ seen'[d] = seen[d]
    BY <1>1, <1>5 DEF VisualInv
  <2>2. visualCall[d].at \in Stored => Tool[d] # Tool[c]
    BY <1>1, <1>5, <2>1 DEF OneCallPerTool, Going, Stored
  <2> QED BY <1>2, <2>1, <2>2 DEF Pictured
<1> QED BY <1>3, <1>4, <1>5 DEF VisualInv

\* The calls of a server that ended are told so, and go on from there.
LEMMA CallsCut ==
    ASSUME VisualInv, NEW p
    PROVE  /\ Visual!Cut(p) \in [Call -> Acts]
           /\ \A d \in Call : \/ Visual!Cut(p)[d] = visualCall[d]
                              \/ visualCall[d].at \in Stored /\ Visual!Cut(p)[d].at = "refused"
BY ZenonT(30) DEF VisualInv, VisualTypes, Visual!Cut, Visual!On, Visual!Disconnected, Acts, Going, Stored,
       Posted, Visual!Ended

\* A call that leaves where it was.
LEMMA CallLeaves ==
    ASSUME VisualInv, NEW c \in Call, NEW at \in {"post", "failed", "answered", "done"},
           Visual!Leave(c, at)
    PROVE  /\ visualCall' \in [Call -> Acts] /\ visualCall'[c].at = at
           /\ \A d \in Call \ {c} : visualCall'[d] = visualCall[d]
<1> DEFINE r == [at |-> at, on |-> None, starts |-> 0,
                 again |-> visualCall[c].again /\ at \notin Visual!Ended]
<1>1. r \in Acts /\ r.at = at
  BY DEF Acts, Going, Stored, Posted, Visual!Ended
<1>2. visualCall' = [visualCall EXCEPT ![c] = r]
  BY DEF Visual!Leave
<1> HIDE DEF r
<1> QED BY <1>1, <1>2 DEF VisualInv, VisualTypes

(* Every step keeps it, one action at a time.                              *)
LEMMA VisualKeeps ==
    VisualInv /\ OneCallPerTool' /\ [Visual!Next]_(Visual!vars) => VisualInv'
<1> SUFFICES ASSUME VisualInv, OneCallPerTool', [Visual!Next]_(Visual!vars) PROVE VisualInv'
  OBVIOUS
<1> USE DEF Visual!procs
<1>0. /\ visualCall \in [Call -> Acts] /\ seen \in [Call -> Call \cup {None}]
      /\ \A c \in Call : Pictured(c)
  BY DEF VisualInv, VisualTypes
<1>a. ASSUME NEW c \in Call, UNCHANGED picture, visualCall' \in [Call -> Acts],
             \A d \in Call \ {c} : visualCall'[d] = visualCall[d] /\ seen'[d] = seen[d],
             seen' \in [Call -> Call \cup {None}],
             \/ visualCall'[c].at = "failed"
             \/ /\ visualCall[c].at \in Stored /\ visualCall'[c].at \in Stored \cup {"done"}
                /\ visualCall'[c].at \in Posted \cup {"done"} => seen'[c] = c
      PROVE  VisualInv'
  BY <1>a, CallsMove
<1>1. CASE UNCHANGED Visual!vars
  BY <1>1 DEF Visual!vars, VisualInv, VisualTypes, Pictured
<1>2. ASSUME NEW c \in Call, Visual!Shoot(c) PROVE VisualInv'
  <2>1. /\ visualCall' = [visualCall EXCEPT ![c].at = "shot"] /\ Tool[c] = "desktop"
        /\ UNCHANGED <<picture, seen>>
    BY <1>2 DEF Visual!Shoot, Visual!Goto
  <2>2. /\ visualCall' \in [Call -> Acts] /\ visualCall'[c].at = "shot"
        /\ \A d \in Call \ {c} : visualCall'[d] = visualCall[d]
    BY <1>0, <2>1 DEF Acts, Going
  <2>3. VisualTypes'
    BY <2>1, <2>2 DEF VisualInv, VisualTypes
  <2>4. Pictured(c)'
    BY <2>1, <2>2 DEF Pictured, Stored, Posted
  <2>5. ASSUME NEW d \in Call, d # c PROVE Pictured(d)'
    BY <1>0, <2>1, <2>2, <2>5 DEF Pictured
  <2> QED BY <2>3, <2>4, <2>5 DEF VisualInv
<1>3. ASSUME NEW c \in Call, Visual!Take(c) PROVE VisualInv'
  <2>1. Tool[c] = "desktop" /\ UNCHANGED seen
    BY <1>0, <1>3 DEF Visual!Take, Pictured
  <2>2. CASE shot
    BY <1>3, <2>1, <2>2, FileWritten DEF Visual!Take, Visual!Goto, Tools
  <2>3. CASE ~shot
    <3>1. visualCall' = [visualCall EXCEPT ![c].at = "failed"] /\ UNCHANGED picture
      BY <1>3, <2>3 DEF Visual!Take, Visual!Goto
    <3>2. /\ visualCall' \in [Call -> Acts] /\ visualCall'[c].at = "failed"
          /\ \A d \in Call \ {c} : visualCall'[d] = visualCall[d]
      BY <1>0, <3>1 DEF Acts, Visual!Ended
    <3> QED BY <1>0, <1>a, <2>1, <3>1, <3>2
  <2> QED BY <2>2, <2>3
<1>4. ASSUME NEW c \in Call, Visual!Capture(c) PROVE VisualInv'
  BY <1>4, FileWritten DEF Visual!Capture, Visual!Goto, Tools
<1>5. ASSUME NEW c \in Call, Visual!Check(c) \/ Visual!Look(c) \/ Visual!Start(c) PROVE VisualInv'
  <2>1. /\ visualCall[c].at \in {"ensure", "look", "start"} /\ UNCHANGED <<picture, seen>>
        /\ visualCall' \in [Call -> Acts]
        /\ visualCall'[c].at \in {"post", "look", "waiting", "kill"}
        /\ \A d \in Call \ {c} : visualCall'[d] = visualCall[d]
    <3>1. CASE Visual!Check(c) \/ Visual!Look(c)
      BY <1>0, <3>1 DEF Visual!Check, Visual!Look, Visual!Goto, Acts, Going, Stored
    <3>2. CASE Visual!Start(c)
      <4>1. /\ visualCall[c].at = "start" /\ UNCHANGED <<picture, seen>>
            /\ visualCall' = [visualCall EXCEPT ![c].at = "waiting", ![c].starts = @ + 1]
        BY <3>2 DEF Visual!Start
      <4> QED BY <1>0, <4>1 DEF Acts, Going, Stored
    <3> QED BY <1>5, <3>1, <3>2
  <2>2. seen' \in [Call -> Call \cup {None}] /\ \A d \in Call \ {c} : seen'[d] = seen[d]
    BY <1>0, <2>1
  <2>3. /\ visualCall[c].at \in Stored /\ visualCall'[c].at \in Stored \ Posted
        /\ visualCall'[c].at # "done"
    BY <2>1 DEF Stored, Posted
  <2> QED BY <1>a, <2>1, <2>2, <2>3
<1>6. ASSUME NEW c \in Call,
             Visual!Wait(c) \/ Visual!Retry(c) \/ Visual!Answer(c) \/ Visual!Act(c)
      PROVE  VisualInv'
  <2>1. UNCHANGED <<picture, seen>>
    BY <1>6 DEF Visual!Wait, Visual!Retry, Visual!Answer, Visual!Act
  <2>2. ASSUME NEW at \in {"post", "failed", "answered", "done"}, Visual!Leave(c, at),
               at # "failed" => visualCall[c].at \in Stored,
               at \in {"answered", "done"} => visualCall[c].at \in Posted
        PROVE  VisualInv'
    <3>1. /\ visualCall' \in [Call -> Acts] /\ visualCall'[c].at = at
          /\ \A d \in Call \ {c} : visualCall'[d] = visualCall[d]
      BY <2>2, CallLeaves
    <3>2. visualCall[c].at \in Posted => seen[c] = c
      BY <1>0 DEF Pictured
    <3> QED BY <1>0, <1>a, <2>1, <2>2, <3>1, <3>2 DEF Stored, Posted
  <2>3. ASSUME NEW at \in {"kill"}, visualCall[c].at = "waiting", Visual!Goto(c, at)
        PROVE  VisualInv'
    <3>1. /\ visualCall' \in [Call -> Acts] /\ visualCall'[c].at = "kill"
          /\ \A d \in Call \ {c} : visualCall'[d] = visualCall[d]
      BY <1>0, <2>3 DEF Visual!Goto, Acts, Going, Stored
    <3> QED BY <1>0, <1>a, <2>1, <2>3, <3>1 DEF Stored, Posted
  <2>4. ASSUME visualCall[c].at = "refused",
               visualCall' = [visualCall EXCEPT ![c].at = "rekill", ![c].again = TRUE]
        PROVE  VisualInv'
    <3>1. /\ visualCall' \in [Call -> Acts] /\ visualCall'[c].at = "rekill"
          /\ \A d \in Call \ {c} : visualCall'[d] = visualCall[d]
      BY <1>0, <2>4, ZenonT(30) DEF Acts, Going, Stored
    <3> QED BY <1>0, <1>a, <2>1, <2>4, <3>1 DEF Stored, Posted
  <2>5. CASE Visual!Wait(c)
    BY <2>2, <2>3, <2>5 DEF Visual!Wait, Stored
  <2>6. CASE Visual!Retry(c)
    BY <2>2, <2>4, <2>6 DEF Visual!Retry, Stored
  <2>7. CASE Visual!Answer(c)
    BY <2>2, <2>7 DEF Visual!Answer, Stored, Posted
  <2>8. CASE Visual!Act(c)
    BY <2>2, <2>8 DEF Visual!Act, Stored, Posted
  <2> QED BY <1>6, <2>5, <2>6, <2>7, <2>8
<1>7. ASSUME NEW c \in Call, Visual!KillServer(c) PROVE VisualInv'
  <2> DEFINE to == IF visualCall[c].at = "kill" THEN "start" ELSE "ensure"
  <2>1. /\ visualCall[c].at \in Stored /\ to \in Stored \ Posted /\ to \notin {"done", "idle"}
        /\ UNCHANGED <<picture, seen>>
    BY <1>7 DEF Visual!KillServer, Stored, Posted
  <2>2. PICK f \in [Call -> Acts] :
          /\ visualCall' = [f EXCEPT ![c].at = to]
          /\ \A d \in Call : \/ f[d] = visualCall[d]
                             \/ visualCall[d].at \in Stored /\ f[d].at = "refused"
    <3>1. CASE recorded \in Visual!Alive
      <4> DEFINE cut == Visual!Cut(recorded)
      <4>1. /\ cut \in [Call -> Acts]
            /\ \A d \in Call : \/ cut[d] = visualCall[d]
                               \/ visualCall[d].at \in Stored /\ cut[d].at = "refused"
        BY CallsCut
      <4>2. visualCall' = [cut EXCEPT ![c].at = to]
        BY <1>7, <3>1 DEF Visual!KillServer
      <4> HIDE DEF cut, to
      <4> QED BY <4>1, <4>2
    <3>2. CASE recorded \notin Visual!Alive
      <4>1. visualCall' = [visualCall EXCEPT ![c].at = to]
        BY <1>7, <3>2 DEF Visual!KillServer, Visual!Goto
      <4> HIDE DEF to
      <4> QED BY <1>0, <4>1
    <3> QED BY <3>1, <3>2
  <2> HIDE DEF to
  <2>3. /\ visualCall' \in [Call -> Acts] /\ visualCall'[c].at = to
        /\ \A d \in Call \ {c} : visualCall'[d] = f[d]
    BY <2>1, <2>2 DEF Acts, Going
  <2>4. ASSUME NEW d \in Call
        PROVE  \/ visualCall'[d] = visualCall[d] /\ seen'[d] = seen[d]
               \/ visualCall'[d].at = "failed"
               \/ /\ visualCall[d].at \in Stored /\ visualCall'[d].at \in Stored \cup {"done"}
                  /\ visualCall'[d].at \in Posted \cup {"done"} => seen'[d] = d
    BY <2>1, <2>2, <2>3 DEF Stored, Posted
  <2>5. seen' \in [Call -> Call \cup {None}] /\ UNCHANGED picture
    BY <1>0, <2>1
  <2> QED BY <2>3, <2>4, <2>5, CallsMove
<1>8. ASSUME NEW c \in Call, Visual!Post(c) PROVE VisualInv'
  <2>0. visualCall[c].at = "post" /\ Tool[c] \in Tools /\ picture[Tool[c]] = c /\ UNCHANGED picture
    BY <1>0, <1>8 DEF Visual!Post, Pictured, Stored
  <2>1. CASE Visual!Serving = {}
    <3>1. visualCall' = [visualCall EXCEPT ![c].at = "refused"] /\ UNCHANGED seen
      BY <1>8, <2>1 DEF Visual!Post, Visual!Goto
    <3>2. /\ visualCall' \in [Call -> Acts] /\ visualCall'[c].at = "refused"
          /\ \A d \in Call \ {c} : visualCall'[d] = visualCall[d]
      BY <1>0, <3>1 DEF Acts, Going, Stored
    <3> QED BY <1>0, <1>a, <2>0, <3>1, <3>2 DEF Stored, Posted
  <2>2. CASE Visual!Serving # {}
    <3> DEFINE p == CHOOSE q \in Visual!Serving : TRUE
    <3>1. p \in Server
      BY <2>2 DEF Visual!Serving
    <3>2. /\ visualCall' = [visualCall EXCEPT ![c].at = "queued", ![c].on = p]
          /\ seen' = [seen EXCEPT ![c] = c]
      BY <1>8, <2>0, <2>2 DEF Visual!Post
    <3> HIDE DEF p
    <3>3. /\ visualCall' \in [Call -> Acts] /\ visualCall'[c].at = "queued"
          /\ \A d \in Call \ {c} : visualCall'[d] = visualCall[d]
      BY <1>0, <3>1, <3>2, ZenonT(30) DEF Acts, Going, Stored, Posted
    <3>4. /\ seen' \in [Call -> Call \cup {None}] /\ seen'[c] = c
          /\ \A d \in Call \ {c} : seen'[d] = seen[d]
      BY <1>0, <3>2
    <3> QED BY <1>a, <2>0, <3>3, <3>4 DEF Stored, Posted
  <2> QED BY <2>1, <2>2
<1>9. ASSUME NEW c \in Call, Visual!Timeout(c) \/ Visual!Infer(c) PROVE VisualInv'
  <2>1. UNCHANGED <<picture, seen>> /\ visualCall[c].at \in {"queued", "inferring"}
    BY <1>9 DEF Visual!Timeout, Visual!Infer
  <2>2. /\ visualCall' \in [Call -> Acts] /\ visualCall'[c].at \in {"refused", "inferring"}
        /\ \A d \in Call \ {c} : visualCall'[d] = visualCall[d]
    <3>1. CASE Visual!Timeout(c)
      <4>1. Visual!Disconnected(c) \in Acts /\ Visual!Disconnected(c).at = "refused"
        BY <1>0 DEF Visual!Disconnected, Acts, Going, Stored
      <4>2. visualCall' = [visualCall EXCEPT ![c] = Visual!Disconnected(c)]
        BY <3>1 DEF Visual!Timeout
      <4> QED BY <1>0, <4>1, <4>2
    <3>2. CASE Visual!Infer(c)
      BY <1>0, <3>2 DEF Visual!Infer, Visual!Goto, Acts, Going, Stored, Posted
    <3> QED BY <1>9, <3>1, <3>2
  <2>3. seen[c] = c
    BY <1>0, <2>1 DEF Pictured, Posted
  <2> QED BY <1>0, <1>a, <2>1, <2>2, <2>3 DEF Stored, Posted
<1>10. ASSUME NEW p \in Server, Visual!Bind(p) \/ Visual!OrphanEnds(p) PROVE VisualInv'
  BY <1>10 DEF Visual!Bind, Visual!OrphanEnds, VisualInv, VisualTypes, Pictured
<1>11. ASSUME NEW p \in Server, Visual!Idle(p) \/ Visual!Dies(p) PROVE VisualInv'
  <2>1. visualCall' = Visual!Cut(p) /\ UNCHANGED <<picture, seen>>
    BY <1>11 DEF Visual!Idle, Visual!Dies, Visual!Ends
  <2>2. seen' \in [Call -> Call \cup {None}] /\ \A d \in Call : seen'[d] = seen[d]
    BY <1>0, <2>1
  <2> QED BY <2>1, <2>2, CallsCut, CallsMove DEF Stored, Posted
<1> QED
  BY <1>1, <1>2, <1>3, <1>4, <1>5, <1>6, <1>7, <1>8, <1>9, <1>10, <1>11
     DEF Visual!Next, Visual!Goes

LEMMA VisualSteps == [AllNext]_allVars => [Visual!Next]_(Visual!vars)
BY DEF AllNext, allVars, visualVars, Visual!vars

(* What a vision model's answer is carried out on is decided from the      *)
(* caller's own screenshot: for any calls and servers, and however often   *)
(* servers are killed, restarted, go idle or time out under the calls, as  *)
(* long as the calls of one tool come one after another. The two tools     *)
(* share the server, whose processes any of them may end.                  *)
THEOREM DecidedFromTheirScreenshot == AllSpec /\ []OneCallPerTool => []ActsOnItsScreenshot
<1>1. AllInit => VisualInv
  BY VisualStarts DEF AllInit
<1>2. VisualInv /\ OneCallPerTool' /\ [AllNext]_allVars => VisualInv'
  BY VisualKeeps, VisualSteps
<1>3. VisualInv => ActsOnItsScreenshot
  BY DEF VisualInv, Pictured, ActsOnItsScreenshot, Visual!ActsOnItsScreenshot
<1> QED BY <1>1, <1>2, <1>3, PTL DEF AllSpec
=============================================================================
